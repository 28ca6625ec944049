---------------------------- MODULE SetupProofs ----------------------------
(***************************************************************************)
(* What an install has reported, what the user has chosen and what the     *)
(* commands tell the user holds for any agents, machines, PATHs and flags, *)
(* and any number of installs, runs and moves. The argument: the pool      *)
(* depends on the machine, the PATH and the settings alone; the three ways *)
(* to resolve it agree on settings that an install has accepted; and a     *)
(* process that is fresh has the settings that are in the file, so that    *)
(* its saves change none.                                                  *)
(***************************************************************************)
EXTENDS Setup, RecursionFacts, TLAPS

-----------------------------------------------------------------------------
(* Lists of agents.                                                        *)

NoRepeats(s) == \A i, j \in 1 .. Len(s) : s[i] = s[j] => i = j

\* What a list of names looks like with the first of each name kept.
IsNormalized(names, kept) ==
  /\ kept \in Seq(Agents)
  /\ NoRepeats(kept)
  /\ names # <<>> => kept # <<>>
  /\ NoRepeats(names) => kept = names

Keep(kept, a) == IF a \in ToSet(kept) THEN kept ELSE Append(kept, a)

LEMMA AppendedIs ==
  ASSUME NEW s \in Seq(Agents), NEW a \in Agents
  PROVE  /\ Len(Append(s, a)) = Len(s) + 1 /\ Append(s, a) # <<>>
         /\ \A j \in 1 .. Len(s) : Append(s, a)[j] = s[j]
         /\ Append(s, a)[Len(s) + 1] = a
         /\ NoRepeats(s) /\ a \notin ToSet(s) => NoRepeats(Append(s, a))
<1> DEFINE n == Len(s)
           t == Append(s, a)
<1>1. /\ n \in Nat /\ Len(t) = n + 1 /\ t # <<>>
      /\ \A j \in 1 .. n : t[j] = s[j]
      /\ t[n + 1] = a
  OBVIOUS
<1>2. a \notin ToSet(s) => \A j \in 1 .. n : s[j] # a
  BY DEF ToSet
<1> HIDE DEF n, t
<1>3. ASSUME NoRepeats(s), a \notin ToSet(s), NEW i \in 1 .. n + 1, NEW j \in 1 .. n + 1,
             t[i] = t[j]
      PROVE  i = j
  <2>1. (i \in 1 .. n \/ i = n + 1) /\ (j \in 1 .. n \/ j = n + 1)
    BY <1>1
  <2> QED
    BY <1>1, <1>2, <1>3, <2>1 DEF NoRepeats, n
<1>4. NoRepeats(s) /\ a \notin ToSet(s) => NoRepeats(t)
  BY <1>1, <1>3 DEF NoRepeats
<1> QED
  BY <1>1, <1>4 DEF n, t

\* The lists that the fold goes through.
LEMMA NormalizedUnfolds ==
  ASSUME NEW names \in Seq(Agents)
  PROVE  \E k : /\ k \in [0 .. Len(names) -> Seq(Agents)] /\ k[0] = <<>>
                /\ \A i \in 1 .. Len(names) : k[i] = Keep(k[i - 1], names[i])
                /\ Normalized(names) = k[Len(names)]
<1> DEFINE n == Len(names)
           A == Seq(Agents)
           step == [p \in A \X (1 .. n) |-> Keep(p[1], names[p[2]])]
           Folds(iter) ==
             iter = [s \in SUBSET (1 .. n) |->
                      IF s = {} THEN <<>> ELSE Keep(iter[s \ {Max(s)}], names[Max(s)])]
<1>1. n \in Nat /\ <<>> \in A /\ \A x \in A, i \in 1 .. n : Keep(x, names[i]) \in A
  <2>1. \A i \in 1 .. n : names[i] \in Agents
    OBVIOUS
  <2> QED
    BY <2>1 DEF Keep
<1>2. step \in StepFunctions(A, n)
  BY <1>1 DEF StepFunctions
<1>3. PICK g \in [SUBSET (1 .. n) -> A] : FoldLeads(g, n, <<>>, step)
  <2> HIDE DEF step, n, A
  <2> QED
    BY <1>1, <1>2, FoldRecursion
<1>4. Folds(g)
  <2>1. ASSUME NEW s \in SUBSET (1 .. n), s # {}
        PROVE  step[<<g[s \ {Max(s)}], Max(s)>>] = Keep(g[s \ {Max(s)}], names[Max(s)])
    <3>1. Max(s) \in 1 .. n
      <4>1. Max(s) \in s
        BY <1>1, <2>1, MaxIsIn
      <4> QED
        BY <4>1
    <3>2. g[s \ {Max(s)}] \in A
      OBVIOUS
    <3> HIDE DEF n, A
    <3> QED
      BY <3>1, <3>2
  <2> HIDE DEF step
  <2> QED
    BY <1>3, <2>1 DEF FoldLeads
<1>5. PICK iter : Folds(iter) /\ Normalized(names) = iter[1 .. n]
  <2>1. DOMAIN names = 1 .. n
    OBVIOUS
  <2> HIDE DEF step, A
  <2> QED
    BY <1>4, <2>1, Zenon DEF Normalized, FoldLeft, MapThenFoldSet, Keep
<1> DEFINE k == [i \in 0 .. n |-> iter[1 .. i]]
<1>6. k[0] = <<>>
  <2>1. 0 \in 0 .. n /\ 1 .. 0 = {} /\ {} \in SUBSET (1 .. n)
    BY <1>1
  <2>2. iter[{}] = <<>>
    BY <1>5, <2>1, Zenon
  <2> QED
    BY <2>1, <2>2
<1>7. ASSUME NEW i \in 1 .. n PROVE k[i] = Keep(k[i - 1], names[i])
  <2>1. 1 .. i \in SUBSET (1 .. n) /\ i \in Nat \ {0} /\ i - 1 \in 0 .. n
    OBVIOUS
  <2>2. iter[1 .. i] = IF 1 .. i = {} THEN <<>>
                       ELSE Keep(iter[(1 .. i) \ {Max(1 .. i)}], names[Max(1 .. i)])
    BY <1>5, <2>1, Zenon
  <2>3. iter[1 .. i] = Keep(iter[1 .. i - 1], names[i])
    BY <2>1, <2>2, FirstNumbers
  <2> QED
    BY <2>1, <2>3
<1>8. n \in 0 .. n /\ Normalized(names) = k[n]
  <2>1. n \in 0 .. n
    BY <1>1
  <2> QED
    BY <1>5, <2>1
<1> DEFINE S == {i \in 0 .. n : k[i] \in A}
<1> HIDE DEF k
<1>9. 0 \in S
  <2>1. 0 \in 0 .. n
    BY <1>1
  <2> QED
    BY <1>1, <1>6, <2>1
<1>10. ASSUME NEW i \in 0 .. n - 1, i \in S PROVE i + 1 \in S
  <2>1. i + 1 \in 1 .. n /\ i + 1 \in 0 .. n
    OBVIOUS
  <2>2. k[i + 1] = Keep(k[i], names[i + 1])
    BY <1>7, <2>1
  <2>3. k[i + 1] \in A
    <3> HIDE DEF A
    <3> QED
      BY <1>1, <1>10, <2>1, <2>2
  <2> QED
    BY <2>1, <2>3
<1> HIDE DEF S
<1>11. 0 .. n \subseteq S
  BY <1>1, <1>9, <1>10, UpTo
<1>12. k \in [0 .. n -> A]
  BY <1>11 DEF S, k
<1> QED
  BY <1>6, <1>7, <1>8, <1>12

\* normalizeAgentPool keeps every name once and leaves a list without
\* repetitions as it is.
LEMMA NormalizedIs ==
  ASSUME NEW names \in Seq(Agents)
  PROVE  IsNormalized(names, Normalized(names))
<1> DEFINE n == Len(names)
<1>1. PICK k : /\ k \in [0 .. n -> Seq(Agents)] /\ k[0] = <<>>
               /\ \A i \in 1 .. n : k[i] = Keep(k[i - 1], names[i])
               /\ Normalized(names) = k[n]
  BY NormalizedUnfolds
<1> DEFINE Same(i) == Len(k[i]) = i /\ \A j \in 1 .. i : k[i][j] = names[j]
           Good(i) == /\ NoRepeats(k[i])
                      /\ i # 0 => k[i] # <<>>
                      /\ NoRepeats(names) => Same(i)
           S == {i \in 0 .. n : Good(i)}
<1>2. n \in Nat /\ \A i \in 1 .. n : names[i] \in Agents
  OBVIOUS
<1>3. Good(0)
  BY <1>1 DEF NoRepeats
<1>4. ASSUME NEW i \in 0 .. n - 1, Good(i) PROVE Good(i + 1)
  <2>1. /\ i + 1 \in 1 .. n /\ i \in 0 .. n /\ i \in Nat /\ i + 1 # 0
        /\ k[i] \in Seq(Agents) /\ names[i + 1] \in Agents
    BY <1>1, <1>2
  <2>2. k[i + 1] = Keep(k[i], names[i + 1])
    BY <1>1, <2>1
  <2>3. CASE names[i + 1] \in ToSet(k[i])
    <3>1. k[i + 1] = k[i] /\ k[i] # <<>>
      <4>1. ToSet(<<>>) = {}
        BY DEF ToSet
      <4> QED
        BY <2>2, <2>3, <4>1 DEF Keep
    <3>2. ASSUME NoRepeats(names) PROVE FALSE
      <4>1. PICK j \in 1 .. Len(k[i]) : k[i][j] = names[i + 1]
        BY <2>1, <2>3 DEF ToSet
      <4>2. j \in 1 .. i /\ names[j] = names[i + 1]
        BY <1>4, <3>2, <4>1
      <4>3. j \in 1 .. n
        BY <1>2, <4>2
      <4>4. j = i + 1
        BY <2>1, <3>2, <4>2, <4>3 DEF NoRepeats
      <4> QED
        BY <2>1, <4>2, <4>4
    <3> QED
      BY <1>4, <3>1, <3>2
  <2>4. CASE names[i + 1] \notin ToSet(k[i])
    <3>1. /\ Len(k[i + 1]) = Len(k[i]) + 1 /\ k[i + 1] # <<>>
          /\ \A j \in 1 .. Len(k[i]) : k[i + 1][j] = k[i][j]
          /\ k[i + 1][Len(k[i]) + 1] = names[i + 1]
          /\ NoRepeats(k[i + 1])
      <4>1. k[i + 1] = Append(k[i], names[i + 1])
        BY <2>2, <2>4 DEF Keep
      <4>2. NoRepeats(k[i])
        BY <1>4
      <4> HIDE DEF Good
      <4> QED
        BY <2>1, <2>4, <4>1, <4>2, AppendedIs
    <3>4. ASSUME NoRepeats(names) PROVE Same(i + 1)
      <4>1. Len(k[i]) = i /\ \A j \in 1 .. i : k[i][j] = names[j]
        BY <1>4, <3>4
      <4>2. ASSUME NEW j \in 1 .. i + 1 PROVE k[i + 1][j] = names[j]
        <5>1. j \in 1 .. i \/ j = i + 1
          BY <2>1
        <5> QED
          BY <3>1, <4>1, <5>1
      <4> QED
        BY <3>1, <4>1, <4>2
    <3> QED
      BY <3>1, <3>4
  <2> QED
    BY <2>3, <2>4
<1> HIDE DEF Good
<1>5. 0 \in S /\ \A i \in 0 .. n - 1 : i \in S => i + 1 \in S
  BY <1>2, <1>3, <1>4
<1> HIDE DEF S
<1>6. 0 .. n \subseteq S
  BY <1>2, <1>5, UpTo
<1>7. n \in 0 .. n /\ Good(n)
  BY <1>2, <1>6 DEF S
<1>8. k[n] \in Seq(Agents)
  BY <1>1, <1>7
<1>9. ASSUME NoRepeats(names) PROVE k[n] = names
  BY <1>7, <1>8, <1>9 DEF Good
<1>10. names # <<>> => n # 0
  OBVIOUS
<1> QED
  BY <1>1, <1>7, <1>8, <1>9, <1>10 DEF Good, IsNormalized

\* The agents that are located, in their order; none only if none is.
LEMMA InstalledUnfolds ==
  ASSUME NEW machine, NEW paths, NEW path
  PROVE  \E k : /\ k \in [0 .. Len(SupportedAgents) -> Seq(Agents)] /\ k[0] = <<>>
                /\ \A i \in 1 .. Len(SupportedAgents) :
                     k[i] = IF Located(machine, SupportedAgents[i], paths, path)
                            THEN Append(k[i - 1], SupportedAgents[i]) ELSE k[i - 1]
                /\ Installed(machine, paths, path) = k[Len(SupportedAgents)]
<1> DEFINE n == Len(SupportedAgents)
           A == Seq(Agents)
           Next(found, a) ==
             IF Located(machine, a, paths, path) THEN Append(found, a) ELSE found
           step == [p \in A \X (1 .. n) |-> Next(p[1], SupportedAgents[p[2]])]
           Folds(iter) ==
             iter = [s \in SUBSET (1 .. n) |->
                      IF s = {} THEN <<>>
                      ELSE Next(iter[s \ {Max(s)}], SupportedAgents[Max(s)])]
<1>1. n \in Nat /\ <<>> \in A /\ \A x \in A, i \in 1 .. n : Next(x, SupportedAgents[i]) \in A
  <2>1. SupportedAgents \in Seq(Agents)
    BY SetupAssumption
  <2>2. \A i \in 1 .. n : SupportedAgents[i] \in Agents
    BY <2>1
  <2> QED
    BY <2>1, <2>2
<1>2. DOMAIN SupportedAgents = 1 .. n
  BY SetupAssumption
<1>3. step \in StepFunctions(A, n)
  <2> HIDE DEF Next, A, n
  <2> QED
    BY <1>1 DEF StepFunctions
<1>4. PICK g \in [SUBSET (1 .. n) -> A] : FoldLeads(g, n, <<>>, step)
  <2> HIDE DEF step, n, A
  <2> QED
    BY <1>1, <1>3, FoldRecursion
<1>5. Folds(g)
  <2>1. ASSUME NEW s \in SUBSET (1 .. n), s # {}
        PROVE  step[<<g[s \ {Max(s)}], Max(s)>>]
                 = Next(g[s \ {Max(s)}], SupportedAgents[Max(s)])
    <3>1. Max(s) \in 1 .. n
      <4>1. Max(s) \in s
        BY <1>1, <2>1, MaxIsIn
      <4> QED
        BY <4>1
    <3>2. g[s \ {Max(s)}] \in A
      OBVIOUS
    <3> HIDE DEF n, A, Next
    <3> QED
      BY <3>1, <3>2
  <2> HIDE DEF step, Next
  <2> QED
    BY <1>4, <2>1 DEF FoldLeads
<1>6. PICK iter : Folds(iter) /\ Installed(machine, paths, path) = iter[1 .. n]
  <2> HIDE DEF step, A
  <2> QED
    BY <1>5, <1>2, Zenon DEF Installed, FoldLeft, MapThenFoldSet
<1> HIDE DEF Next
<1> DEFINE k == [i \in 0 .. n |-> iter[1 .. i]]
<1>7. k[0] = <<>>
  <2>1. 0 \in 0 .. n /\ 1 .. 0 = {} /\ {} \in SUBSET (1 .. n)
    BY <1>1
  <2>2. iter[{}] = <<>>
    BY <1>6, <2>1, Zenon
  <2> QED
    BY <2>1, <2>2
<1>8. ASSUME NEW i \in 1 .. n PROVE k[i] = Next(k[i - 1], SupportedAgents[i])
  <2>1. 1 .. i \in SUBSET (1 .. n) /\ i \in Nat \ {0} /\ i \in 0 .. n /\ i - 1 \in 0 .. n
    BY <1>1
  <2>2. iter[1 .. i] = IF 1 .. i = {} THEN <<>>
                       ELSE Next(iter[(1 .. i) \ {Max(1 .. i)}], SupportedAgents[Max(1 .. i)])
    BY <1>6, <2>1, Zenon
  <2>3. iter[1 .. i] = Next(iter[1 .. i - 1], SupportedAgents[i])
    BY <2>1, <2>2, FirstNumbers
  <2> QED
    BY <2>1, <2>3
<1>9. n \in 0 .. n /\ Installed(machine, paths, path) = k[n]
  <2>1. n \in 0 .. n
    BY <1>1
  <2> QED
    BY <1>6, <2>1
<1> DEFINE S == {i \in 0 .. n : k[i] \in A}
<1> HIDE DEF k
<1>10. 0 \in S
  <2>1. 0 \in 0 .. n
    BY <1>1
  <2> QED
    BY <1>1, <1>7, <2>1
<1>11. ASSUME NEW i \in 0 .. n - 1, i \in S PROVE i + 1 \in S
  <2>1. i + 1 \in 1 .. n /\ i + 1 \in 0 .. n
    BY <1>1
  <2>2. k[i + 1] = Next(k[i], SupportedAgents[i + 1])
    BY <1>8, <2>1
  <2>3. k[i + 1] \in A
    <3> HIDE DEF A
    <3> QED
      BY <1>1, <1>11, <2>1, <2>2
  <2> QED
    BY <2>1, <2>3
<1> HIDE DEF S
<1>12. 0 .. n \subseteq S
  BY <1>1, <1>10, <1>11, UpTo
<1>13. k \in [0 .. n -> A]
  BY <1>12 DEF S, k
<1> QED
  BY <1>7, <1>8, <1>9, <1>13 DEF Next

LEMMA SomeInstalled ==
  ASSUME NEW machine, NEW paths, NEW path, NEW a \in Agents, Located(machine, a, paths, path)
  PROVE  Installed(machine, paths, path) # <<>>
<1> DEFINE n == Len(SupportedAgents)
           Here(i) == Located(machine, SupportedAgents[i], paths, path)
<1>1. PICK k : /\ k \in [0 .. n -> Seq(Agents)] /\ k[0] = <<>>
               /\ \A i \in 1 .. n : k[i] = IF Here(i) THEN Append(k[i - 1], SupportedAgents[i])
                                           ELSE k[i - 1]
               /\ Installed(machine, paths, path) = k[n]
  BY InstalledUnfolds
<1>2. /\ n \in Nat
      /\ \A i \in 1 .. n : SupportedAgents[i] \in Agents
      /\ DOMAIN SupportedAgents = 1 .. n
  <2>1. SupportedAgents \in Seq(Agents)
    BY SetupAssumption
  <2> QED
    BY <2>1
<1>3. PICK j \in 1 .. n : Here(j)
  <2>1. PICK j \in DOMAIN SupportedAgents : SupportedAgents[j] = a
    BY DEF Agents, ToSet
  <2> QED
    BY <1>2, <2>1
<1> HIDE DEF Here, n
<1> DEFINE S == {i \in 0 .. n : i >= j => k[i] # <<>>}
<1>4. 0 \in S
  BY <1>2, <1>3
<1>5. ASSUME NEW i \in 0 .. n - 1, i \in S PROVE i + 1 \in S
  <2>1. /\ i + 1 \in 1 .. n /\ i + 1 \in 0 .. n /\ i \in 0 .. n
    BY <1>2
  <2>2. k[i] \in Seq(Agents) /\ SupportedAgents[i + 1] \in Agents
    BY <1>1, <1>2, <2>1
  <2>3. k[i + 1] = IF Here(i + 1) THEN Append(k[i], SupportedAgents[i + 1]) ELSE k[i]
    BY <1>1, <2>1
  <2>4. Append(k[i], SupportedAgents[i + 1]) # <<>>
    BY <2>2
  <2>5. i + 1 >= j => i >= j \/ i + 1 = j
    BY <1>3
  <2> QED
    BY <1>3, <1>5, <2>1, <2>3, <2>4, <2>5
<1> HIDE DEF S
<1>6. 0 .. n \subseteq S
  BY <1>2, <1>4, <1>5, UpTo
<1>7. n \in S /\ n >= j
  BY <1>2, <1>3, <1>6
<1> QED
  BY <1>1, <1>7 DEF S

-----------------------------------------------------------------------------
(* The pool.                                                               *)

IsConfig(c) ==
  c = [auth |-> c.auth, url |-> c.url, backend |-> c.backend, llm |-> c.llm,
       agent |-> c.agent, pool |-> c.pool, rotate |-> c.rotate, model |-> c.model,
       paths |-> c.paths]

Sound(c) ==
  /\ IsConfig(c)
  /\ c.paths \in [Agents -> Places]
  /\ c.backend = "llm" => c.llm = LLMSettings

LEMMA SettingsDecide ==
  ASSUME NEW machine, NEW path, NEW c, NEW d, Settings(c) = Settings(d)
  PROVE  ServicePool(machine, c, path) = ServicePool(machine, d, path)
<1>1. /\ c.backend = d.backend /\ c.agent = d.agent /\ c.pool = d.pool
      /\ c.rotate = d.rotate /\ c.paths = d.paths
  BY DEF Settings
<1>2. EffectivePaths(c, c.paths) = EffectivePaths(d, d.paths)
  BY <1>1 DEF EffectivePaths
<1> QED
  BY <1>1, <1>2 DEF ServicePool, ResolvePool, NoFlags

LEMMA SettingsSound ==
  ASSUME NEW c, NEW d, Settings(c) = Settings(d), Sound(c), IsConfig(d)
  PROVE  Sound(d)
  BY DEF Settings, Sound

\* A run without flags in the user's shell has the pool of the service.
LEMMA RunPoolIsServicePool ==
  ASSUME NEW machine, NEW path, NEW c, Sound(c)
  PROVE  RunPool(machine, c, NoFlags, path) = ServicePool(machine, c, path)
<1>1. EffectivePaths(c, NoPaths) = EffectivePaths(c, c.paths)
  BY DEF EffectivePaths, NoPaths
<1>2. BackendOf(c, NoFlags) = c.backend
  BY DEF BackendOf, NoFlags
<1>3. ValidFlags(NoFlags) /\ ~AgentFlags(NoFlags)
  BY SetupAssumption DEF ValidFlags, AgentFlags, NoFlags
<1>4. LLMComplete(c, NoFlags)
  BY <1>2 DEF LLMComplete, Sound, NoFlags
<1>5. \A a \in {NoFlags.agent} \ {None} : Located(machine, a, NoPaths, path)
  BY DEF NoFlags
<1>6. RunPool(machine, c, NoFlags, path)
        = ResolvePool(machine, c, NoFlags, BackendOf(c, NoFlags), NoPaths, path)
  BY <1>3, <1>4, <1>5 DEF RunPool
<1> QED
  BY <1>1, <1>2, <1>6 DEF ServicePool, ResolvePool

\* An install reports the pool of the settings that it makes.
LEMMA InstallPoolIsServicePool ==
  ASSUME NEW machine, NEW path, NEW c, NEW o
  PROVE  InstallPool(machine, c, o, path)
           = ServicePool(machine, InstallConfig(machine, c, o, path), path)
<1> DEFINE d == InstallConfig(machine, c, o, path)
<1>1. d.backend = BackendOf(c, o)
  BY DEF InstallConfig
<1>2. CASE BackendOf(c, o) = "llm"
  BY <1>1, <1>2 DEF InstallPool, ServicePool, ResolvePool
<1>3. CASE BackendOf(c, o) # "llm"
  <2>1. d.paths = Captured(machine, path)
    BY <1>3 DEF InstallConfig
  <2> QED
    BY <1>1, <2>1 DEF InstallPool, ServicePool
<1> QED
  BY <1>2, <1>3

LEMMA InstallSound ==
  ASSUME NEW machine \in [Agents -> Places], NEW path, NEW c, NEW o, LLMComplete(c, o)
  PROVE  Sound(InstallConfig(machine, c, o, path))
<1> DEFINE d == InstallConfig(machine, c, o, path)
<1>1. IsConfig(d)
  BY DEF IsConfig, InstallConfig
<1>2. d.paths \in [Agents -> Places]
  BY DEF InstallConfig, Captured, NoPaths, Places
<1>3. d.backend = "llm" => d.llm = LLMSettings
  BY DEF InstallConfig, LLMComplete
<1> QED
  BY <1>1, <1>2, <1>3 DEF Sound

-----------------------------------------------------------------------------
(* The invariant.                                                          *)

ShapeOK ==
  /\ where \in [Agents -> Places]
  /\ cmd = [step |-> cmd.step, config |-> cmd.config, asked |-> cmd.asked,
            pool |-> cmd.pool, path |-> cmd.path, seen |-> cmd.seen]
  /\ unit = [state |-> unit.state, path |-> unit.path]
  /\ worker = [on |-> worker.on, config |-> worker.config, fresh |-> worker.fresh,
               pool |-> worker.pool, seen |-> worker.seen]
  /\ run = [step |-> run.step, config |-> run.config, fresh |-> run.fresh,
            flags |-> run.flags, path |-> run.path]

\* Every configuration in memory is sound, and that of a fresh process has the
\* settings that are in the file.
DiskOK == Sound(disk)
WorkerOK ==
  worker.on =>
    /\ Sound(worker.config)
    /\ worker.fresh => Settings(worker.config) = Settings(disk)
RunOK ==
  run.step # "none" =>
    /\ Sound(run.config)
    /\ run.fresh => Settings(run.config) = Settings(disk)

\* An install carries the pool of its own settings.
InstallOK ==
  cmd.step # "idle" =>
    /\ Sound(cmd.config)
    /\ cmd.pool = ServicePool(cmd.seen, cmd.config, cmd.path)

\* What has been reported is what the settings in the file still say.
PromiseOK ==
  promise.on =>
    /\ cmd.step \in {"idle", "checking"}
    /\ unit.path = promise.path
    /\ promise.pool = ServicePool(promise.seen, disk, promise.path)
    /\ worker.on /\ worker.seen = promise.seen => worker.pool = promise.pool

IInv == ShapeOK /\ DiskOK /\ WorkerOK /\ RunOK /\ InstallOK /\ PromiseOK

LEMMA InvInit == SetupInit => IInv
<1> SUFFICES ASSUME SetupInit PROVE IInv
  OBVIOUS
<1>1. ShapeOK
  BY SetupAssumption DEF SetupInit, ShapeOK, NoInstall, NoWorker, NoRun
<1>2. DiskOK
  <2>1. IsConfig(DefaultConfig)
    BY DEF IsConfig, DefaultConfig
  <2> QED
    BY <2>1 DEF SetupInit, DiskOK, Sound, DefaultConfig, NoPaths, Places
<1>3. WorkerOK /\ RunOK /\ InstallOK /\ PromiseOK
  BY DEF SetupInit, WorkerOK, RunOK, InstallOK, PromiseOK, NoWorker, NoRun, NoInstall, NoPromise
<1> QED
  BY <1>1, <1>2, <1>3 DEF IInv

-----------------------------------------------------------------------------
(* The steps of an install.                                                *)

LEMMA BeginKeeps ==
  ASSUME IInv, NEW o, NEW path, InstallBegin(o, path)
  PROVE  IInv'
<1> DEFINE d == InstallConfig(where, disk, o, path)
<1>1. ShapeOK'
  BY DEF IInv, ShapeOK, InstallBegin
<1>2. DiskOK' /\ WorkerOK' /\ RunOK'
  BY DEF IInv, DiskOK, WorkerOK, RunOK, InstallBegin
<1>3. Sound(d)
  BY InstallSound DEF IInv, ShapeOK, InstallBegin, AcceptsInstall
<1>4. InstallPool(where, disk, o, path) = ServicePool(where, d, path)
  BY InstallPoolIsServicePool
<1>5. /\ cmd'.config = d /\ cmd'.pool = InstallPool(where, disk, o, path)
      /\ cmd'.path = path /\ cmd'.seen = where /\ cmd'.step = "checking"
  BY DEF InstallBegin
<1>6. InstallOK'
  BY <1>3, <1>4, <1>5 DEF InstallOK
<1>7. PromiseOK'
  BY <1>5 DEF IInv, PromiseOK, InstallBegin
<1> QED
  BY <1>1, <1>2, <1>6, <1>7 DEF IInv

\* After an install has written the file no process is fresh and nothing is promised.
LEMMA InstallWriteKeeps ==
  ASSUME IInv, SaveInstall(cmd.config), NEW step, cmd.step # "idle",
         cmd' = [cmd EXCEPT !.step = step], UNCHANGED <<where, unit, bounds>>
  PROVE  IInv'
<1>1. /\ cmd'.config = cmd.config /\ cmd'.pool = cmd.pool
      /\ cmd'.path = cmd.path /\ cmd'.seen = cmd.seen
      /\ cmd' = [step |-> step, config |-> cmd.config, asked |-> cmd.asked,
                 pool |-> cmd.pool, path |-> cmd.path, seen |-> cmd.seen]
  BY DEF IInv, ShapeOK
<1>2. worker' = [on |-> worker.on, config |-> worker.config, fresh |-> FALSE,
                 pool |-> worker.pool, seen |-> worker.seen]
  BY DEF IInv, ShapeOK, SaveInstall, Overtaken
<1>3. run' = [step |-> run.step, config |-> run.config, fresh |-> FALSE,
              flags |-> run.flags, path |-> run.path]
  BY DEF IInv, ShapeOK, SaveInstall, Overtaken
<1>4. ShapeOK'
  BY <1>1, <1>2, <1>3 DEF IInv, ShapeOK
<1>5. DiskOK' /\ InstallOK'
  BY <1>1 DEF IInv, DiskOK, InstallOK, SaveInstall
<1>6. WorkerOK' /\ RunOK'
  BY <1>2, <1>3 DEF IInv, WorkerOK, RunOK
<1>7. PromiseOK'
  BY DEF PromiseOK, SaveInstall, NoPromise
<1> QED
  BY <1>4, <1>5, <1>6, <1>7 DEF IInv

LEMMA ServiceKeeps ==
  ASSUME IInv, InstallService
  PROVE  IInv'
<1>1. ShapeOK'
  BY DEF IInv, ShapeOK, InstallService, NoInstall, NoWorker
<1>2. DiskOK' /\ WorkerOK' /\ RunOK' /\ InstallOK'
  BY DEF IInv, DiskOK, WorkerOK, RunOK, InstallOK, InstallService, NoInstall, NoWorker
<1>3. CASE Settled
  <2>1. ServicePool(cmd.seen, cmd.config, cmd.path) = ServicePool(cmd.seen, disk, cmd.path)
    BY <1>3, SettingsDecide DEF Settled
  <2>2. cmd.pool = ServicePool(cmd.seen, disk, cmd.path)
    BY <2>1 DEF IInv, InstallOK, InstallService
  <2> QED
    BY <1>1, <1>2, <2>2 DEF IInv, PromiseOK, InstallService, NoInstall, NoWorker
<1>4. CASE ~Settled
  BY <1>1, <1>2, <1>4 DEF IInv, PromiseOK, InstallService
<1> QED
  BY <1>3, <1>4

LEMMA FailureKeeps ==
  ASSUME IInv, InstallFails \/ InstallServiceFails
  PROVE  IInv'
<1>1. CASE InstallFails
  <2>1. ShapeOK'
    BY <1>1 DEF IInv, ShapeOK, InstallFails, NoInstall
  <2> QED
    BY <1>1, <2>1 DEF IInv, DiskOK, WorkerOK, RunOK, InstallOK, PromiseOK, InstallFails, NoInstall
<1>2. CASE InstallServiceFails
  <2>1. PICK replaced \in BOOLEAN : \E stopped \in {FALSE, replaced} :
          /\ unit' = [state |-> IF unit.state = "none" /\ ~replaced THEN "none"
                                ELSE IF stopped \/ unit.state = "none" THEN "stopped"
                                ELSE unit.state,
                      path |-> IF replaced THEN cmd.path ELSE unit.path]
          /\ worker' = IF stopped THEN NoWorker ELSE worker
    BY <1>2 DEF InstallServiceFails
  <2>2. worker' \in {NoWorker, worker} /\ unit' = [state |-> unit'.state, path |-> unit'.path]
    BY <2>1
  <2>3. ShapeOK'
    BY <1>2, <2>2 DEF IInv, ShapeOK, InstallServiceFails, NoInstall, NoWorker
  <2>4. DiskOK' /\ WorkerOK' /\ RunOK' /\ InstallOK'
    BY <1>2, <2>2
    DEF IInv, DiskOK, WorkerOK, RunOK, InstallOK, InstallServiceFails, NoInstall, NoWorker
  <2>5. PromiseOK'
    BY <1>2 DEF IInv, PromiseOK, InstallServiceFails
  <2> QED
    BY <2>3, <2>4, <2>5 DEF IInv
<1> QED
  BY <1>1, <1>2

-----------------------------------------------------------------------------
(* The worker and the run.                                                 *)

LEMMA StartKeeps ==
  ASSUME IInv, WorkerStart
  PROVE  IInv'
<1> DEFINE pool == ServicePool(where, disk, unit.path)
<1>1. /\ worker' = [on |-> TRUE, config |-> disk, fresh |-> TRUE, pool |-> pool, seen |-> where]
      /\ UNCHANGED <<disk, where, cmd, unit, run, promise>>
  BY DEF WorkerStart
<1>2. ShapeOK'
  BY <1>1 DEF IInv, ShapeOK
<1>3. DiskOK' /\ WorkerOK' /\ RunOK' /\ InstallOK'
  BY <1>1 DEF IInv, DiskOK, WorkerOK, RunOK, InstallOK
<1>4. PromiseOK'
  BY <1>1 DEF IInv, PromiseOK
<1> QED
  BY <1>2, <1>3, <1>4 DEF IInv

\* The save of a process that has just changed no setting of its own.
LEMMA SaveKeeps ==
  ASSUME IInv, NEW config, NEW fresh, SaveConfig(config, fresh), Sound(config),
         fresh => Settings(config) = Settings(disk), UNCHANGED <<where, cmd, unit>>,
         worker' \in {worker, Overtaken(worker)}
  PROVE  DiskOK' /\ InstallOK' /\ PromiseOK' /\ (fresh => Settings(disk') = Settings(disk))
<1>1. DiskOK' /\ InstallOK' /\ (fresh => Settings(disk') = Settings(disk))
  BY DEF IInv, SaveConfig, DiskOK, InstallOK
<1>2. worker'.on = worker.on /\ worker'.seen = worker.seen /\ worker'.pool = worker.pool
  BY DEF IInv, ShapeOK, Overtaken
<1>3. CASE fresh
  <2>1. Settings(disk') = Settings(disk) /\ promise' = promise
    BY <1>3, <1>1 DEF SaveConfig
  <2>2. ServicePool(promise.seen, disk', promise.path) = ServicePool(promise.seen, disk, promise.path)
    BY <2>1, SettingsDecide
  <2>3. PromiseOK'
    BY <1>2, <2>1, <2>2 DEF IInv, PromiseOK
  <2> QED
    BY <1>1, <2>3
<1>4. CASE ~fresh
  BY <1>1, <1>4 DEF SaveConfig, PromiseOK, NoPromise
<1> QED
  BY <1>3, <1>4

LEMMA WorkerSaveKeeps ==
  ASSUME IInv, WorkerSave
  PROVE  IInv'
<1>1. /\ SaveConfig(worker.config, worker.fresh) /\ worker' = worker
      /\ run' = IF worker.fresh THEN run ELSE Overtaken(run)
      /\ UNCHANGED <<where, cmd, unit>>
  BY DEF WorkerSave
<1>2. Sound(worker.config) /\ (worker.fresh => Settings(worker.config) = Settings(disk))
  BY DEF IInv, WorkerOK, WorkerSave
<1>3. /\ DiskOK' /\ InstallOK' /\ PromiseOK'
      /\ worker.fresh => Settings(disk') = Settings(disk)
  BY <1>1, <1>2, SaveKeeps
<1>4. /\ run' = [step |-> run'.step, config |-> run'.config, fresh |-> run'.fresh,
                  flags |-> run'.flags, path |-> run'.path]
      /\ run'.step = run.step /\ run'.config = run.config
      /\ run'.fresh => worker.fresh /\ run.fresh
  <2>1. CASE worker.fresh
    BY <1>1, <2>1 DEF IInv, ShapeOK
  <2>2. CASE ~worker.fresh
    BY <1>1, <2>2 DEF IInv, ShapeOK, Overtaken
  <2> QED
    BY <2>1, <2>2
<1>5. ShapeOK'
  BY <1>1, <1>4 DEF IInv, ShapeOK
<1>6. WorkerOK'
  BY <1>1, <1>2, <1>3 DEF IInv, WorkerOK
<1>7. RunOK'
  BY <1>1, <1>3, <1>4 DEF IInv, RunOK
<1> QED
  BY <1>3, <1>5, <1>6, <1>7 DEF IInv

LEMMA RunBeginKeeps ==
  ASSUME IInv, NEW o, NEW path, RunBegin(o, path)
  PROVE  IInv'
<1> DEFINE config == IF o = None THEN disk ELSE [disk EXCEPT !.url = PickURL(o.url, @)]
<1>1. Sound(config) /\ Settings(config) = Settings(disk)
  BY DEF IInv, DiskOK, Sound, IsConfig, Settings
<1>2. run' = [step |-> run'.step, config |-> config, fresh |-> TRUE,
              flags |-> run'.flags, path |-> run'.path]
  <2>1. \/ run' = [step |-> "login", config |-> config, fresh |-> TRUE, flags |-> o, path |-> path]
        \/ run' = RunningWith(config, TRUE)
    BY DEF RunBegin
  <2> QED
    BY <2>1 DEF RunningWith
<1>3. UNCHANGED <<disk, where, cmd, unit, worker, promise>>
  BY DEF RunBegin
<1> HIDE DEF config
<1>4. ShapeOK'
  BY <1>2, <1>3 DEF IInv, ShapeOK
<1>5. RunOK'
  BY <1>1, <1>2, <1>3 DEF RunOK
<1> QED
  BY <1>3, <1>4, <1>5 DEF IInv, DiskOK, WorkerOK, InstallOK, PromiseOK

\* The login and the saves of a run.
LEMMA RunWriteKeeps ==
  ASSUME IInv, NEW config, SaveConfig(config, run.fresh), Sound(config),
         run.fresh => Settings(config) = Settings(disk),
         worker' = IF run.fresh THEN worker ELSE Overtaken(worker),
         UNCHANGED <<where, cmd, unit>>,
         run' = NoRun \/ run' = [step |-> run'.step, config |-> config, fresh |-> run.fresh,
                                 flags |-> run'.flags, path |-> run'.path]
  PROVE  IInv'
<1>1. /\ worker' = [on |-> worker'.on, config |-> worker'.config, fresh |-> worker'.fresh,
                     pool |-> worker'.pool, seen |-> worker'.seen]
      /\ worker'.on = worker.on /\ worker'.config = worker.config
      /\ worker'.fresh => run.fresh /\ worker.fresh
      /\ worker' \in {worker, Overtaken(worker)}
  <2>1. CASE run.fresh
    BY <2>1 DEF IInv, ShapeOK
  <2>2. CASE ~run.fresh
    BY <2>2 DEF IInv, ShapeOK, Overtaken
  <2> QED
    BY <2>1, <2>2
<1>2. /\ DiskOK' /\ InstallOK' /\ PromiseOK'
      /\ run.fresh => Settings(disk') = Settings(disk)
  BY <1>1, SaveKeeps
<1>3. disk' = config
  BY DEF SaveConfig
<1>4. ShapeOK'
  BY <1>1 DEF IInv, ShapeOK, NoRun
<1>5. WorkerOK'
  BY <1>1, <1>2 DEF IInv, WorkerOK
<1>6. RunOK'
  BY <1>3 DEF RunOK, NoRun
<1> QED
  BY <1>2, <1>4, <1>5, <1>6 DEF IInv

LEMMA RunKeeps ==
  ASSUME IInv, RunLogsIn \/ RunSave \/ RunEnds
  PROVE  IInv'
<1>1. CASE RunLogsIn
  <2>0. PICK config : config = [run.config EXCEPT !.auth = TRUE]
    OBVIOUS
  <2>1. Sound(config) /\ Settings(config) = Settings(run.config)
    <3>1. Sound(run.config)
      BY <1>1 DEF IInv, RunOK, RunLogsIn
    <3>2. /\ config = [auth |-> config.auth, url |-> config.url, backend |-> config.backend,
                       llm |-> config.llm, agent |-> config.agent, pool |-> config.pool,
                       rotate |-> config.rotate, model |-> config.model, paths |-> config.paths]
          /\ config.backend = run.config.backend /\ config.llm = run.config.llm
          /\ config.agent = run.config.agent /\ config.pool = run.config.pool
          /\ config.rotate = run.config.rotate /\ config.model = run.config.model
          /\ config.paths = run.config.paths
      BY <2>0, <3>1 DEF Sound, IsConfig
    <3> QED
      BY <3>1, <3>2 DEF Sound, IsConfig, Settings
  <2>2. run.fresh => Settings(config) = Settings(disk)
    BY <1>1, <2>1 DEF IInv, RunOK, RunLogsIn
  <2>3. run' = NoRun \/ run' = [step |-> run'.step, config |-> config, fresh |-> run.fresh,
                                flags |-> run'.flags, path |-> run'.path]
    BY <1>1, <2>0 DEF RunLogsIn, RunningWith
  <2>4. /\ SaveConfig(config, run.fresh) /\ UNCHANGED <<where, cmd, unit>>
        /\ worker' = IF run.fresh THEN worker ELSE Overtaken(worker)
    BY <1>1, <2>0 DEF RunLogsIn
  <2> QED
    BY <2>1, <2>2, <2>3, <2>4, RunWriteKeeps
<1>2. CASE RunSave
  <2>1. Sound(run.config) /\ (run.fresh => Settings(run.config) = Settings(disk))
    BY <1>2 DEF IInv, RunOK, RunSave
  <2>2. run' = [step |-> run'.step, config |-> run.config, fresh |-> run.fresh,
                flags |-> run'.flags, path |-> run'.path]
    BY <1>2 DEF IInv, ShapeOK, RunSave
  <2>3. /\ SaveConfig(run.config, run.fresh) /\ UNCHANGED <<where, cmd, unit>>
        /\ worker' = IF run.fresh THEN worker ELSE Overtaken(worker)
    BY <1>2 DEF RunSave
  <2> QED
    BY <2>1, <2>2, <2>3, RunWriteKeeps
<1>3. CASE RunEnds
  <2>1. ShapeOK'
    BY <1>3 DEF IInv, ShapeOK, RunEnds, NoRun
  <2> QED
    BY <1>3, <2>1 DEF IInv, DiskOK, WorkerOK, RunOK, InstallOK, PromiseOK, RunEnds, NoRun
<1> QED
  BY <1>1, <1>2, <1>3

\* The end of a worker, the other commands of the service, and the machine.
LEMMA RestKeeps ==
  ASSUME IInv,
         \/ WorkerEnds
         \/ \E state \in {"none", "stopped", "started"} : Manage(state)
         \/ \E a \in Agents, place \in Places : Move(a, place)
  PROVE  IInv'
<1>1. CASE WorkerEnds
  <2>1. ShapeOK'
    BY <1>1 DEF IInv, ShapeOK, WorkerEnds, NoWorker
  <2> QED
    BY <1>1, <2>1 DEF IInv, DiskOK, WorkerOK, RunOK, InstallOK, PromiseOK, WorkerEnds, NoWorker
<1>2. CASE \E state \in {"none", "stopped", "started"} : Manage(state)
  <2>1. PICK state : Manage(state)
    BY <1>2
  <2>2. unit' = [state |-> state, path |-> unit.path] /\ worker' = NoWorker
    BY <2>1 DEF IInv, ShapeOK, Manage
  <2>3. ShapeOK'
    BY <2>1, <2>2 DEF IInv, ShapeOK, Manage, NoWorker
  <2>4. PromiseOK'
    BY <2>1, <2>2 DEF IInv, PromiseOK, Manage, NoWorker, NoPromise
  <2> QED
    BY <2>1, <2>2, <2>3, <2>4
    DEF IInv, DiskOK, WorkerOK, RunOK, InstallOK, Manage, NoWorker
<1>3. CASE \E a \in Agents, place \in Places : Move(a, place)
  <2>1. PICK a \in Agents, place \in Places : Move(a, place)
    BY <1>3
  <2>2. ShapeOK'
    BY <2>1 DEF IInv, ShapeOK, Move
  <2> QED
    BY <2>1, <2>2 DEF IInv, DiskOK, WorkerOK, RunOK, InstallOK, PromiseOK, Move
<1> QED
  BY <1>1, <1>2, <1>3

-----------------------------------------------------------------------------
(* The theorem.                                                            *)

LEMMA StutterKeeps ==
  ASSUME IInv, UNCHANGED setupVars
  PROVE  IInv'
  BY DEF IInv, ShapeOK, DiskOK, WorkerOK, RunOK, InstallOK, PromiseOK, setupVars

LEMMA InvStep == IInv /\ [SetupNext]_setupVars => IInv'
<1> SUFFICES ASSUME IInv, [SetupNext]_setupVars PROVE IInv'
  OBVIOUS
<1>1. ASSUME NEW o, NEW path, InstallBegin(o, path) PROVE IInv'
  BY <1>1, BeginKeeps
<1>2. CASE InstallRefresh
  BY <1>2, InstallWriteKeeps DEF InstallRefresh
<1>3. CASE InstallSave
  <2>1. cmd.step # "idle"
    BY <1>3 DEF InstallSave
  <2> QED
    BY <1>3, <2>1, InstallWriteKeeps DEF InstallSave
<1>4. CASE InstallService
  BY <1>4, ServiceKeeps
<1>5. CASE InstallFails \/ InstallServiceFails
  BY <1>5, FailureKeeps
<1>6. CASE WorkerStart
  BY <1>6, StartKeeps
<1>7. CASE WorkerSave
  BY <1>7, WorkerSaveKeeps
<1>8. ASSUME NEW o, NEW path, RunBegin(o, path) PROVE IInv'
  BY <1>8, RunBeginKeeps
<1>9. CASE RunLogsIn \/ RunSave \/ RunEnds
  BY <1>9, RunKeeps
<1>10. CASE \/ WorkerEnds
            \/ \E state \in {"none", "stopped", "started"} : Manage(state)
            \/ \E a \in Agents, place \in Places : Move(a, place)
  BY <1>10, RestKeeps
<1>11. CASE UNCHANGED setupVars
  BY <1>11, StutterKeeps
<1> QED
  BY <1>1, <1>2, <1>3, <1>4, <1>5, <1>6, <1>7, <1>8, <1>9, <1>10, <1>11 DEF SetupNext

LEMMA InvImpliesReport == IInv => ReportHolds
<1> SUFFICES ASSUME IInv, promise.on PROVE ReportHolds
  BY DEF ReportHolds
<1>1. ASSUME where = promise.seen
      PROVE  RunPool(where, disk, NoFlags, promise.path) = promise.pool
  <2>1. RunPool(where, disk, NoFlags, promise.path) = ServicePool(where, disk, promise.path)
    BY RunPoolIsServicePool DEF IInv, DiskOK
  <2> QED
    BY <1>1, <2>1 DEF IInv, PromiseOK
<1> QED
  BY <1>1 DEF IInv, PromiseOK, ReportHolds

\* As long as no process has put older settings back and the agents are where they
\* were, the service's worker has the pool that the install has reported, and so
\* has a run in the shell of the install, whatever happens in between.
THEOREM ReportIsTrue == SetupSpec => []ReportHolds
<1>1. SetupSpec => []IInv
  BY InvInit, InvStep, PTL DEF SetupSpec
<1> QED
  BY <1>1, InvImpliesReport, PTL
-----------------------------------------------------------------------------
(* The choice and the status: the second invariant.                        *)

Normal(c) ==
  /\ c.backend \in Backends
  /\ c.agent \in Agents
  /\ c.pool \in Seq(Agents) /\ NoRepeats(c.pool)

\* Every configuration in memory names agents, each once.
NormalOK ==
  Normal(disk) /\ Normal(cmd.config) /\ Normal(worker.config) /\ Normal(run.config)

\* A configuration says what was chosen; the default agent needs a model
\* beside it, or the next install would take it for no choice.
Says(c, choice) == Selection(c) = choice /\ (choice.agent = DefaultAgent => c.model)

\* The file says what was chosen, and so does an install that asks for nothing;
\* one that asks says what it asks for.
ChoiceOK ==
  /\ chosen # NoChoice => Says(disk, chosen)
  /\ cmd.step # "idle" =>
       IF cmd.asked = NoChoice THEN chosen # NoChoice => Says(cmd.config, chosen)
       ELSE Selection(cmd.config) = cmd.asked

\* While a promise holds the worker has the pool of the settings in the file.
StatusOK ==
  promise.on /\ worker.on =>
    worker.pool # <<>> /\ worker.pool = ServicePool(worker.seen, disk, unit.path)

ChoiceInv == NormalOK /\ ChoiceOK /\ StatusOK
LEMMA ChoiceInit == SetupInit => ChoiceInv
<1> SUFFICES ASSUME SetupInit PROVE ChoiceInv
  OBVIOUS
<1>1. Normal(DefaultConfig)
  BY SetupAssumption DEF Normal, DefaultConfig, Backends, NoRepeats
<1>2. NormalOK
  BY <1>1 DEF SetupInit, NormalOK, NoInstall, NoWorker, NoRun
<1>3. ChoiceOK /\ StatusOK
  BY DEF SetupInit, ChoiceOK, StatusOK, NoInstall, NoPromise
<1> QED
  BY <1>2, <1>3 DEF ChoiceInv

LEMMA SettingsNormal ==
  ASSUME NEW c, NEW d, Settings(c) = Settings(d)
  PROVE  /\ Normal(c) => Normal(d)
         /\ \A choice : Says(c, choice) => Says(d, choice)
<1>1. /\ c.backend = d.backend /\ c.agent = d.agent /\ c.pool = d.pool
      /\ c.rotate = d.rotate /\ c.model = d.model
  BY DEF Settings
<1>2. Selection(c) = Selection(d)
  BY <1>1 DEF Selection
<1> QED
  BY <1>1, <1>2 DEF Normal, Says

-----------------------------------------------------------------------------
(* What an install makes of a choice.                                      *)

LEMMA NothingNormalized == Normalized(<<>>) = <<>>
<1>1. NoRepeats(<<>>) /\ <<>> \in Seq(Agents)
  BY DEF NoRepeats
<1> QED
  BY <1>1, NormalizedIs DEF IsNormalized

LEMMA OneNormalized == \A a \in Agents : Normalized(<<a>>) = <<a>>
<1> SUFFICES ASSUME NEW a \in Agents PROVE Normalized(<<a>>) = <<a>>
  OBVIOUS
<1>1. NoRepeats(<<a>>) /\ <<a>> \in Seq(Agents)
  BY DEF NoRepeats
<1> QED
  BY <1>1, NormalizedIs DEF IsNormalized

OptionOK(o) ==
  /\ o.agent \in Agents \union {None} /\ o.agents \in Seq(Agents)
  /\ o.rotate \in BOOLEAN /\ o.model \in BOOLEAN /\ o.backend \in Backends \union {None}

LEMMA OptionsOK == \A o \in Options : OptionOK(o)
<1> SUFFICES ASSUME NEW o \in Options PROVE OptionOK(o)
  OBVIOUS
<1>1. o \in [agent : Agents \union {None}, agents : Seq(Agents), rotate : BOOLEAN,
             model : BOOLEAN, backend : Backends \union {None},
             llm : SUBSET LLMSettings, url : Urls \union {None}]
  BY SetupAssumption
<1> QED
  BY <1>1 DEF OptionOK

LEMMA InstallNormal ==
  ASSUME NEW machine, NEW path, NEW c, Normal(c), NEW o, OptionOK(o)
  PROVE  Normal(InstallConfig(machine, c, o, path))
<1> DEFINE d == InstallConfig(machine, c, o, path)
           s == Selected(c, o)
<1>1. d.backend \in Backends
  BY DEF InstallConfig, BackendOf, Normal, OptionOK, Backends
<1>2. Normalized(o.agents) \in Seq(Agents) /\ NoRepeats(Normalized(o.agents))
  BY NormalizedIs DEF OptionOK, IsNormalized
<1>3. <<>> \in Seq(Agents) /\ NoRepeats(<<>>)
  BY DEF NoRepeats
<1>4. s.agent \in Agents /\ s.pool \in {<<>>, Normalized(o.agents), c.pool}
  BY DEF Selected, PinnedAgent, AgentPool, RotateInstalled, Normal, OptionOK
<1>5. d.agent = s.agent /\ d.pool = s.pool
  BY DEF InstallConfig
<1> QED
  BY <1>1, <1>2, <1>3, <1>4, <1>5 DEF Normal

\* An install that asks for nothing leaves the selection as it is: the choice
\* of all agents for a configuration without one does not touch it.
LEMMA UnaskedSays ==
  ASSUME NEW machine, NEW path, NEW c, NEW choice, Says(c, choice),
         NEW o, OptionOK(o), Asked(o) = NoChoice
  PROVE  Says(InstallConfig(machine, c, o, path), choice)
<1> DEFINE d == InstallConfig(machine, c, o, path)
<1>1. o.agent = None /\ Normalized(o.agents) = <<>> /\ ~o.rotate
  BY DEF Asked, NoChoice, OptionOK
<1>2. o.agents = <<>>
  BY <1>1, NormalizedIs DEF IsNormalized, OptionOK
<1>3. ~AutoRotates(c)
  <2> SUFFICES ASSUME AutoRotates(c) PROVE FALSE
    OBVIOUS
  <2>1. c.pool = <<>> /\ ~c.rotate /\ ~c.model /\ c.agent = DefaultAgent
    BY DEF AutoRotates
  <2>2. choice.agent = DefaultAgent
    BY <2>1 DEF Says, Selection, NoChoice
  <2> QED
    BY <2>1, <2>2 DEF Says
<1>4. Selected(c, o) = [agent |-> c.agent, pool |-> c.pool, rotate |-> c.rotate]
  BY <1>1, <1>2, <1>3 DEF Selected
<1>5. d.agent = c.agent /\ d.pool = c.pool /\ d.rotate = c.rotate /\ d.model = (c.model \/ o.model)
  BY <1>4 DEF InstallConfig
<1>6. Selection(d) = Selection(c)
  BY <1>5 DEF Selection
<1>7. c.model => d.model
  BY <1>5
<1> QED
  BY <1>6, <1>7 DEF Says

LEMMA SelectionIs ==
  ASSUME NEW c
  PROVE  Selection(c) =
           IF c.rotate THEN [agent |-> None, pool |-> <<>>, rotate |-> TRUE]
           ELSE IF c.pool # <<>> THEN [agent |-> None, pool |-> c.pool, rotate |-> FALSE]
           ELSE [agent |-> c.agent, pool |-> <<>>, rotate |-> FALSE]
<1>1. PICK none : none = NoChoice
  OBVIOUS
<1>2. none = [agent |-> None, pool |-> <<>>, rotate |-> FALSE]
  BY <1>1 DEF NoChoice
<1>3. PICK all : all = [none EXCEPT !.rotate = TRUE]
  OBVIOUS
<1>4. PICK some : some = [none EXCEPT !.pool = c.pool]
  OBVIOUS
<1>5. PICK one : one = [none EXCEPT !.agent = c.agent]
  OBVIOUS
<1>6. /\ all = [agent |-> None, pool |-> <<>>, rotate |-> TRUE]
      /\ some = [agent |-> None, pool |-> c.pool, rotate |-> FALSE]
      /\ one = [agent |-> c.agent, pool |-> <<>>, rotate |-> FALSE]
  BY <1>2, <1>3, <1>4, <1>5
<1> QED
  BY <1>1, <1>3, <1>4, <1>5, <1>6, Zenon DEF Selection

\* An install that asks for agents selects what it asks for.
LEMMA AskedSays ==
  ASSUME NEW machine, NEW path, NEW c, Normal(c), NEW o, OptionOK(o),
         ValidFlags(o), BackendOf(c, o) = "llm" => ~AgentFlags(o), Asked(o) # NoChoice
  PROVE  Selection(InstallConfig(machine, c, o, path)) = Asked(o)
<1> DEFINE d == InstallConfig(machine, c, o, path)
<1>1. o.agent # None \/ o.agents # <<>> \/ o.rotate
  BY NothingNormalized DEF Asked, NoChoice, OptionOK
<1>2. BackendOf(c, o) = "agent"
  <2>1. AgentFlags(o)
    BY <1>1 DEF AgentFlags
  <2>2. BackendOf(c, o) \in Backends
    BY DEF BackendOf, Normal, OptionOK, Backends
  <2> QED
    BY <2>1, <2>2 DEF Backends
<1>3. d.agent = Selected(c, o).agent /\ d.pool = Selected(c, o).pool
      /\ d.rotate = Selected(c, o).rotate
  BY DEF InstallConfig
<1>4. CASE o.agent # None
  <2>1. o.agents = <<>> /\ o.rotate = FALSE
    BY <1>4 DEF ValidFlags, OptionOK
  <2>2. Asked(o) = [agent |-> o.agent, pool |-> <<>>, rotate |-> FALSE]
    BY <2>1, NothingNormalized DEF Asked
  <2>3. d.agent = o.agent /\ d.pool = <<>> /\ d.rotate = FALSE
    BY <1>2, <1>3, <1>4 DEF Selected, PinnedAgent
  <2> QED
    BY <2>2, <2>3, SelectionIs
<1>5. CASE o.agent = None /\ o.agents # <<>>
  <2>1. o.rotate = FALSE /\ Normalized(o.agents) # <<>>
    BY <1>5, NormalizedIs DEF ValidFlags, OptionOK, IsNormalized
  <2>2. Asked(o) = [agent |-> None, pool |-> Normalized(o.agents), rotate |-> FALSE]
    BY <1>5, <2>1 DEF Asked
  <2>3. d.pool = Normalized(o.agents) /\ d.rotate = FALSE
    BY <1>2, <1>3, <1>5 DEF Selected, AgentPool
  <2> QED
    BY <2>1, <2>2, <2>3, SelectionIs
<1>6. CASE o.agent = None /\ o.agents = <<>> /\ o.rotate
  <2>1. Asked(o) = [agent |-> None, pool |-> <<>>, rotate |-> TRUE]
    BY <1>6, NothingNormalized DEF Asked, OptionOK
  <2>2. d.rotate
    BY <1>2, <1>3, <1>6 DEF Selected, RotateInstalled
  <2> QED
    BY <2>1, <2>2, SelectionIs
<1> QED
  BY <1>1, <1>4, <1>5, <1>6

-----------------------------------------------------------------------------
(* The steps of the second invariant.                                      *)

\* A process that saves what it has loaded changes no setting, or takes back
\* what was promised and chosen.
KeepsOrUndoes ==
  /\ \/ Settings(disk') = Settings(disk) /\ promise' = promise /\ chosen' = chosen
     \/ promise' = NoPromise /\ chosen' = NoChoice
  /\ Normal(disk')
  /\ UNCHANGED <<where, cmd, unit>>
  /\ worker'.on = worker.on /\ worker'.config = worker.config
  /\ worker'.pool = worker.pool /\ worker'.seen = worker.seen
  /\ run'.config = run.config \/ run'.config = DefaultConfig \/ run'.config = disk'

LEMMA ProcessSaves ==
  ASSUME IInv, NormalOK, WorkerSave \/ RunLogsIn \/ RunSave
  PROVE  KeepsOrUndoes
<1>1. worker'.on = worker.on /\ worker'.config = worker.config
      /\ worker'.pool = worker.pool /\ worker'.seen = worker.seen
  <2>1. worker' \in {worker, Overtaken(worker)}
    BY DEF WorkerSave, RunLogsIn, RunSave
  <2> QED
    BY <2>1 DEF IInv, ShapeOK, Overtaken
<1>2. UNCHANGED <<where, cmd, unit>>
  BY DEF WorkerSave, RunLogsIn, RunSave
<1>3. CASE WorkerSave
  <2>1. SaveConfig(worker.config, worker.fresh)
    BY <1>3 DEF WorkerSave
  <2>2. worker.fresh => Settings(worker.config) = Settings(disk)
    BY <1>3 DEF IInv, WorkerOK, WorkerSave
  <2>3. run'.config = run.config
    BY <1>3 DEF WorkerSave, IInv, ShapeOK, Overtaken
  <2> QED
    BY <1>1, <1>2, <2>1, <2>2, <2>3 DEF KeepsOrUndoes, SaveConfig, NormalOK
<1>4. CASE RunSave
  <2>1. SaveConfig(run.config, run.fresh) /\ run' = run
    BY <1>4 DEF RunSave
  <2>2. run.fresh => Settings(run.config) = Settings(disk)
    BY <1>4 DEF IInv, RunOK, RunSave
  <2> QED
    BY <1>1, <1>2, <2>1, <2>2 DEF KeepsOrUndoes, SaveConfig, NormalOK
<1>5. CASE RunLogsIn
  <2>1. PICK config : config = [run.config EXCEPT !.auth = TRUE]
    OBVIOUS
  <2>2. Sound(run.config) /\ (run.fresh => Settings(run.config) = Settings(disk))
    BY <1>5 DEF IInv, RunOK, RunLogsIn
  <2>3. Settings(config) = Settings(run.config)
    <3>1. /\ config.backend = run.config.backend /\ config.llm = run.config.llm
          /\ config.agent = run.config.agent /\ config.pool = run.config.pool
          /\ config.rotate = run.config.rotate /\ config.model = run.config.model
          /\ config.paths = run.config.paths
      BY <2>1, <2>2 DEF Sound, IsConfig
    <3> QED
      BY <3>1 DEF Settings
  <2>4. Normal(config)
    BY <2>3, SettingsNormal DEF NormalOK
  <2>5. SaveConfig(config, run.fresh)
    BY <1>5, <2>1 DEF RunLogsIn
  <2>6. run'.config \in {config, DefaultConfig}
    BY <1>5, <2>1 DEF RunLogsIn, RunningWith, NoRun
  <2>7. \/ Settings(disk') = Settings(disk) /\ promise' = promise /\ chosen' = chosen
        \/ promise' = NoPromise /\ chosen' = NoChoice
    BY <2>2, <2>3, <2>5 DEF SaveConfig
  <2>8. disk' = config
    BY <2>5 DEF SaveConfig
  <2> QED
    BY <1>1, <1>2, <2>4, <2>6, <2>7, <2>8 DEF KeepsOrUndoes
<1> QED
  BY <1>3, <1>4, <1>5
LEMMA NormalStep ==
  ASSUME IInv, NormalOK, [SetupNext]_setupVars
  PROVE  NormalOK'
<1>1. Normal(DefaultConfig)
  BY SetupAssumption DEF Normal, DefaultConfig, Backends, NoRepeats
<1>2. ASSUME NEW o \in Options, NEW path, InstallBegin(o, path) PROVE NormalOK'
  <2>1. Normal(InstallConfig(where, disk, o, path))
    BY OptionsOK, InstallNormal DEF NormalOK
  <2>2. cmd'.config = InstallConfig(where, disk, o, path) /\ UNCHANGED <<disk, worker, run>>
    BY <1>2 DEF InstallBegin
  <2> QED
    BY <2>1, <2>2 DEF NormalOK
<1>3. CASE InstallRefresh \/ InstallSave
  <2>1. /\ disk' = cmd.config /\ worker' = Overtaken(worker) /\ run' = Overtaken(run)
        /\ \E step : cmd' = [cmd EXCEPT !.step = step]
    BY <1>3 DEF InstallRefresh, InstallSave, SaveInstall
  <2>2. /\ worker'.config = worker.config /\ run'.config = run.config
        /\ cmd'.config = cmd.config
    BY <2>1 DEF IInv, ShapeOK, Overtaken
  <2> QED
    BY <2>1, <2>2 DEF NormalOK
<1>4. CASE InstallService \/ InstallFails \/ InstallServiceFails
  <2>1. /\ cmd' = NoInstall /\ worker' \in {worker, NoWorker} /\ UNCHANGED <<disk, run>>
    BY <1>4 DEF InstallService, InstallFails, InstallServiceFails
  <2> QED
    BY <1>1, <2>1 DEF NormalOK, NoInstall, NoWorker
<1>5. CASE WorkerStart
  BY <1>5 DEF NormalOK, WorkerStart
<1>6. CASE WorkerSave \/ RunLogsIn \/ RunSave
  BY <1>1, <1>6, ProcessSaves DEF KeepsOrUndoes, NormalOK
<1>7. ASSUME NEW o, NEW path, RunBegin(o, path) PROVE NormalOK'
  <2>1. UNCHANGED <<disk, cmd, worker>>
    BY <1>7 DEF RunBegin
  <2>2. PICK config : /\ config = IF o = None THEN disk ELSE [disk EXCEPT !.url = PickURL(o.url, @)]
                      /\ run'.config = config
    BY <1>7 DEF RunBegin, RunningWith
  <2>3. Settings(config) = Settings(disk)
    BY <2>2 DEF IInv, DiskOK, Sound, IsConfig, Settings
  <2>4. Normal(config)
    BY <2>3, SettingsNormal DEF NormalOK
  <2> QED
    BY <2>1, <2>2, <2>4 DEF NormalOK
<1>8. CASE RunEnds \/ WorkerEnds \/ \E state \in {"none", "stopped", "started"} : Manage(state)
  <2>1. /\ worker' \in {worker, NoWorker} /\ run' \in {run, NoRun} /\ UNCHANGED <<disk, cmd>>
    BY <1>8 DEF RunEnds, WorkerEnds, Manage
  <2> QED
    BY <1>1, <2>1 DEF NormalOK, NoRun, NoWorker
<1>9. ASSUME NEW a, NEW place, Move(a, place) PROVE NormalOK'
  BY <1>9 DEF NormalOK, Move
<1>10. CASE UNCHANGED setupVars
  BY <1>10 DEF NormalOK, setupVars
<1> QED
  BY <1>2, <1>3, <1>4, <1>5, <1>6, <1>7, <1>8, <1>9, <1>10 DEF SetupNext

\* An install that begins says what it is to say.
LEMMA BeginSays ==
  ASSUME NormalOK, ChoiceOK, NEW o \in Options, NEW path, InstallBegin(o, path)
  PROVE  ChoiceOK'
<1> DEFINE d == InstallConfig(where, disk, o, path)
<1>1. /\ cmd'.config = d /\ cmd'.asked = Asked(o) /\ cmd'.step = "checking"
      /\ disk' = disk /\ chosen' = chosen
  BY DEF InstallBegin
<1>2. OptionOK(o) /\ Normal(disk)
  BY OptionsOK DEF NormalOK
<1>3. ASSUME Asked(o) = NoChoice, chosen # NoChoice PROVE Says(d, chosen)
  BY <1>2, <1>3, UnaskedSays DEF ChoiceOK
<1>4. ASSUME Asked(o) # NoChoice PROVE Selection(d) = Asked(o)
  <2>1. ValidFlags(o) /\ (BackendOf(disk, o) = "llm" => ~AgentFlags(o))
    BY DEF InstallBegin, AcceptsInstall
  <2> QED
    BY <1>2, <1>4, <2>1, AskedSays
<1> HIDE DEF d
<1> QED
  BY <1>1, <1>3, <1>4 DEF ChoiceOK

\* An install's save puts what it says into the file.
LEMMA SaveSays ==
  ASSUME IInv, ChoiceOK, SaveInstall(cmd.config), NEW step, cmd.step # "idle",
         cmd' = [cmd EXCEPT !.step = step]
  PROVE  ChoiceOK'
<1>1. cmd'.config = cmd.config /\ cmd'.asked = cmd.asked /\ disk' = cmd.config
  BY DEF IInv, ShapeOK, SaveInstall
<1>2. CASE cmd.asked = NoChoice
  <2>1. chosen' = chosen
    BY <1>2 DEF SaveInstall
  <2>2. chosen # NoChoice => Says(cmd.config, chosen)
    BY <1>2 DEF ChoiceOK
  <2> QED
    BY <1>1, <1>2, <2>1, <2>2 DEF ChoiceOK
<1>3. CASE cmd.asked # NoChoice
  <2>1. Selection(cmd.config) = cmd.asked
    BY <1>3 DEF ChoiceOK
  <2>2. \/ chosen' = NoChoice
        \/ chosen' = cmd.asked /\ (cmd.asked.agent = DefaultAgent => cmd.config.model)
    BY <1>3 DEF SaveInstall
  <2>3. chosen' # NoChoice => Says(cmd.config, chosen')
    BY <2>1, <2>2 DEF Says
  <2> QED
    BY <1>1, <1>3, <2>1, <2>3 DEF ChoiceOK
<1> QED
  BY <1>2, <1>3

LEMMA ChoiceStep ==
  ASSUME IInv, NormalOK, ChoiceOK, [SetupNext]_setupVars
  PROVE  ChoiceOK'
<1>1. ASSUME NEW o \in Options, NEW path, InstallBegin(o, path) PROVE ChoiceOK'
  BY <1>1, BeginSays
<1>2. CASE InstallRefresh \/ InstallSave
  BY <1>2, SaveSays DEF InstallRefresh, InstallSave
<1>3. CASE InstallService \/ InstallFails \/ InstallServiceFails
  BY <1>3 DEF ChoiceOK, InstallService, InstallFails, InstallServiceFails, NoInstall
<1>4. CASE WorkerSave \/ RunLogsIn \/ RunSave
  <2>1. KeepsOrUndoes
    BY <1>4, ProcessSaves
  <2>2. CASE chosen' = NoChoice
    BY <2>1, <2>2 DEF KeepsOrUndoes, ChoiceOK
  <2>3. CASE Settings(disk') = Settings(disk) /\ chosen' = chosen
    <3>1. Says(disk, chosen) => Says(disk', chosen)
      BY <2>3, SettingsNormal
    <3> QED
      BY <2>1, <2>3, <3>1 DEF KeepsOrUndoes, ChoiceOK
  <2> QED
    BY <2>1, <2>2, <2>3 DEF KeepsOrUndoes
<1>5. ASSUME NEW o, NEW path, RunBegin(o, path) PROVE ChoiceOK'
  BY <1>5 DEF ChoiceOK, RunBegin
<1>6. CASE \/ WorkerStart \/ RunEnds \/ WorkerEnds
           \/ \E state \in {"none", "stopped", "started"} : Manage(state)
  BY <1>6 DEF ChoiceOK, WorkerStart, RunEnds, WorkerEnds, Manage
<1>7. ASSUME NEW a, NEW place, Move(a, place) PROVE ChoiceOK'
  BY <1>7 DEF ChoiceOK, Move
<1>8. CASE UNCHANGED setupVars
  BY <1>8 DEF ChoiceOK, setupVars
<1> QED
  BY <1>1, <1>2, <1>3, <1>4, <1>5, <1>6, <1>7, <1>8 DEF SetupNext

LEMMA StatusStep ==
  ASSUME IInv, NormalOK, StatusOK, [SetupNext]_setupVars
  PROVE  StatusOK'
<1>1. ASSUME NEW o, NEW path, InstallBegin(o, path) PROVE StatusOK'
  BY <1>1 DEF StatusOK, InstallBegin
<1>2. CASE InstallRefresh \/ InstallSave
  BY <1>2 DEF StatusOK, InstallRefresh, InstallSave, SaveInstall, NoPromise
<1>3. CASE InstallService
  BY <1>3 DEF StatusOK, InstallService, NoWorker
<1>4. CASE InstallFails
  BY <1>4 DEF StatusOK, InstallFails
<1>5. CASE InstallServiceFails
  BY <1>5 DEF IInv, PromiseOK, StatusOK, InstallServiceFails
<1>6. CASE WorkerStart
  BY <1>6 DEF StatusOK, WorkerStart
<1>7. CASE WorkerSave \/ RunLogsIn \/ RunSave
  <2>1. KeepsOrUndoes
    BY <1>7, ProcessSaves
  <2>2. CASE promise' = NoPromise
    BY <2>2 DEF StatusOK, NoPromise
  <2>3. CASE Settings(disk') = Settings(disk) /\ promise' = promise
    <3>1. ServicePool(worker.seen, disk', unit.path) = ServicePool(worker.seen, disk, unit.path)
      BY <2>3, SettingsDecide
    <3> QED
      BY <2>1, <2>3, <3>1 DEF KeepsOrUndoes, StatusOK
  <2> QED
    BY <2>1, <2>2, <2>3 DEF KeepsOrUndoes
<1>8. ASSUME NEW o, NEW path, RunBegin(o, path) PROVE StatusOK'
  BY <1>8 DEF StatusOK, RunBegin
<1>9. CASE RunEnds \/ WorkerEnds
  BY <1>9 DEF StatusOK, RunEnds, WorkerEnds, NoWorker
<1>10. CASE \E state \in {"none", "stopped", "started"} : Manage(state)
  BY <1>10 DEF StatusOK, Manage, NoWorker
<1>11. ASSUME NEW a, NEW place, Move(a, place) PROVE StatusOK'
  BY <1>11 DEF StatusOK, Move
<1>12. CASE UNCHANGED setupVars
  BY <1>12 DEF StatusOK, setupVars
<1> QED
  BY <1>1, <1>2, <1>3, <1>4, <1>5, <1>6, <1>7, <1>8, <1>9, <1>10, <1>11, <1>12 DEF SetupNext

LEMMA ChoiceInvStep == IInv /\ ChoiceInv /\ [SetupNext]_setupVars => ChoiceInv'
  BY NormalStep, ChoiceStep, StatusStep DEF ChoiceInv

LEMMA BothInvariants == SetupSpec => [](IInv /\ ChoiceInv)
  BY InvInit, InvStep, ChoiceInit, ChoiceInvStep, PTL DEF SetupSpec

-----------------------------------------------------------------------------
(* The theorems that rest on it.                                           *)

\* What was asked for and saved stays the selection of the file, through installs
\* that ask for nothing, changes of the backend and runs with other flags.
THEOREM ChoiceStays == SetupSpec => []ChoiceLasts
<1>1. ChoiceInv => ChoiceLasts
  BY DEF ChoiceInv, ChoiceOK, Says, ChoiceLasts
<1> QED
  BY <1>1, BothInvariants, PTL

LEMMA InvImpliesStatus == IInv /\ ChoiceInv => StatusTells
<1> SUFFICES ASSUME IInv, ChoiceInv, promise.on, worker.on
             PROVE  DescribeAgentMode(disk) \in {<<"all installed agents">>, worker.pool}
  BY DEF StatusTells
<1> DEFINE paths == EffectivePaths(disk, disk.paths)
<1>1. worker.pool # <<>> /\ worker.pool = ServicePool(worker.seen, disk, unit.path)
  BY DEF ChoiceInv, StatusOK
<1>2. worker.pool =
        IF disk.backend = "llm" THEN <<LLM>>
        ELSE IF disk.rotate THEN Installed(worker.seen, paths, unit.path)
        ELSE IF disk.pool # <<>> THEN Named(worker.seen, disk.pool, paths, unit.path)
        ELSE Named(worker.seen, <<disk.agent>>, paths, unit.path)
  BY <1>1 DEF ServicePool, ResolvePool, NoFlags
<1>3. /\ disk.agent \in Agents /\ disk.pool \in Seq(Agents) /\ NoRepeats(disk.pool)
  BY DEF ChoiceInv, NormalOK, Normal
<1>4. Normalized(disk.pool) = disk.pool /\ Normalized(<<disk.agent>>) = <<disk.agent>>
  BY <1>3, NormalizedIs, OneNormalized DEF IsNormalized
<1>5. \A names : Named(worker.seen, names, paths, unit.path) # <<>>
                   => Named(worker.seen, names, paths, unit.path) = Normalized(names)
  BY DEF Named
<1> QED
  BY <1>1, <1>2, <1>4, <1>5 DEF DescribeAgentMode

\* `daemon status` names the agents that the worker takes turns with.
THEOREM StatusIsTrue == SetupSpec => []StatusTells
  BY InvImpliesStatus, BothInvariants, PTL
\* The first command after any command is an install only where the stage has
\* found what an install needs: no error suggests one by itself.
LEMMA SuggestedWhenReady ==
  ASSUME NEW path, NEW error, FallbackSuggestions(path, error)[1] = "daemon install"
  PROVE  \/ disk.backend = "llm" /\ disk.llm = LLMSettings
         \/ DetectedAgents(path) # {}
<1>1. Stage(path) \in {"signed_out", "needs_agent", "ready_to_run", "daemon_stopped", "daemon_running"}
  BY DEF Stage
<1>2. Stage(path) = "ready_to_run"
  BY <1>1 DEF FallbackSuggestions, StageSuggestions
<1> QED
  BY <1>2 DEF Stage

\* An install without flags in a shell that finds the agents of the configuration.
LEMMA AcceptedWhenDetected ==
  ASSUME NEW path \in Shells, where \in [Agents -> Places], Sound(disk), Normal(disk),
         WantedAgents \subseteq DetectedAgents(path),
         disk.backend = "llm" \/ DetectedAgents(path) # {}
  PROVE  AcceptsInstall(where, disk, NoFlags, path)
<1> DEFINE captured == Captured(where, path)
           c == InstallConfig(where, disk, NoFlags, path)
           paths == EffectivePaths(c, captured)
           before == EffectivePaths(disk, captured)
<1>1. ValidFlags(NoFlags) /\ ~AgentFlags(NoFlags)
  BY SetupAssumption DEF ValidFlags, AgentFlags, NoFlags
<1>2. BackendOf(disk, NoFlags) = disk.backend
  BY DEF BackendOf, NoFlags
<1>3. LLMComplete(disk, NoFlags)
  BY <1>2 DEF LLMComplete, Sound, NoFlags
<1>4. \A a \in DetectedAgents(path) :
        a \in Agents /\ Located(where, a, before, path) /\ Located(where, a, paths, path)
  <2> SUFFICES ASSUME NEW a \in DetectedAgents(path)
               PROVE  a \in Agents /\ Located(where, a, before, path) /\ Located(where, a, paths, path)
    OBVIOUS
  <2>1. a \in Agents /\ where[a] \in path
    BY DEF DetectedAgents
  <2>2. where[a] # None
    BY <2>1, SetupAssumption
  <2>3. captured[a] = where[a]
    BY <2>1 DEF Captured
  <2>4. before[a] = where[a] /\ paths[a] = where[a]
    BY <2>1, <2>2, <2>3 DEF EffectivePaths
  <2> HIDE DEF before, paths
  <2> QED
    BY <2>1, <2>2, <2>4 DEF Located
<1>5. ASSUME DetectedAgents(path) # {}
      PROVE  Installed(where, before, path) # <<>> /\ Installed(where, paths, path) # <<>>
  <2>1. PICK a : a \in DetectedAgents(path)
    BY <1>5
  <2> HIDE DEF before, paths
  <2> QED
    BY <1>4, <2>1, SomeInstalled
<1>6. ASSUME NEW names \in Seq(Agents), names # <<>>, ToSet(names) \subseteq DetectedAgents(path)
      PROVE  Named(where, names, paths, path) # <<>>
  <2>1. Normalized(names) # <<>>
    BY <1>6, NormalizedIs DEF IsNormalized
  <2>2. \A a \in ToSet(names) : Located(where, a, paths, path)
    BY <1>4, <1>6
  <2> HIDE DEF paths
  <2> QED
    BY <2>1, <2>2 DEF Named
<1>7. disk.backend = "agent" => SelectionLocated(where, disk, NoFlags, path)
  <2>1. ASSUME disk.backend = "agent" PROVE Installed(where, before, path) # <<>>
    BY <1>5, <2>1
  <2> QED
    BY <2>1 DEF SelectionLocated, NoFlags
<1>8. InstallPool(where, disk, NoFlags, path) # <<>>
  <2>1. InstallPool(where, disk, NoFlags, path) =
          IF disk.backend = "llm" THEN <<LLM>>
          ELSE IF c.rotate THEN Installed(where, paths, path)
          ELSE IF c.pool # <<>> THEN Named(where, c.pool, paths, path)
          ELSE Named(where, <<c.agent>>, paths, path)
    BY <1>2 DEF InstallPool, ResolvePool, NoFlags
  <2>2. CASE disk.backend = "llm"
    BY <2>1, <2>2
  <2>3. CASE disk.backend # "llm" /\ (AutoRotates(disk) \/ disk.rotate)
    <3>1. c.rotate
      BY <1>2, <2>3
      DEF InstallConfig, Selected, RotateInstalled, NoFlags, Normal, Backends
    <3> HIDE DEF c, paths
    <3> QED
      BY <1>5, <2>1, <2>3, <3>1
  <2>4. CASE disk.backend # "llm" /\ ~AutoRotates(disk) /\ ~disk.rotate
    <3>1. c.agent = disk.agent /\ c.pool = disk.pool /\ c.rotate = disk.rotate
      BY <2>4 DEF InstallConfig, Selected, NoFlags
    <3>2. /\ disk.pool # <<>> => ToSet(disk.pool) \subseteq DetectedAgents(path)
          /\ disk.pool = <<>> => disk.agent \in DetectedAgents(path)
      BY <2>4 DEF WantedAgents
    <3>3. ToSet(<<disk.agent>>) = {disk.agent} /\ <<disk.agent>> # <<>>
      BY DEF ToSet
    <3>4. disk.agent \in Agents /\ disk.pool \in Seq(Agents) /\ <<disk.agent>> \in Seq(Agents)
      BY DEF Normal
    <3> HIDE DEF c, paths
    <3>5. CASE disk.pool # <<>>
      BY <1>6, <2>1, <2>4, <3>1, <3>2, <3>4, <3>5
    <3>6. CASE disk.pool = <<>>
      <4>1. ToSet(<<disk.agent>>) \subseteq DetectedAgents(path)
        BY <3>2, <3>3, <3>6
      <4>2. Named(where, <<disk.agent>>, paths, path) # <<>>
        BY <1>6, <3>3, <3>4, <4>1
      <4> QED
        BY <2>1, <2>4, <3>1, <3>6, <4>2
    <3> QED
      BY <3>5, <3>6
  <2> QED
    BY <2>2, <2>3, <2>4
<1> HIDE DEF before, paths, c, captured
<1> QED
  BY <1>1, <1>2, <1>3, <1>7, <1>8 DEF AcceptsInstall

LEMMA InvImpliesAdvice == IInv /\ ChoiceInv => AdviceWorks
<1> SUFFICES ASSUME IInv, ChoiceInv, NEW path \in Shells,
                    WantedAgents \subseteq DetectedAgents(path),
                    \/ \E error \in LastErrors : FallbackSuggestions(path, error)[1] = "daemon install"
                    \/ DetectedAgents(path) # {}
             PROVE  AcceptsInstall(where, disk, NoFlags, path)
  BY DEF AdviceWorks
<1>1. disk.backend = "llm" \/ DetectedAgents(path) # {}
  BY SuggestedWhenReady
<1> QED
  BY <1>1, AcceptedWhenDetected DEF IInv, ShapeOK, DiskOK, ChoiceInv, NormalOK

\* Wherever `sah` suggests `daemon install` and the agents that the file names are
\* on the PATH, the install is accepted.
THEOREM AdviceIsTrue == SetupSpec => []AdviceWorks
  BY InvImpliesAdvice, BothInvariants, PTL
-----------------------------------------------------------------------------
(* Types.                                                                  *)

LEMMA NamesTypes ==
  ASSUME NEW machine, NEW paths, NEW path
  PROVE  /\ Installed(machine, paths, path) \in Pools
         /\ \A names \in Seq(Agents) : Named(machine, names, paths, path) \in Pools
<1>1. Installed(machine, paths, path) \in Seq(Agents)
  <2>1. PICK k : /\ k \in [0 .. Len(SupportedAgents) -> Seq(Agents)]
                 /\ Installed(machine, paths, path) = k[Len(SupportedAgents)]
    BY InstalledUnfolds
  <2>2. Len(SupportedAgents) \in 0 .. Len(SupportedAgents)
    BY SetupAssumption
  <2> QED
    BY <2>1, <2>2
<1>2. \A names \in Seq(Agents) : Named(machine, names, paths, path) \in Seq(Agents)
  BY NormalizedIs DEF Named, IsNormalized
<1>3. \A s \in Seq(Agents) : s \in Pools
  BY DEF Pools
<1> QED
  BY <1>1, <1>2, <1>3

LEMMA PoolTypes ==
  ASSUME NEW machine, NEW path, NEW c \in Configs
  PROVE  ServicePool(machine, c, path) \in Pools
<1> DEFINE paths == EffectivePaths(c, c.paths)
<1>1. c.pool \in Seq(Agents) /\ <<c.agent>> \in Seq(Agents)
  BY DEF Configs
<1>2. <<LLM>> \in Pools
  BY DEF Pools
<1>3. ServicePool(machine, c, path) \in
        {<<LLM>>, Installed(machine, paths, path), Named(machine, c.pool, paths, path),
         Named(machine, <<c.agent>>, paths, path)}
  BY DEF ServicePool, ResolvePool, NoFlags
<1> HIDE DEF paths
<1> QED
  BY <1>1, <1>2, <1>3, NamesTypes

LEMMA DefaultTypes == DefaultConfig \in Configs
  BY SetupAssumption DEF DefaultConfig, Configs, Backends, LLMSettings, NoPaths, Places

LEMMA InstallTypes ==
  ASSUME NEW machine \in [Agents -> Places], NEW path, NEW c \in Configs, NEW o \in Options
  PROVE  /\ InstallConfig(machine, c, o, path) \in Configs
         /\ Asked(o) \in Selections
<1> DEFINE s == Selected(c, o)
<1>1. o \in [agent : Agents \union {None}, agents : Seq(Agents), rotate : BOOLEAN,
             model : BOOLEAN, backend : Backends \union {None},
             llm : SUBSET LLMSettings, url : Urls \union {None}]
  BY SetupAssumption
<1>2. Normalized(o.agents) \in Seq(Agents) /\ <<>> \in Seq(Agents)
  BY <1>1, NormalizedIs DEF IsNormalized
<1>3. BackendOf(c, o) \in Backends
  BY <1>1 DEF BackendOf, Configs, Backends
<1>4. PickURL(o.url, c.url) \in Urls
  BY <1>1 DEF PickURL, Configs
<1>5. c.llm \union o.llm \in SUBSET LLMSettings /\ (c.model \/ o.model) \in BOOLEAN
  BY <1>1 DEF Configs
<1>6. s.agent \in Agents /\ s.pool \in Seq(Agents) /\ s.rotate \in BOOLEAN
  BY <1>1, <1>2 DEF Selected, PinnedAgent, AgentPool, RotateInstalled, Configs
<1>7. NoPaths \in [Agents -> Places] /\ Captured(machine, path) \in [Agents -> Places]
  BY DEF NoPaths, Captured, Places
<1>8. c.auth \in BOOLEAN
  BY DEF Configs
<1> HIDE DEF s
<1>9. InstallConfig(machine, c, o, path) \in Configs
  BY <1>3, <1>4, <1>5, <1>6, <1>7, <1>8 DEF InstallConfig, Configs, s
<1>10. Asked(o) \in Selections
  BY <1>1, <1>2 DEF Asked, Selections
<1> QED
  BY <1>9, <1>10

Installs == [step : {"idle", "checking", "refreshed", "saved"}, config : Configs,
             asked : Selections, pool : Pools, path : SUBSET Dirs, seen : [Agents -> Places]]
Workers == [on : BOOLEAN, config : Configs, fresh : BOOLEAN, pool : Pools,
            seen : [Agents -> Places]]
Runs == [step : {"none", "login", "run"}, config : Configs, fresh : BOOLEAN,
         flags : Options \union {NoFlags, None}, path : SUBSET Dirs]
Promises == [on : BOOLEAN, pool : Pools, path : SUBSET Dirs, seen : [Agents -> Places]]

LEMMA NothingTypes ==
  /\ NoInstall \in Installs /\ NoWorker \in Workers /\ NoRun \in Runs
  /\ NoPromise \in Promises /\ NoChoice \in Selections
<1>1. /\ <<>> \in Pools /\ <<>> \in Seq(Agents) /\ NoPaths \in [Agents -> Places]
      /\ {} \in SUBSET Dirs /\ NoFlags \in Options \union {NoFlags, None}
  BY DEF Pools, NoPaths, Places
<1>2. NoChoice \in Selections
  BY <1>1 DEF NoChoice, Selections
<1>3. NoInstall \in Installs
  BY <1>1, <1>2, DefaultTypes DEF NoInstall, Installs
<1>4. NoWorker \in Workers
  BY <1>1, DefaultTypes DEF NoWorker, Workers
<1>5. NoRun \in Runs
  BY <1>1, DefaultTypes DEF NoRun, Runs
<1>6. NoPromise \in Promises
  BY <1>1 DEF NoPromise, Promises
<1> QED
  BY <1>2, <1>3, <1>4, <1>5, <1>6

\* SetupTypeOK, with its sets named.
Typed ==
  /\ disk \in Configs /\ where \in [Agents -> Places] /\ cmd \in Installs
  /\ unit \in [state : {"none", "stopped", "started"}, path : SUBSET Dirs]
  /\ worker \in Workers /\ run \in Runs /\ promise \in Promises /\ chosen \in Selections
  /\ bounds \in [installs : Nat, runs : Nat, moves : Nat]

LEMMA TypedIs == Typed <=> SetupTypeOK
  BY Zenon DEF Typed, SetupTypeOK, Installs, Workers, Runs, Promises

LEMMA TypeInit == SetupInit => Typed
<1>1. Machines \subseteq [Agents -> Places]
  BY SetupAssumption
<1> QED
  BY <1>1, NothingTypes, DefaultTypes DEF SetupInit, Typed

LEMMA OvertakenTypes ==
  /\ \A w \in Workers : Overtaken(w) \in Workers
  /\ \A r \in Runs : Overtaken(r) \in Runs
  BY DEF Overtaken, Workers, Runs

\* A save by the worker or the run.
LEMMA SaveTypes ==
  ASSUME Typed, NEW config \in Configs, NEW fresh, SaveConfig(config, fresh)
  PROVE  disk' \in Configs /\ promise' \in Promises /\ chosen' \in Selections
  BY NothingTypes DEF SaveConfig, Typed

LEMMA SaveInstallTypes ==
  ASSUME Typed, SaveInstall(cmd.config)
  PROVE  /\ disk' \in Configs /\ worker' \in Workers /\ run' \in Runs
         /\ promise' \in Promises /\ chosen' \in Selections
<1>1. cmd.config \in Configs /\ cmd.asked \in Selections
  BY DEF Typed, Installs
<1>2. chosen' \in {chosen, NoChoice, cmd.asked}
  BY DEF SaveInstall
<1> QED
  BY <1>1, <1>2, NothingTypes, OvertakenTypes DEF SaveInstall, Typed

LEMMA InstallTypeStep ==
  ASSUME Typed,
         \/ \E o \in Options, path \in Shells : InstallBegin(o, path)
         \/ InstallRefresh \/ InstallFails \/ InstallSave \/ InstallService \/ InstallServiceFails
  PROVE  Typed'
<1> USE DEF Typed
<1>1. ASSUME NEW o \in Options, NEW path \in Shells, InstallBegin(o, path)
      PROVE  Typed'
  <2>1. path \in SUBSET Dirs
    BY SetupAssumption
  <2>2. InstallConfig(where, disk, o, path) \in Configs /\ Asked(o) \in Selections
    BY InstallTypes
  <2>3. InstallPool(where, disk, o, path) \in Pools
    BY <2>2, InstallPoolIsServicePool, PoolTypes
  <2>4. cmd' \in Installs
    BY <1>1, <2>1, <2>2, <2>3 DEF InstallBegin, Installs
  <2>5. bounds' \in [installs : Nat, runs : Nat, moves : Nat]
    BY <1>1 DEF InstallBegin
  <2>6. UNCHANGED <<disk, where, unit, worker, run, promise, chosen>>
    BY <1>1 DEF InstallBegin
  <2> QED
    BY <2>4, <2>5, <2>6
<1>2. CASE InstallRefresh \/ InstallSave
  <2>1. SaveInstall(cmd.config) /\ UNCHANGED <<where, unit, bounds>>
    BY <1>2 DEF InstallRefresh, InstallSave
  <2>2. cmd' \in Installs
    BY <1>2 DEF InstallRefresh, InstallSave, Installs
  <2> QED
    BY <2>1, <2>2, SaveInstallTypes
<1>3. CASE InstallFails
  BY <1>3, NothingTypes DEF InstallFails
<1>4. CASE InstallService
  <2>1. /\ unit' = [state |-> "started", path |-> cmd.path] /\ worker' = NoWorker
        /\ promise' = [on |-> Settled, pool |-> cmd.pool, path |-> cmd.path, seen |-> cmd.seen]
        /\ cmd' = NoInstall /\ UNCHANGED <<disk, where, run, chosen, bounds>>
    BY <1>4 DEF InstallService
  <2>2. Settled \in BOOLEAN
    BY DEF Settled
  <2>3. cmd.path \in SUBSET Dirs /\ cmd.pool \in Pools /\ cmd.seen \in [Agents -> Places]
    BY DEF Installs
  <2>4. promise' \in Promises
    BY <2>1, <2>2, <2>3 DEF Promises
  <2>5. unit' \in [state : {"none", "stopped", "started"}, path : SUBSET Dirs]
    BY <2>1, <2>3
  <2> QED
    BY <2>1, <2>4, <2>5, NothingTypes
<1>5. CASE InstallServiceFails
  <2>1. /\ cmd' = NoInstall /\ worker' \in {NoWorker, worker}
        /\ UNCHANGED <<disk, where, run, promise, chosen, bounds>>
    BY <1>5 DEF InstallServiceFails
  <2>2. cmd.path \in SUBSET Dirs
    BY DEF Installs
  <2>3. unit' \in [state : {"none", "stopped", "started"}, path : SUBSET Dirs]
    BY <1>5, <2>2 DEF InstallServiceFails
  <2> QED
    BY <2>1, <2>3, NothingTypes
<1> QED
  BY <1>1, <1>2, <1>3, <1>4, <1>5

LEMMA WorkerTypeStep ==
  ASSUME Typed,
         \/ WorkerStart \/ WorkerSave \/ WorkerEnds
         \/ \E state \in {"none", "stopped", "started"} : Manage(state)
         \/ \E a \in Agents, place \in Places : Move(a, place)
  PROVE  Typed'
<1> USE DEF Typed
<1>1. CASE WorkerStart
  <2>1. worker' = [on |-> TRUE, config |-> disk, fresh |-> TRUE,
                   pool |-> ServicePool(where, disk, unit.path), seen |-> where]
        /\ UNCHANGED <<disk, where, cmd, unit, run, promise, chosen, bounds>>
    BY <1>1 DEF WorkerStart
  <2>2. worker' \in Workers
    BY <2>1, PoolTypes DEF Workers
  <2> QED
    BY <2>1, <2>2
<1>2. CASE WorkerSave
  <2>1. SaveConfig(worker.config, worker.fresh) /\ run' \in {run, Overtaken(run)}
        /\ UNCHANGED <<where, cmd, unit, worker, bounds>>
    BY <1>2 DEF WorkerSave
  <2>2. worker.config \in Configs
    BY DEF Workers
  <2> QED
    BY <2>1, <2>2, SaveTypes, OvertakenTypes
<1>3. CASE WorkerEnds
  BY <1>3, NothingTypes DEF WorkerEnds
<1>4. ASSUME NEW state \in {"none", "stopped", "started"}, Manage(state) PROVE Typed'
  <2>1. /\ worker' = NoWorker /\ promise' \in {NoPromise, promise}
        /\ UNCHANGED <<disk, where, cmd, run, chosen, bounds>>
    BY <1>4 DEF Manage
  <2>2. unit' \in [state : {"none", "stopped", "started"}, path : SUBSET Dirs]
    BY <1>4 DEF Manage
  <2> QED
    BY <2>1, <2>2, NothingTypes
<1>5. ASSUME NEW a \in Agents, NEW place \in Places, Move(a, place) PROVE Typed'
  <2>1. where' \in [Agents -> Places] /\ bounds' \in [installs : Nat, runs : Nat, moves : Nat]
    BY <1>5 DEF Move
  <2>2. UNCHANGED <<disk, cmd, unit, worker, run, promise, chosen>>
    BY <1>5 DEF Move
  <2> QED
    BY <2>1, <2>2
<1> QED
  BY <1>1, <1>2, <1>3, <1>4, <1>5

LEMMA RunTypeStep ==
  ASSUME Typed,
         \/ \E o \in Options \union {None}, path \in Shells : RunBegin(o, path)
         \/ RunLogsIn \/ RunSave \/ RunEnds
  PROVE  Typed'
<1> USE DEF Typed
<1>1. \A config \in Configs, fresh \in BOOLEAN : RunningWith(config, fresh) \in Runs
  BY DEF RunningWith, Runs
<1>2. ASSUME NEW o \in Options \union {None}, NEW path \in Shells, RunBegin(o, path)
      PROVE  Typed'
  <2>1. PICK config : /\ config = IF o = None THEN disk ELSE [disk EXCEPT !.url = PickURL(o.url, @)]
                      /\ \/ run' = [step |-> "login", config |-> config, fresh |-> TRUE,
                                    flags |-> o, path |-> path]
                         \/ run' = RunningWith(config, TRUE)
    BY <1>2 DEF RunBegin
  <2>2. config \in Configs
    <3>1. CASE o = None
      BY <2>1, <3>1
    <3>2. CASE o # None
      <4>1. o \in [agent : Agents \union {None}, agents : Seq(Agents), rotate : BOOLEAN,
                   model : BOOLEAN, backend : Backends \union {None},
                   llm : SUBSET LLMSettings, url : Urls \union {None}]
        BY <3>2, SetupAssumption
      <4>2. PickURL(o.url, disk.url) \in Urls
        BY <4>1 DEF PickURL, Configs
      <4> QED
        BY <2>1, <3>2, <4>2 DEF Configs
    <3> QED
      BY <3>1, <3>2
  <2>3. path \in SUBSET Dirs
    BY SetupAssumption
  <2>4. run' \in Runs
    <3>1. RunningWith(config, TRUE) \in Runs
      BY <1>1, <2>2
    <3>2. [step |-> "login", config |-> config, fresh |-> TRUE, flags |-> o, path |-> path] \in Runs
      <4>1. o \in Options \union {NoFlags, None}
        OBVIOUS
      <4> QED
        BY <2>2, <2>3, <4>1 DEF Runs
    <3> QED
      BY <2>1, <3>1, <3>2
  <2>5. bounds' \in [installs : Nat, runs : Nat, moves : Nat]
    BY <1>2 DEF RunBegin
  <2>6. UNCHANGED <<disk, where, cmd, unit, worker, promise, chosen>>
    BY <1>2 DEF RunBegin
  <2> QED
    BY <2>4, <2>5, <2>6
<1>3. CASE RunLogsIn
  <2>1. PICK config : config = [run.config EXCEPT !.auth = TRUE]
    OBVIOUS
  <2>2. /\ SaveConfig(config, run.fresh) /\ run' \in {RunningWith(config, run.fresh), NoRun}
        /\ worker' \in {worker, Overtaken(worker)} /\ UNCHANGED <<where, cmd, unit, bounds>>
    BY <1>3, <2>1 DEF RunLogsIn
  <2>3. config \in Configs /\ run.fresh \in BOOLEAN
    BY <2>1 DEF Runs, Configs
  <2> QED
    BY <1>1, <2>2, <2>3, SaveTypes, OvertakenTypes, NothingTypes
<1>4. CASE RunSave
  <2>1. /\ SaveConfig(run.config, run.fresh) /\ worker' \in {worker, Overtaken(worker)}
        /\ UNCHANGED <<where, cmd, unit, run, bounds>>
    BY <1>4 DEF RunSave
  <2>2. run.config \in Configs
    BY DEF Runs
  <2> QED
    BY <2>1, <2>2, SaveTypes, OvertakenTypes
<1>5. CASE RunEnds
  BY <1>5, NothingTypes DEF RunEnds
<1> QED
  BY <1>2, <1>3, <1>4, <1>5

LEMMA TypeStep == Typed /\ [SetupNext]_setupVars => Typed'
<1>1. CASE UNCHANGED setupVars
  BY <1>1 DEF Typed, setupVars
<1> QED
  BY <1>1, InstallTypeStep, WorkerTypeStep, RunTypeStep DEF SetupNext

\* Whatever the flags and the machine, no step leaves a configuration, a pool or a
\* process in a shape that the commands do not expect.
THEOREM SetupTypeCorrect == SetupSpec => []SetupTypeOK
  BY TypeInit, TypeStep, TypedIs, PTL DEF SetupSpec
=============================================================================
