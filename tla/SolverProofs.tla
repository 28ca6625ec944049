----------------------------- MODULE SolverProofs -----------------------------
(***************************************************************************)
(* What a solver returns, for any agents, endpoint, lines and answers, and *)
(* any number of lines: the answer is read from the whole output, and from *)
(* the place in it where the agent gives its answer.                       *)
(***************************************************************************)
EXTENDS Solver, RecursionFacts, TLAPS

-----------------------------------------------------------------------------
(* The folds over the lines.                                               *)

Outputs == [text : Seq(Pieces), structured : Seq(Pieces), error : BOOLEAN]

LEMMA EventTypes ==
  ASSUME NEW e \in Events
  PROVE  /\ e.text \in Seq(Pieces) /\ e.structured \in Seq(Pieces)
         /\ e.failed \in BOOLEAN
  BY SolverAssumption

\* What one line does to the output.
LEMMA DialectStep ==
  ASSUME NEW agent, NEW o \in Outputs, NEW e \in Events
  PROVE  /\ Dialect(agent, o, e) \in Outputs
         /\ Dialect(agent, o, e).text =
              IF e.kind # "text" THEN o.text
              ELSE IF agent = "codex" THEN e.text ELSE o.text \o e.text
         /\ Dialect(agent, o, e).structured =
              IF agent \notin {"codex", "gemini"} /\ e.kind = "result" /\ o.structured = <<>>
              THEN e.structured ELSE o.structured
<1>1. /\ e.text \in Seq(Pieces) /\ e.structured \in Seq(Pieces)
      /\ e.failed \in BOOLEAN
  BY EventTypes
<1>2. o.text \in Seq(Pieces) /\ o.text \o e.text \in Seq(Pieces)
  BY <1>1 DEF Outputs
<1>3. CASE agent = "codex"
  BY <1>1, <1>2, <1>3 DEF Outputs, Dialect, CodexEvent
<1>4. CASE agent = "gemini"
  BY <1>1, <1>2, <1>4 DEF Outputs, Dialect, GeminiEvent
<1>5. CASE agent \notin {"codex", "gemini"}
  BY <1>1, <1>2, <1>5 DEF Outputs, Dialect, AssistantEvent
<1> QED
  BY <1>3, <1>4, <1>5

\* The outputs after each of the lines.
Reads(agent, lines, k) ==
  /\ k \in [0 .. Len(lines) -> Outputs]
  /\ k[0] = NoOutput
  /\ \A i \in 1 .. Len(lines) : k[i] = Dialect(agent, k[i - 1], lines[i])

\* What is made of the last one.
Concluded(o) == IF o.text = <<>> THEN [o EXCEPT !.text = o.structured] ELSE o

LEMMA FoldReads ==
  ASSUME NEW agent, NEW lines \in Seq(Events)
  PROVE  \E k : /\ Reads(agent, lines, k)
                /\ StructuredOutput(agent, lines) = Concluded(k[Len(lines)])
<1> DEFINE n == Len(lines)
           step == [p \in Outputs \X (1 .. n) |-> Dialect(agent, p[1], lines[p[2]])]
           Folds(iter) ==
             iter = [s \in SUBSET (1 .. n) |->
                      IF s = {} THEN NoOutput
                      ELSE Dialect(agent, iter[s \ {Max(s)}], lines[Max(s)])]
<1>1. n \in Nat /\ NoOutput \in Outputs /\ step \in StepFunctions(Outputs, n)
  <2>1. \A o \in Outputs, i \in 1 .. n : Dialect(agent, o, lines[i]) \in Outputs
    BY DialectStep
  <2>2. NoOutput \in Outputs
    BY DEF NoOutput, Outputs
  <2> QED
    BY <2>1, <2>2 DEF StepFunctions
<1>2. \E iter : Folds(iter)
  <2>1. PICK g \in [SUBSET (1 .. n) -> Outputs] : FoldLeads(g, n, NoOutput, step)
    <3> HIDE DEF step, n
    <3> QED
      BY <1>1, FoldRecursion
  <2>2. ASSUME NEW s \in SUBSET (1 .. n), s # {}
        PROVE  step[<<g[s \ {Max(s)}], Max(s)>>]
                 = Dialect(agent, g[s \ {Max(s)}], lines[Max(s)])
    <3>1. Max(s) \in 1 .. n
      <4>1. Max(s) \in s
        BY <1>1, <2>2, MaxIsIn
      <4> QED
        BY <4>1
    <3>2. g[s \ {Max(s)}] \in Outputs
      OBVIOUS
    <3> HIDE DEF n
    <3> QED
      BY <3>1, <3>2
  <2> HIDE DEF step
  <2>3. Folds(g)
    BY <2>1, <2>2 DEF FoldLeads
  <2> QED
    BY <2>3
<1>3. PICK iter : Folds(iter) /\
        FoldLeft(LAMBDA o, e : Dialect(agent, o, e), NoOutput, lines) = iter[1 .. n]
  <2>1. DOMAIN lines = 1 .. n
    OBVIOUS
  <2> QED
    BY <1>2, <2>1, Zenon DEF FoldLeft, MapThenFoldSet
<1> DEFINE k == [i \in 0 .. n |-> iter[1 .. i]]
<1>4. k[0] = NoOutput
  <2>1. 0 \in 0 .. n /\ 1 .. 0 = {} /\ {} \in SUBSET (1 .. n)
    BY <1>1
  <2>2. iter[{}] = NoOutput
    BY <1>3, <2>1, Zenon
  <2> QED
    BY <2>1, <2>2
<1>5. ASSUME NEW i \in 1 .. n PROVE k[i] = Dialect(agent, k[i - 1], lines[i])
  <2>1. 1 .. i \in SUBSET (1 .. n) /\ i \in Nat \ {0} /\ i - 1 \in 0 .. n
    OBVIOUS
  <2>2. iter[1 .. i] = IF 1 .. i = {} THEN NoOutput
          ELSE Dialect(agent, iter[(1 .. i) \ {Max(1 .. i)}], lines[Max(1 .. i)])
    BY <1>3, <2>1, Zenon
  <2>3. iter[1 .. i] = Dialect(agent, iter[1 .. i - 1], lines[i])
    BY <2>1, <2>2, FirstNumbers
  <2> QED
    BY <2>1, <2>3
<1> DEFINE S == {i \in 0 .. n : k[i] \in Outputs}
<1> HIDE DEF k
<1>6. n \in Nat /\ 0 \in S
  BY <1>1, <1>4
<1>7. ASSUME NEW i \in 0 .. n - 1, i \in S PROVE i + 1 \in S
  <2>1. i + 1 \in 1 .. n /\ i + 1 \in 0 .. n
    OBVIOUS
  <2>2. k[i + 1] = Dialect(agent, k[i], lines[i + 1])
    BY <1>5, <2>1
  <2>3. lines[i + 1] \in Events
    BY <2>1
  <2>4. k[i + 1] \in Outputs
    BY <1>7, <2>2, <2>3, DialectStep
  <2> QED
    BY <2>1, <2>4
<1> HIDE DEF S
<1>8. 0 .. n \subseteq S
  BY <1>6, <1>7, UpTo
<1>9. k \in [0 .. n -> Outputs]
  BY <1>8 DEF S, k
<1>10. k[n] = iter[1 .. n]
  BY <1>6 DEF k
<1> QED
  BY <1>3, <1>4, <1>5, <1>9, <1>10, Zenon DEF Reads, StructuredOutput, Concluded

-----------------------------------------------------------------------------
(* What the folds have read: the text and the structured output.           *)

\* A piece of a form, and none of the form before it; or none at all.
LEMMA FirstIsFirst ==
  ASSUME NEW text \in Seq(Pieces), NEW forms
  PROVE  \/ First(text, forms) = 0 /\ \A j \in DOMAIN text : text[j].form \notin forms
         \/ /\ First(text, forms) \in DOMAIN text
            /\ text[First(text, forms)].form \in forms
            /\ \A j \in 1 .. First(text, forms) - 1 : text[j].form \notin forms
<1> DEFINE I == {i \in 1 .. Len(text) : text[i].form \in forms}
<1>1. First(text, forms) = IF I # {} THEN Min(I) ELSE 0
  BY Zenon DEF First, SelectInSeq
<1>2. DOMAIN text = 1 .. Len(text) /\ Len(text) \in Nat
  OBVIOUS
<1>3. CASE I = {}
  BY <1>1, <1>2, <1>3
<1>4. CASE I # {}
  <2>1. Min(I) \in I /\ \A z \in I : Min(I) <= z
    <3>1. I \in SUBSET Nat
      OBVIOUS
    <3> HIDE DEF I
    <3> QED
      BY <1>4, <3>1, MinIsIn
  <2>2. ASSUME NEW j \in 1 .. Min(I) - 1 PROVE text[j].form \notin forms
    <3>1. j \in 1 .. Len(text) /\ ~(Min(I) <= j)
      BY <1>2, <2>1
    <3> QED
      BY <2>1, <3>1
  <2> QED
    BY <1>1, <1>2, <1>4, <2>1, <2>2
<1> QED
  BY <1>3, <1>4

\* The messages of the agents other than Codex are joined.
LEMMA JoinedTexts ==
  ASSUME printed \in Seq(Events), solver # "codex", NEW k, Reads(solver, printed, k)
  PROVE  k[Len(printed)].text = MessageTexts
<1> DEFINE n == Len(printed)
<1>1. n \in Nat /\ \A i \in 1 .. n : printed[i] \in Events
  OBVIOUS
<1>2. Texts \in Seq(Seq(Pieces)) /\ Len(Texts) = n
        /\ \A i \in 1 .. n : Texts[i] = IF printed[i].kind = "text" THEN printed[i].text ELSE <<>>
  <2>1. \A i \in 1 .. n : (IF printed[i].kind = "text" THEN printed[i].text ELSE <<>>) \in Seq(Pieces)
    BY <1>1, EventTypes
  <2>2. DOMAIN printed = 1 .. n
    OBVIOUS
  <2> HIDE DEF n
  <2> QED
    BY <1>1, <2>1, <2>2 DEF Texts
<1>3. PICK f \in [0 .. n -> Seq(Pieces)] :
        /\ f[0] = <<>>
        /\ \A i \in 1 .. n : f[i] = f[i - 1] \o Texts[i]
        /\ FlattenSeq(Texts) = f[n]
  <2> HIDE DEF n
  <2> QED
    BY <1>2, Flattened
<1> DEFINE S == {i \in 0 .. n : k[i].text = f[i]}
<1>4. 0 \in S
  BY <1>1, <1>3 DEF Reads, NoOutput
<1>5. ASSUME NEW i \in 0 .. n - 1, i \in S PROVE i + 1 \in S
  <2>1. i + 1 \in 1 .. n /\ i + 1 - 1 = i /\ printed[i + 1] \in Events
    OBVIOUS
  <2>2. k[i] \in Outputs /\ k[i + 1] = Dialect(solver, k[i], printed[i + 1])
    BY <2>1 DEF Reads
  <2>3. k[i + 1].text = IF printed[i + 1].kind # "text" THEN k[i].text
                        ELSE k[i].text \o printed[i + 1].text
    BY <2>1, <2>2, DialectStep
  <2>4. f[i] \in Seq(Pieces) /\ f[i] \o <<>> = f[i]
    OBVIOUS
  <2>5. f[i + 1] = f[i] \o Texts[i + 1] /\ k[i].text = f[i]
    <3> DEFINE After(x, j) == x \o Texts[j]
    <3>1. k[i].text = f[i] /\ \A j \in 1 .. n : f[j] = After(f[j - 1], j)
      BY <1>3, <1>5
    <3> HIDE DEF n, After
    <3>2. f[i + 1] = After(f[i], i + 1)
      BY <2>1, <3>1
    <3> QED
      BY <3>1, <3>2 DEF After
  <2>6. k[i + 1].text = f[i + 1]
    BY <1>2, <2>1, <2>3, <2>4, <2>5
  <2> QED
    BY <2>1, <2>6
<1> HIDE DEF S, n
<1>6. n \in S
  <2>1. 0 .. n \subseteq S
    BY <1>1, <1>4, <1>5, UpTo
  <2> QED
    BY <1>1, <2>1
<1> QED
  BY <1>3, <1>6 DEF S, n, MessageTexts

\* Of the messages of Codex the last one counts.
LEMMA LastMessage ==
  ASSUME printed \in Seq(Events), solver = "codex", NEW k, Reads(solver, printed, k)
  PROVE  k[Len(printed)].text = MessageTexts
<1> DEFINE n == Len(printed)
           IsLast(j, i) == /\ j \in 1 .. i /\ printed[j].kind = "text"
                           /\ \A l \in j + 1 .. i : printed[l].kind # "text"
           S == {i \in 0 .. n :
                  \/ k[i].text = <<>> /\ \A l \in 1 .. i : printed[l].kind # "text"
                  \/ \E j \in 1 .. n : IsLast(j, i) /\ k[i].text = printed[j].text}
<1>1. n \in Nat /\ \A i \in 1 .. n : printed[i] \in Events
  OBVIOUS
<1>2. 0 \in S
  BY <1>1 DEF Reads, NoOutput
<1>3. ASSUME NEW i \in 0 .. n - 1, i \in S PROVE i + 1 \in S
  <2>1. i + 1 \in 1 .. n /\ i + 1 \in 0 .. n /\ i + 1 - 1 = i /\ printed[i + 1] \in Events
    OBVIOUS
  <2>2. k[i] \in Outputs /\ k[i + 1] = Dialect(solver, k[i], printed[i + 1])
    BY <2>1 DEF Reads
  <2>3. k[i + 1].text = IF printed[i + 1].kind # "text" THEN k[i].text ELSE printed[i + 1].text
    BY <2>1, <2>2, DialectStep
  <2>4. \A l \in 1 .. i + 1 : l \in 1 .. i \/ l = i + 1
    OBVIOUS
  <2>5. CASE printed[i + 1].kind = "text"
    <3>1. IsLast(i + 1, i + 1)
      BY <2>1, <2>5
    <3> QED
      BY <2>1, <2>3, <2>5, <3>1
  <2>6. CASE printed[i + 1].kind # "text"
    <3>1. CASE k[i].text = <<>> /\ \A l \in 1 .. i : printed[l].kind # "text"
      BY <2>1, <2>3, <2>4, <2>6, <3>1
    <3>2. CASE \E j \in 1 .. n : IsLast(j, i) /\ k[i].text = printed[j].text
      <4>1. PICK j \in 1 .. n : IsLast(j, i) /\ k[i].text = printed[j].text
        BY <3>2
      <4>2. IsLast(j, i + 1)
        BY <2>6, <4>1
      <4> QED
        BY <2>1, <2>3, <2>6, <4>1, <4>2
    <3> QED
      BY <1>3, <3>1, <3>2
  <2> QED
    BY <2>5, <2>6
<1>4. n \in S
  <2> HIDE DEF S, n
  <2>1. 0 .. n \subseteq S
    BY <1>1, <1>2, <1>3, UpTo
  <2> QED
    BY <1>1, <2>1
<1> DEFINE I == {i \in 1 .. n : printed[i].kind = "text"}
<1>5. LastText = IF I # {} THEN Max(I) ELSE 0
  BY Zenon DEF LastText, SelectLastInSeq
<1>6. CASE I = {}
  BY <1>1, <1>4, <1>5, <1>6 DEF MessageTexts
<1>7. CASE I # {}
  <2>1. Max(I) \in I /\ \A z \in I : z <= Max(I)
    <3>1. I \in SUBSET (1 .. n)
      OBVIOUS
    <3> HIDE DEF I, n
    <3> QED
      BY <1>1, <1>7, <3>1, MaxIsIn
  <2>2. PICK j \in 1 .. n : IsLast(j, n) /\ k[n].text = printed[j].text
    BY <1>1, <1>4, <1>7
  <2>3. j = Max(I)
    <3>1. j \in I /\ j <= Max(I)
      BY <2>1, <2>2
    <3>2. Max(I) \notin j + 1 .. n
      BY <2>1, <2>2
    <3>3. Max(I) \in 1 .. n
      BY <2>1
    <3> QED
      BY <1>1, <3>1, <3>2, <3>3
  <2>4. LastText = j /\ LastText # 0
    BY <1>5, <1>7, <2>3
  <2> QED
    BY <2>2, <2>4 DEF MessageTexts
<1> QED
  BY <1>6, <1>7

\* The structured output is that of the first result that has one, and only the
\* dialect of Claude and Qwen knows it.
FirstStructured(text, i) ==
  \/ text = <<>>
  \/ /\ solver \notin {"codex", "gemini"}
     /\ \E j \in 1 .. i :
          /\ printed[j].kind = "result" /\ printed[j].structured = text
          /\ \A l \in 1 .. j - 1 : printed[l].kind = "result" => printed[l].structured = <<>>

LEMMA StructuredIsFirst ==
  ASSUME printed \in Seq(Events), NEW k, Reads(solver, printed, k)
  PROVE  FirstStructured(k[Len(printed)].structured, Len(printed))
<1> DEFINE n == Len(printed)
           None(i) == solver \notin {"codex", "gemini"} =>
                        \A l \in 1 .. i : printed[l].kind = "result" => printed[l].structured = <<>>
           S == {i \in 0 .. n : /\ FirstStructured(k[i].structured, i)
                                /\ k[i].structured = <<>> => None(i)}
<1>1. n \in Nat /\ \A i \in 1 .. n : printed[i] \in Events
  OBVIOUS
<1>2. 0 \in S
  BY <1>1 DEF Reads, NoOutput, FirstStructured
<1>3. ASSUME NEW i \in 0 .. n - 1, i \in S PROVE i + 1 \in S
  <2>1. i + 1 \in 1 .. n /\ i + 1 \in 0 .. n /\ i + 1 - 1 = i /\ printed[i + 1] \in Events
    OBVIOUS
  <2>2. k[i] \in Outputs /\ k[i + 1] = Dialect(solver, k[i], printed[i + 1])
    BY <2>1 DEF Reads
  <2>3. k[i + 1].structured =
          IF solver \notin {"codex", "gemini"} /\ printed[i + 1].kind = "result"
               /\ k[i].structured = <<>>
          THEN printed[i + 1].structured ELSE k[i].structured
    BY <2>1, <2>2, DialectStep
  <2>4. FirstStructured(k[i].structured, i) /\ (k[i].structured = <<>> => None(i))
    BY <1>3
  <2>5. \A l \in 1 .. i + 1 : l \in 1 .. i \/ l = i + 1
    OBVIOUS
  <2>6. CASE k[i].structured # <<>>
    <3>1. k[i + 1].structured = k[i].structured
      BY <2>3, <2>6
    <3>2. FirstStructured(k[i].structured, i + 1)
      BY <2>4 DEF FirstStructured
    <3> QED
      BY <2>1, <2>6, <3>1, <3>2
  <2>7. CASE k[i].structured = <<>> /\ solver \notin {"codex", "gemini"}
                /\ printed[i + 1].kind = "result"
    <3>1. k[i + 1].structured = printed[i + 1].structured
      BY <2>3, <2>7
    <3>2. \A l \in 1 .. i + 1 - 1 : printed[l].kind = "result" => printed[l].structured = <<>>
      BY <2>1, <2>4, <2>7
    <3>3. PICK j : j = i + 1 /\ j \in 1 .. j
      OBVIOUS
    <3>4. FirstStructured(k[i + 1].structured, i + 1)
      <4>1. /\ printed[j].kind = "result" /\ printed[j].structured = k[j].structured
            /\ \A l \in 1 .. j - 1 : printed[l].kind = "result" => printed[l].structured = <<>>
        BY <2>7, <3>1, <3>2, <3>3
      <4>2. FirstStructured(k[j].structured, j)
        BY <2>7, <3>3, <4>1, Zenon DEF FirstStructured
      <4> QED
        BY <3>3, <4>2
    <3>5. k[i + 1].structured = <<>> => None(i + 1)
      BY <2>4, <2>5, <2>7, <3>1
    <3> QED
      BY <2>1, <3>4, <3>5
  <2>8. CASE k[i].structured = <<>>
               /\ ~(solver \notin {"codex", "gemini"} /\ printed[i + 1].kind = "result")
    <3>1. k[i + 1].structured = <<>>
      BY <2>3, <2>8
    <3>2. None(i + 1)
      BY <2>4, <2>5, <2>8
    <3> QED
      BY <2>1, <3>1, <3>2 DEF FirstStructured
  <2> QED
    BY <2>6, <2>7, <2>8
<1> HIDE DEF S, n
<1>4. n \in S
  <2>1. 0 .. n \subseteq S
    BY <1>1, <1>2, <1>3, UpTo
  <2> QED
    BY <1>1, <2>1
<1> QED
  BY <1>4 DEF S, n

\* What is found in a text.
LEMMA ParseReads ==
  ASSUME NEW text \in Seq(Pieces), ParseAgentPayload(text).kind \in {"abort", "payload"}
  PROVE  ReadFrom(text, ParseAgentPayload(text))
<1> DEFINE result == ParseAgentPayload(text)
           fenced == First(text, {"fenced"})
           brace == First(text, {"brace", "bare"})
<1>1. text # <<>>
  BY DEF ParseAgentPayload, Failed
<1>2. CASE text[1].form = "abort"
  BY <1>1, <1>2 DEF ParseAgentPayload, Failed, ReadFrom
<1>3. CASE text[1].form # "abort"
  <2>1. /\ Found(text) # 0 /\ text[Found(text)].form # "brace"
        /\ result = [kind |-> "payload", payload |-> text[Found(text)].payload]
    BY <1>1, <1>3 DEF ParseAgentPayload, Failed
  <2>2. result.kind = "payload" /\ result.payload = text[Found(text)].payload
    BY <2>1
  <2>3. CASE fenced # 0
    <3>1. Found(text) = fenced
      BY <2>3 DEF Found
    <3>2. /\ fenced \in DOMAIN text /\ text[fenced].form = "fenced"
          /\ \A j \in 1 .. fenced - 1 : text[j].form # "fenced"
      BY <2>3, FirstIsFirst
    <3> QED
      BY <1>1, <1>3, <2>2, <3>1, <3>2 DEF ReadFrom
  <2>4. CASE fenced = 0
    <3>1. Found(text) = brace /\ brace # 0
      BY <2>1, <2>4 DEF Found
    <3>2. \A j \in DOMAIN text : text[j].form # "fenced"
      <4>1. ~(fenced \in DOMAIN text)
        BY <2>4
      <4> QED
        BY <4>1, FirstIsFirst
    <3>3. /\ brace \in DOMAIN text /\ text[brace].form \in {"brace", "bare"}
          /\ \A j \in 1 .. brace - 1 : text[j].form \notin {"brace", "bare"}
      BY <3>1, FirstIsFirst
    <3> QED
      BY <1>1, <1>3, <2>1, <2>2, <3>1, <3>2, <3>3 DEF ReadFrom
  <2> QED
    BY <2>3, <2>4
<1> QED
  BY <1>2, <1>3

\* What an agent's run comes to has been read from all that was printed.
LEMMA OutcomeIsRead ==
  ASSUME printed \in Seq(Events), solver \in AgentCLIs, NEW runFailed \in BOOLEAN,
         AgentOutcome(runFailed).kind \in {"abort", "payload"}
  PROVE  /\ ~runFailed /\ Len(printed) <= BufferLines /\ Readable(printed)
         /\ ReadWell(AgentOutcome(runFailed))
<1> DEFINE n == Len(printed)
           output == StructuredOutput(solver, KeptLines)
<1>1. n \in Nat /\ BufferLines \in Nat
  BY SolverAssumption
<1>2. /\ ~Truncated /\ ~runFailed /\ Readable(KeptLines)
      /\ AgentOutcome(runFailed) = ParseAgentPayload(output.text)
  BY DEF AgentOutcome, Failed
<1>3. n <= BufferLines
  BY <1>1, <1>2 DEF Truncated
<1>4. KeptLines = printed
  <2>1. KeptLines = SubSeq(printed, 1, n)
    BY <1>1, <1>3 DEF KeptLines
  <2> QED
    BY <2>1
<1>5. PICK k : /\ Reads(solver, printed, k)
               /\ StructuredOutput(solver, printed) = Concluded(k[n])
  BY FoldReads
<1>6. output = IF k[n].text = <<>> THEN [k[n] EXCEPT !.text = k[n].structured] ELSE k[n]
  BY <1>4, <1>5 DEF Concluded
<1>7. k[n] \in Outputs
  <2>1. n \in 0 .. n /\ k \in [0 .. n -> Outputs]
    BY <1>1, <1>5 DEF Reads
  <2> QED
    BY <2>1
<1>8. output.text = IF k[n].text = <<>> THEN k[n].structured ELSE k[n].text
  BY <1>6, <1>7 DEF Outputs
<1>9. k[n].text = MessageTexts
  BY <1>5, JoinedTexts, LastMessage
<1>10. FirstStructured(k[n].structured, n)
  BY <1>5, StructuredIsFirst
<1> DEFINE result == AgentOutcome(runFailed)
<1>11. output.text \in Seq(Pieces) /\ ReadFrom(output.text, result)
  <2>1. output.text \in Seq(Pieces)
    BY <1>7, <1>8 DEF Outputs
  <2> HIDE DEF output
  <2> QED
    BY <1>2, <2>1, ParseReads
<1>12. ReadWell(result)
  <2> HIDE DEF output, result, n
  <2>1. CASE MessageTexts # <<>>
    BY <1>8, <1>9, <1>11, <2>1 DEF ReadWell
  <2>2. CASE MessageTexts = <<>>
    <3>1. ReadFrom(k[n].structured, result) /\ k[n].structured # <<>>
      BY <1>8, <1>9, <1>11, <2>2 DEF ReadFrom
    <3>2. solver \in {"claude", "qwen"}
      BY <1>10, <3>1, SolverAssumption DEF FirstStructured
    <3>3. PICK j \in 1 .. n :
            /\ printed[j].kind = "result" /\ printed[j].structured = k[n].structured
            /\ \A l \in 1 .. j - 1 : printed[l].kind = "result" => printed[l].structured = <<>>
      BY <1>10, <3>1 DEF FirstStructured
    <3>4. j \in DOMAIN printed
      BY DEF n
    <3>5. ReadFrom(printed[j].structured, result)
      BY <3>1, <3>3
    <3> QED
      BY <2>2, <3>2, <3>3, <3>4, <3>5, Zenon DEF ReadWell
  <2> QED
    BY <2>1, <2>2
<1> QED
  BY <1>2, <1>3, <1>4, <1>12

-----------------------------------------------------------------------------
(* The steps.                                                              *)

LEMMA ParseType ==
  ASSUME NEW text \in Seq(Pieces)
  PROVE  ParseAgentPayload(text) \in Results
<1>1. ASSUME Found(text) # 0 PROVE text[Found(text)].payload \in Payloads \union {NoPayload}
  <2>1. Found(text) \in DOMAIN text
    BY <1>1, FirstIsFirst DEF Found
  <2>2. text[Found(text)] \in Pieces
    BY <2>1
  <2> QED
    BY <2>2 DEF Pieces
<1> QED
  BY <1>1 DEF ParseAgentPayload, Failed, Results, Failures

LEMMA AgentType ==
  ASSUME printed \in Seq(Events), NEW runFailed \in BOOLEAN
  PROVE  AgentOutcome(runFailed) \in Results
<1> DEFINE m == IF Len(printed) < BufferLines THEN Len(printed) ELSE BufferLines
           output == StructuredOutput(solver, KeptLines)
<1>1. KeptLines \in Seq(Events)
  <2>1. m \in 0 .. Len(printed)
    BY SolverAssumption
  <2>2. \A i \in 1 .. m : i \in 1 .. Len(printed)
    BY <2>1
  <2> QED
    BY <2>1, <2>2 DEF KeptLines
<1>2. PICK k : /\ Reads(solver, KeptLines, k)
               /\ StructuredOutput(solver, KeptLines) = Concluded(k[Len(KeptLines)])
  BY <1>1, FoldReads
<1>3. k[Len(KeptLines)] \in Outputs
  <2>1. Len(KeptLines) \in 0 .. Len(KeptLines) /\ k \in [0 .. Len(KeptLines) -> Outputs]
    BY <1>1, <1>2 DEF Reads
  <2> QED
    BY <2>1
<1>4. output.text \in Seq(Pieces)
  BY <1>2, <1>3 DEF Outputs, Concluded
<1> HIDE DEF output
<1>5. ParseAgentPayload(output.text) \in Results
  BY <1>4, ParseType
<1>6. \A how \in Failures : Failed(how) \in Results
  BY DEF Failed, Results
<1> QED
  BY <1>5, <1>6 DEF AgentOutcome, Failures, output

LEMMA EndpointType ==
  ASSUME NEW a \in Answers
  PROVE  LLMOutcome(a) \in Results
<1>1. LLMMessageText(a) \in Seq(Pieces)
  BY SolverAssumption DEF LLMMessageText
<1>2. ParseAgentPayload(LLMMessageText(a)) \in Results
  BY <1>1, ParseType
<1>3. \A how \in Failures : Failed(how) \in Results
  BY DEF Failed, Results
<1> QED
  BY <1>2, <1>3 DEF LLMOutcome, Failures

LEMMA TypeInit == SolverInit => SolverTypeOK
<1>1. MaxOutput \in Nat /\ <<>> \in Seq(Events) /\ Len(<<>>) <= MaxOutput
  BY SolverAssumption
<1>2. Failed("none") \in Results
  BY DEF Failed, Results
<1> HIDE DEF Failed, Results
<1> QED
  BY <1>1, <1>2 DEF SolverInit, SolverTypeOK

LEMMA TypeStep == SolverTypeOK /\ [SolverNext]_solverVars => SolverTypeOK'
<1> SUFFICES ASSUME SolverTypeOK, [SolverNext]_solverVars PROVE SolverTypeOK'
  OBVIOUS
<1>1. \A how \in Failures : Failed(how) \in Results
  BY DEF Failed, Results
<1>2. CASE PrepareFails \/ EndpointFails
  BY <1>1, <1>2 DEF PrepareFails, EndpointFails, Finish, SolverTypeOK, Failures
<1>3. CASE Prepare
  BY <1>3 DEF Prepare, SolverTypeOK
<1>4. ASSUME NEW e \in Events, PrintLine(e) PROVE SolverTypeOK'
  <2>1. printed' = Append(printed, e) /\ Len(printed) < MaxOutput /\ printed \in Seq(Events)
    BY <1>4 DEF PrintLine, SolverTypeOK
  <2>2. printed' \in Seq(Events) /\ Len(printed') <= MaxOutput
    BY <2>1, SolverAssumption
  <2> QED
    BY <1>4, <2>2 DEF PrintLine, SolverTypeOK
<1>5. CASE StartHelper \/ HelperEnds \/ ContextDone \/ Kill
  BY <1>5 DEF StartHelper, HelperEnds, ContextDone, Kill, SolverTypeOK
<1>6. ASSUME NEW status \in {"exited", "failed"}, ChildExits(status) PROVE SolverTypeOK'
  BY <1>6 DEF ChildExits, SolverTypeOK
<1>7. CASE RunReturns
  <2>1. PICK cancelled \in BOOLEAN : Finish(AgentOutcome(child # "exited" \/ cancelled))
    BY <1>7 DEF RunReturns
  <2>2. AgentOutcome(child # "exited" \/ cancelled) \in Results
    BY AgentType DEF SolverTypeOK
  <2> QED
    BY <1>7, <2>1, <2>2 DEF RunReturns, Finish, SolverTypeOK
<1>8. ASSUME NEW a \in Answers, EndpointAnswers(a) PROVE SolverTypeOK'
  BY <1>8, EndpointType DEF EndpointAnswers, Finish, SolverTypeOK
<1>9. CASE UNCHANGED solverVars
  BY <1>9 DEF solverVars, SolverTypeOK
<1> QED
  BY <1>2, <1>3, <1>4, <1>5, <1>6, <1>7, <1>8, <1>9 DEF SolverNext

\* Every reachable state of the solver is well-typed; in particular a result is a
\* failure, an abort or a payload, whatever an agent prints.
THEOREM SolverTypeCorrect == SolverSpec => []SolverTypeOK
  BY TypeInit, TypeStep, PTL DEF SolverSpec

-----------------------------------------------------------------------------
(* The invariant.                                                          *)

\* There is no child of an endpoint.
ChildOK == solver = Endpoint => child = "none" /\ ~helper

\* After an answer nothing of it can change: the caller is done, and nobody is
\* left to print.
SettledOK ==
  solved.kind \in {"abort", "payload"} =>
    /\ progress = "end"
    /\ solver # Endpoint => child = "exited" /\ ~helper

AnswerOK == SettledOK /\ OnlyFromWholeOutput /\ AnswerIsTheAgents
IInv == SolverTypeOK /\ ChildOK /\ AnswerOK

\* The texts are those of the lines.
LEMMA SameMessages ==
  ASSUME UNCHANGED <<solver, printed>>
  PROVE  UNCHANGED MessageTexts
<1>1. UNCHANGED Texts
  BY DEF Texts
<1>2. UNCHANGED LastText
  BY Zenon DEF LastText, SelectLastInSeq
<1> HIDE DEF Texts, LastText
<1> QED
  BY <1>1, <1>2, Zenon DEF MessageTexts

\* The answer stays what it was when the output and the result do.
LEMMA SameAnswer ==
  ASSUME IInv, UNCHANGED <<solver, printed, answer, solved>>,
         solved.kind \in {"abort", "payload"} =>
           UNCHANGED progress /\ (child = "exited" /\ ~helper => UNCHANGED <<child, helper>>)
  PROVE  AnswerOK'
<1>1. SettledOK' /\ OnlyFromWholeOutput'
  BY DEF IInv, AnswerOK, SettledOK, OnlyFromWholeOutput, Readable
<1>2. UNCHANGED MessageTexts
  BY SameMessages
<1>3. AnswerIsTheAgents'
  BY <1>2 DEF IInv, AnswerOK, AnswerIsTheAgents, ReadWell, ReadFrom
<1> QED
  BY <1>1, <1>3 DEF AnswerOK

\* Neither does a result that is no answer break anything.
LEMMA NoAnswerKeeps ==
  ASSUME solved'.kind \notin {"abort", "payload"}
  PROVE  AnswerOK'
  BY DEF AnswerOK, SettledOK, OnlyFromWholeOutput, AnswerIsTheAgents

LEMMA ReturnKeeps ==
  ASSUME IInv, RunReturns
  PROVE  AnswerOK'
<1>1. PICK cancelled \in BOOLEAN : Finish(AgentOutcome(child # "exited" \/ cancelled))
  BY DEF RunReturns
<1> DEFINE runFailed == child # "exited" \/ cancelled
<1>2. /\ solved' = AgentOutcome(runFailed) /\ progress' = "end" /\ ~helper
      /\ UNCHANGED <<solver, child, helper, printed>> /\ printed \in Seq(Events)
      /\ solver \in AgentCLIs \union {Endpoint}
  BY <1>1 DEF RunReturns, Finish, IInv, SolverTypeOK
<1>3. CASE solved'.kind \notin {"abort", "payload"}
  BY <1>3, NoAnswerKeeps
<1>4. CASE solved'.kind \in {"abort", "payload"} /\ solver \in AgentCLIs
  <2> HIDE DEF runFailed
  <2>1. /\ ~runFailed /\ Len(printed) <= BufferLines /\ Readable(printed)
        /\ ReadWell(AgentOutcome(runFailed))
    <3>1. runFailed \in BOOLEAN
      BY DEF runFailed
    <3> QED
      BY <1>2, <1>4, <3>1, OutcomeIsRead
  <2>2. child = "exited"
    BY <2>1 DEF runFailed
  <2>3. SettledOK' /\ OnlyFromWholeOutput'
    BY <1>2, <2>1, <2>2 DEF SettledOK, OnlyFromWholeOutput, Readable
  <2>4. UNCHANGED MessageTexts
    BY <1>2, SameMessages
  <2>5. ReadWell(solved)'
    BY <1>2, <2>1, <2>4 DEF ReadWell, ReadFrom
  <2> QED
    BY <2>3, <2>5 DEF AnswerOK, AnswerIsTheAgents
<1>5. CASE solver = Endpoint
  BY <1>5 DEF IInv, ChildOK, RunReturns
<1> QED
  BY <1>2, <1>3, <1>4, <1>5

LEMMA InvStep == IInv /\ [SolverNext]_solverVars => IInv'
<1> SUFFICES ASSUME IInv, [SolverNext]_solverVars PROVE IInv'
  OBVIOUS
<1>1. SolverTypeOK'
  BY TypeStep DEF IInv
<1>2. ChildOK'
  <2>1. CASE UNCHANGED <<solver, child, helper>>
    BY <2>1 DEF IInv, ChildOK
  <2>2. CASE Prepare \/ StartHelper \/ HelperEnds \/ Kill
    BY <2>2 DEF IInv, ChildOK, Prepare, StartHelper, HelperEnds, Kill
  <2>3. ASSUME NEW status, ChildExits(status) PROVE ChildOK'
    BY <2>3 DEF IInv, ChildOK, ChildExits
  <2> QED
    BY <2>1, <2>2, <2>3
    DEF SolverNext, PrepareFails, PrintLine, ContextDone, RunReturns, EndpointAnswers,
        EndpointFails, solverVars
<1>3. AnswerOK'
  <2>1. CASE PrepareFails \/ EndpointFails
    BY <2>1, NoAnswerKeeps DEF PrepareFails, EndpointFails, Finish, Failed
  <2>2. CASE Prepare \/ StartHelper \/ HelperEnds \/ ContextDone \/ Kill
    BY <2>2, SameAnswer
    DEF IInv, AnswerOK, SettledOK, Prepare, StartHelper, HelperEnds, ContextDone, Kill
  <2>3. ASSUME NEW status, ChildExits(status) PROVE AnswerOK'
    BY <2>3, SameAnswer DEF ChildExits
  <2>4. ASSUME NEW e, PrintLine(e) PROVE AnswerOK'
    <3>1. child = "running" \/ helper
      BY <2>4 DEF PrintLine
    <3>2. solved.kind \notin {"abort", "payload"}
      BY <3>1 DEF IInv, AnswerOK, SettledOK, ChildOK
    <3> QED
      BY <2>4, <3>2, NoAnswerKeeps DEF PrintLine
  <2>5. CASE RunReturns
    BY <2>5, ReturnKeeps
  <2>6. ASSUME NEW a, EndpointAnswers(a) PROVE AnswerOK'
    <3>1. /\ solver' = Endpoint /\ answer' = a /\ progress' = "end"
          /\ solved' = LLMOutcome(a)
      BY <2>6 DEF EndpointAnswers, Finish
    <3>2. solved'.kind = "payload" => a.fits /\ a.ok /\ a.body = "message"
      BY <3>1 DEF LLMOutcome, Failed
    <3> QED
      BY <3>1, <3>2 DEF AnswerOK, SettledOK, OnlyFromWholeOutput, AnswerIsTheAgents
  <2>7. CASE UNCHANGED solverVars
    BY <2>7, SameAnswer DEF solverVars
  <2> QED
    BY <2>1, <2>2, <2>3, <2>4, <2>5, <2>6, <2>7 DEF SolverNext
<1> QED
  BY <1>1, <1>2, <1>3 DEF IInv

LEMMA InvInit == SolverInit => IInv
<1>1. SolverInit => solved.kind = "none"
  BY DEF SolverInit, Failed
<1> QED
  BY <1>1, TypeInit
  DEF SolverInit, IInv, ChildOK, AnswerOK, SettledOK, OnlyFromWholeOutput, AnswerIsTheAgents

LEMMA Invariance == SolverSpec => []IInv
  BY InvInit, InvStep, PTL DEF SolverSpec

\* No payload is ever taken from an output that was cut off, did not decode or came
\* from a run that failed, nor from half an answer of the endpoint.
THEOREM NothingFromHalfOutput == SolverSpec => []OnlyFromWholeOutput
<1>1. IInv => OnlyFromWholeOutput
  BY DEF IInv, AnswerOK
<1> QED
  BY <1>1, Invariance, PTL

\* However many lines an agent and its helpers print and in whatever order, what is
\* returned is what the agent said where its dialect says it.
THEOREM AnswersAreTheAgents == SolverSpec => []AnswerIsTheAgents
<1>1. IInv => AnswerIsTheAgents
  BY DEF IInv, AnswerOK
<1> QED
  BY <1>1, Invariance, PTL
=============================================================================
