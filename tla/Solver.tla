------------------------------- MODULE Solver -------------------------------
(***************************************************************************)
(* One assignment solved (internal/sah/runner.go, llm_runner.go,           *)
(* output.go): an agent CLI is a child whose output is read through a      *)
(* bounded buffer until every process that holds the pipe has let go of    *)
(* it, and is killed when the time is over or the run is cancelled; an LLM *)
(* endpoint is one request. The output is then read in the dialect of the  *)
(* agent, and a payload or an abort is looked for in its text.             *)
(*                                                                         *)
(* A text is the sequence of the pieces it is joined from: a note, one     *)
(* with a brace that opens no JSON, an abort, a JSON object, bare or in a  *)
(* fence. An event is one line of the output, or one that does not decode. *)
(***************************************************************************)
EXTENDS Naturals, SequencesExt

CONSTANTS
  AgentCLIs,    \* the agents to choose from: codex, gemini, claude, qwen
  Endpoint,     \* the LLM endpoint
  Payloads,     \* JSON objects
  NoPayload,
  Events,       \* the lines that an agent may print
  Answers,      \* the answers that an endpoint may give
  MaxOutput,    \* how many lines are printed at most
  BufferLines   \* how many of them fit the buffer

Forms == {"note", "brace", "abort", "bare", "fenced"}
Pieces == [form : Forms, payload : Payloads \union {NoPayload}]

ASSUME SolverAssumption ==
  /\ Endpoint \notin AgentCLIs
  /\ AgentCLIs \subseteq {"codex", "gemini", "claude", "qwen"}
  /\ NoPayload \notin Payloads
  /\ Events \subseteq
       [kind : {"text", "error", "result", "broken"}, text : Seq(Pieces),
        structured : Seq(Pieces), failed : BOOLEAN]
  /\ Answers \subseteq
       [ok : BOOLEAN, fits : BOOLEAN, body : {"broken", "error", "no_choices", "message"},
        content : Seq(Pieces), parsed : Seq(Pieces)]
  /\ MaxOutput \in Nat /\ BufferLines \in Nat

VARIABLES
  solver,    \* the agent or the endpoint
  context,   \* whether the time is over or the run cancelled
  progress,  \* how far the solver's caller is
  child,     \* the agent's process
  helper,    \* whether a process that it started holds its output open
  printed,   \* the lines written to the pipe
  answer,    \* the endpoint's answer
  solved     \* what SolveAssignment returns

solverVars == <<solver, context, progress, child, helper, printed, answer, solved>>

Failures == {"unprepared", "exceeded", "failed", "unreadable", "agent_error", "empty", "no_json"}
Results == [kind : Failures \union {"none", "abort", "payload"},
             payload : Payloads \union {NoPayload}]
Failed(how) == [kind |-> how, payload |-> NoPayload]
NoAnswer == [ok |-> FALSE, fits |-> FALSE, body |-> "broken", content |-> <<>>, parsed |-> <<>>]

SolverTypeOK ==
  /\ solver \in AgentCLIs \union {Endpoint}
  /\ context \in {"live", "done"}
  /\ progress \in {"start", "waiting", "end"}
  /\ child \in {"none", "running", "exited", "failed", "killed"}
  /\ helper \in BOOLEAN
  /\ printed \in Seq(Events) /\ Len(printed) <= MaxOutput
  /\ answer \in Answers \union {NoAnswer}
  /\ solved \in Results

SolverInit ==
  /\ solver \in AgentCLIs \union {Endpoint}
  /\ context = "live"
  /\ progress = "start"
  /\ child = "none"
  /\ helper = FALSE
  /\ printed = <<>>
  /\ answer = NoAnswer
  /\ solved = Failed("none")

(***************************************************************************)
(* The dialects: each folds the lines into a text and whether the agent    *)
(* has reported an error.                                                  *)
(***************************************************************************)
NoOutput == [text |-> <<>>, structured |-> <<>>, error |-> FALSE]

\* Mutant: the messages of Codex are joined, as those of the others are.
CodexEventJoined(output, e) ==
  IF e.kind = "text" THEN [output EXCEPT !.text = @ \o e.text]
  ELSE IF e.kind = "error" /\ output.text = <<>> THEN [output EXCEPT !.error = TRUE]
  ELSE output

CodexEvent(output, e) ==
  IF e.kind = "text" THEN [output EXCEPT !.text = e.text]
  ELSE IF e.kind = "error" /\ output.text = <<>> THEN [output EXCEPT !.error = TRUE]
  ELSE output

GeminiEvent(output, e) ==
  IF e.kind = "text" THEN [output EXCEPT !.text = @ \o e.text]
  ELSE IF e.kind = "result" THEN [output EXCEPT !.error = @ \/ e.failed]
  ELSE output

AssistantEvent(output, e) ==
  IF e.kind = "text" THEN [output EXCEPT !.text = @ \o e.text]
  ELSE IF e.kind = "result"
  THEN [output EXCEPT !.error = @ \/ e.failed,
                      !.structured = IF @ = <<>> THEN e.structured ELSE @]
  ELSE output

Dialect(agent, output, e) ==
  IF agent = "codex" THEN CodexEvent(output, e)
  ELSE IF agent = "gemini" THEN GeminiEvent(output, e)
  ELSE AssistantEvent(output, e)

StructuredOutput(agent, lines) ==
  LET output == FoldLeft(LAMBDA o, e : Dialect(agent, o, e), NoOutput, lines)
  IN  IF output.text = <<>> THEN [output EXCEPT !.text = output.structured] ELSE output

\* Where the first piece of a form is, or 0. A fenced block is tried before the
\* first brace.
First(text, forms) == SelectInSeq(text, LAMBDA t : t.form \in forms)
Found(text) ==
  IF First(text, {"fenced"}) # 0 THEN First(text, {"fenced"})
  ELSE First(text, {"brace", "bare"})

ParseAgentPayload(text) ==
  IF text = <<>> THEN Failed("empty")
  ELSE IF text[1].form = "abort" THEN Failed("abort")
  ELSE IF Found(text) = 0 \/ text[Found(text)].form = "brace" THEN Failed("no_json")
  ELSE [kind |-> "payload", payload |-> text[Found(text)].payload]

\* What is kept of the output, and whether some of it was not.
KeptLines == SubSeq(printed, 1, IF Len(printed) < BufferLines THEN Len(printed) ELSE BufferLines)
\* Mutant: one line too many goes unnoticed.
TruncatedLate == Len(printed) > BufferLines + 1

Truncated == Len(printed) > BufferLines
Readable(lines) == \A i \in DOMAIN lines : lines[i].kind # "broken"

AgentOutcome(runFailed) ==
  LET output == StructuredOutput(solver, KeptLines)
  IN  IF Truncated THEN Failed("exceeded")
      ELSE IF runFailed THEN Failed("failed")
      ELSE IF ~Readable(KeptLines) THEN Failed("unreadable")
      ELSE IF output.error /\ output.text = <<>> THEN Failed("agent_error")
      ELSE ParseAgentPayload(output.text)

LLMMessageText(a) == IF a.content # <<>> THEN a.content ELSE a.parsed

LLMOutcome(a) ==
  IF ~a.fits THEN Failed("exceeded")
  ELSE IF ~a.ok THEN Failed("failed")
  ELSE IF a.body # "message" \/ LLMMessageText(a) = <<>> THEN Failed("unreadable")
  ELSE ParseAgentPayload(LLMMessageText(a))

(***************************************************************************)
(* Steps.                                                                  *)
(***************************************************************************)
Finish(result) ==
  /\ progress' = "end"
  /\ solved' = result

\* The agent is not found, no workspace can be made, the assignment asks for
\* nothing, or the time is over before anything is started.
PrepareFails ==
  /\ progress = "start"
  /\ Finish(Failed("unprepared"))
  /\ UNCHANGED <<solver, context, child, helper, printed, answer>>

Prepare ==
  /\ progress = "start" /\ context = "live"
  /\ progress' = "waiting"
  /\ child' = IF solver = Endpoint THEN "none" ELSE "running"
  /\ UNCHANGED <<solver, context, helper, printed, answer, solved>>

PrintLine(e) ==
  /\ child = "running" \/ helper
  /\ Len(printed) < MaxOutput
  /\ printed' = Append(printed, e)
  /\ UNCHANGED <<solver, context, progress, child, helper, answer, solved>>

StartHelper ==
  /\ child = "running" /\ ~helper
  /\ helper' = TRUE
  /\ UNCHANGED <<solver, context, progress, child, printed, answer, solved>>

HelperEnds ==
  /\ helper
  /\ helper' = FALSE
  /\ UNCHANGED <<solver, context, progress, child, printed, answer, solved>>

ChildExits(status) ==
  /\ child = "running"
  /\ child' = status
  /\ UNCHANGED <<solver, context, progress, helper, printed, answer, solved>>

ContextDone ==
  /\ context = "live" /\ progress # "end"
  /\ context' = "done"
  /\ UNCHANGED <<solver, progress, child, helper, printed, answer, solved>>

\* Mutant: the command is made without the context.
KillNever == FALSE

\* Only the child is killed, not what it has started.
Kill ==
  /\ context = "done" /\ child = "running"
  /\ child' = "killed"
  /\ UNCHANGED <<solver, context, progress, helper, printed, answer, solved>>

\* Run waits for the child and then for the end of its output. A child that
\* exits as the time is over may count as cancelled or not.
RunReturns ==
  /\ progress = "waiting"
  /\ child \in {"exited", "failed", "killed"} /\ ~helper
  /\ \E cancelled \in {FALSE, context = "done"} :
       Finish(AgentOutcome(child # "exited" \/ cancelled))
  /\ UNCHANGED <<solver, context, child, helper, printed, answer>>

EndpointAnswers(a) ==
  /\ progress = "waiting" /\ solver = Endpoint
  /\ answer' = a
  /\ Finish(LLMOutcome(a))
  /\ UNCHANGED <<solver, context, child, helper, printed>>

\* The connection fails, or is given up because the time is over.
EndpointFails ==
  /\ progress = "waiting" /\ solver = Endpoint
  /\ Finish(Failed("failed"))
  /\ UNCHANGED <<solver, context, child, helper, printed, answer>>

GiveUpEndpoint == context = "done" /\ EndpointFails

SolverNext ==
  \/ PrepareFails \/ Prepare
  \/ \E e \in Events : PrintLine(e)
  \/ StartHelper \/ HelperEnds
  \/ \E status \in {"exited", "failed"} : ChildExits(status)
  \/ ContextDone \/ Kill \/ RunReturns
  \/ \E a \in Answers : EndpointAnswers(a)
  \/ EndpointFails

\* The caller's own steps, and the timer, are taken; that an agent ends, what
\* it starts, or an endpoint that answers, is not.
SolverFairness ==
  /\ WF_solverVars(Prepare \/ PrepareFails) /\ WF_solverVars(ContextDone)
  /\ WF_solverVars(Kill) /\ WF_solverVars(RunReturns) /\ WF_solverVars(GiveUpEndpoint)

SolverSpec == SolverInit /\ [][SolverNext]_solverVars /\ SolverFairness

(***************************************************************************)
(* Properties.                                                             *)
(***************************************************************************)
\* A payload comes from all that the agent and its helpers have printed, none
\* of it dropped or unreadable, after an exit that reported success, or from a
\* whole successful answer of the endpoint (executeAgent, executeLLM).
OnlyFromWholeOutput ==
  solved.kind = "payload" =>
    \/ /\ child = "exited" /\ ~helper
       /\ Len(printed) <= BufferLines /\ Readable(printed)
    \/ solver = Endpoint /\ answer.ok /\ answer.fits /\ answer.body = "message"

\* The texts an agent printed, in order.
Texts ==
  [i \in DOMAIN printed |-> IF printed[i].kind = "text" THEN printed[i].text ELSE <<>>]
LastText == SelectLastInSeq(printed, LAMBDA e : e.kind = "text")
MessageTexts ==
  IF solver # "codex" THEN FlattenSeq(Texts)
  ELSE IF LastText = 0 THEN <<>> ELSE printed[LastText].text

\* What is read from a text: an abort only at its very beginning, else the first
\* fenced object, or the one at its first brace when nothing is fenced.
ReadFrom(text, result) ==
  /\ text # <<>>
  /\ result.kind = "abort" <=> text[1].form = "abort"
  /\ result.kind = "payload" =>
       \E i \in DOMAIN text :
         /\ text[i].payload = result.payload
         /\ \/ text[i].form = "fenced" /\ \A j \in 1 .. i - 1 : text[j].form # "fenced"
            \/ /\ text[i].form = "bare"
               /\ \A j \in 1 .. i - 1 : text[j].form \notin {"brace", "bare"}
               /\ \A j \in DOMAIN text : text[j].form # "fenced"

ReadWell(result) ==
  \/ ReadFrom(MessageTexts, result)
  \/ /\ MessageTexts = <<>> /\ solver \in {"claude", "qwen"}
     /\ \E i \in DOMAIN printed :
          /\ printed[i].kind = "result" /\ ReadFrom(printed[i].structured, result)
          /\ \A j \in 1 .. i - 1 : printed[j].kind = "result" => printed[j].structured = <<>>

\* Codex gives its answer in its last message, the others in all of theirs, or,
\* having said nothing, Claude and Qwen in the first structured output of a
\* result (the folds of parseStructuredOutput).
AnswerIsTheAgents ==
  solver # Endpoint /\ solved.kind \in {"abort", "payload"} => ReadWell(solved)

\* When the time is over or the run is cancelled, the call comes back, unless
\* something that the agent has started keeps its output open (executeAgent
\* sets no WaitDelay).
SolveEnds == context = "done" ~> (progress = "end" \/ helper)
=============================================================================
