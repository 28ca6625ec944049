------------------------------ MODULE MCSetup ------------------------------
(* Instances of Setup for TLC. *)
EXTENDS Setup

CONSTANTS codex, gemini, d1, d2, u1, u2

BothAgents == <<codex, gemini>>
OneMachine == { [a \in {codex, gemini} |-> IF a = codex THEN d2 ELSE d1] }
TwoShells == {{d1}, {d1, d2}}

NoSelection == { NoFlags, [NoFlags EXCEPT !.url = u2] }

SomeFlags ==
  { NoFlags,
    [NoFlags EXCEPT !.agent = codex], [NoFlags EXCEPT !.agent = gemini, !.model = TRUE],
    [NoFlags EXCEPT !.agents = <<gemini, codex, gemini>>],
    [NoFlags EXCEPT !.backend = "agent", !.rotate = TRUE],
    [NoFlags EXCEPT !.llm = {"url", "model"}, !.url = u2] }
=============================================================================
