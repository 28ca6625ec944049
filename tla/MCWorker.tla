------------------------------ MODULE MCWorker ------------------------------
(* Instances of Worker for TLC. *)
EXTENDS Worker

CONSTANTS a1, a2, a3

OneAgent == {<<a1>>}
Backends == {<<a1>>, <<LLM>>}
Rotations == {<<a1, a2>>, <<a1, a2, a3>>, <<LLM>>}
BothBackends == {a1, LLM}
EveryAgent == {a1, a2, a3, LLM}

OnceOrNot == BOOLEAN
Continuous == {FALSE}

EveryForm == AllForms
ReleasableForms == {"linked", "id_only", "unsupported"}
LinkedForm == {"linked"}
UidForm == {"uid_only"}

ServerFaults == AllFaults \ {"key_message"}
LocalFaults == {"expire", "signal", "solver", "abort", "key_message"}
KeyMessage == {"key_message"}
SolverFault == {"solver"}
=============================================================================
