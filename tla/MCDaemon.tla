------------------------------ MODULE MCDaemon ------------------------------
(* Instances of Daemon for TLC. *)
EXTENDS Daemon

CONSTANTS d1, d2

TwoDefinitions == {d1, d2}
OneDefinition == {d1}

BothManagers == {"launchd", "systemd"}
EveryCommand == AllCommands
EveryFault == AllFaults
NoFault == {}
=============================================================================
