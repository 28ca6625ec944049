--------------------------- MODULE MCCredentials ---------------------------
(* Instances of Credentials for TLC. *)
EXTENDS Credentials

CONSTANTS p1, p2

OneByOne == {p1}
Together == {p1, p2}

SingleUse == {TRUE}
AnyServer == BOOLEAN

EveryCommand == AllCommands
RunAndLogout == {"run", "logout"}

\* Nothing, an API key, a login with and without a known expiry, or an access
\* token alone, the logins also next to an older API key.
AnyFile ==
  { c \in [access : 0 .. 1, refresh : 0 .. 1, expiry : 0 .. 1, key : BOOLEAN] :
      c.refresh + c.expiry > 0 => c.access = 1 }
LoggedIn == { [access |-> 1, refresh |-> 1, expiry |-> 1, key |-> FALSE] }

EveryFault == AllFaults
NoFault == {}
=============================================================================
