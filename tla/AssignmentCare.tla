--------------------------- MODULE AssignmentCare ---------------------------
(***************************************************************************)
(* What a worker promises the server about the assignments it is handed:   *)
(* it takes one at a time, always lets go of the one it holds, and lets go *)
(* of an assignment that is still open only by releasing it or by leaving  *)
(* it pinned, which is the one way an assignment can stay open until it    *)
(* expires.                                                                *)
(***************************************************************************)
CONSTANTS Assignments, None

VARIABLES
  holding,    \* the assignment being worked on, or None
  open,       \* the assignments the server counts as open
  pinned,     \* the open assignments nobody works on
  delivered   \* the assignments with an accepted submission

vars == <<holding, open, pinned, delivered>>

Init ==
  /\ holding = None
  /\ open = {}
  /\ pinned = {}
  /\ delivered = {}

Take(a) ==
  /\ holding = None
  /\ a \notin open \cup delivered
  /\ holding' = a
  /\ open' = open \cup {a}
  /\ UNCHANGED <<pinned, delivered>>

\* The server hands out an assignment that the worker does not get to know.
Misplace(a) ==
  /\ holding = None
  /\ a \notin open \cup delivered
  /\ open' = open \cup {a}
  /\ pinned' = pinned \cup {a}
  /\ UNCHANGED <<holding, delivered>>

Closes(a) ==
  /\ a \in open
  /\ open' = open \ {a}
  /\ pinned' = pinned \ {a}
  /\ delivered' = delivered \cup {a}

\* A submission is accepted that the worker has no answer to (yet).
Deliver(a) == Closes(a) /\ UNCHANGED holding

Expire(a) ==
  /\ a \in open
  /\ open' = open \ {a}
  /\ pinned' = pinned \ {a}
  /\ UNCHANGED <<holding, delivered>>

LetGo ==
  /\ holding # None
  /\ holding' = None
  /\ \/ Closes(holding)
     \/ /\ holding \in open
        /\ open' = open \ {holding}
        /\ UNCHANGED <<pinned, delivered>>
     \/ /\ holding \in open
        /\ pinned' = pinned \cup {holding}
        /\ UNCHANGED <<open, delivered>>
     \/ /\ holding \notin open
        /\ UNCHANGED <<open, pinned, delivered>>

Next ==
  \/ \E a \in Assignments : Take(a) \/ Misplace(a) \/ Deliver(a) \/ Expire(a)
  \/ LetGo

Spec == Init /\ [][Next]_vars
FairSpec == Spec /\ WF_vars(LetGo)
=============================================================================
