----------------------------- MODULE RotatingLog -----------------------------
(***************************************************************************)
(* One daemon log and its backups (internal/sah/daemon_logs.go): the       *)
(* worker writes line after line; a line that no longer fits the current   *)
(* file makes the writer rotate the files by renames first. Any call of    *)
(* the file system may fail, and the process may end between any two of    *)
(* them and start again. File 0 is the current one, file i its i-th        *)
(* backup. One process writes at a time; the two logs of a process do not  *)
(* meet.                                                                   *)
(***************************************************************************)
EXTENDS Naturals, FiniteSets

CONSTANTS
  MaxBytes,    \* the size at which a file is full
  MaxBackups,  \* the most backups that a writer may be told to keep
  Sizes,       \* the sizes of a line
  MaxLines,    \* how many lines there are to write
  Faults       \* the calls that may fail, and the crash

AllFaults == {"open", "close", "remove", "rename", "write", "crash"}

ASSUME RotatingLogAssumption ==
  /\ MaxBytes \in Nat \ {0}
  /\ MaxBackups \in Nat
  /\ Sizes \subseteq Nat \ {0}
  /\ MaxLines \in Nat
  /\ Faults \subseteq AllFaults

VARIABLES
  keep,     \* maxBackups
  files,    \* what is on disk
  file,     \* the writer's file: none, open, or closed although it is still set
  size,     \* what the writer takes for the size of the current file
  pc,       \* the call that the writer makes next
  index,    \* the backup it renames next
  line,     \* the number of the last line, in the order they were written
  bytes,    \* the size of that line
  written,  \* the lines that Write has reported as written
  hitch,    \* a call for this line has failed
  moved,    \* how often the current file has become a backup
  torn      \* how many rotations have ended among their renames

diskVars == <<files, moved, torn>>
vars == <<keep, file, size, pc, index, line, bytes, written, hitch, diskVars>>

Indices == 0 .. MaxBackups
Contents == [there : BOOLEAN, holds : SUBSET (1 .. MaxLines), bytes : Nat]
Missing == [there |-> FALSE, holds |-> {}, bytes |-> 0]
Empty == [there |-> TRUE, holds |-> {}, bytes |-> 0]

Steps == {"down", "idle", "open", "close", "remove", "rename", "create", "write"}

TypeOK ==
  /\ keep \in Indices
  /\ files \in [Indices -> Contents]
  /\ file \in {"none", "open", "broken"}
  /\ size \in Nat
  /\ pc \in Steps
  /\ index \in Indices
  /\ line \in 0 .. MaxLines
  /\ bytes \in Nat
  /\ written \in SUBSET (1 .. MaxLines)
  /\ hitch \in BOOLEAN
  /\ moved \in Nat
  /\ torn \in Nat

Init ==
  /\ keep \in Indices
  /\ files = [i \in Indices |-> Missing]
  /\ file = "none"
  /\ size = 0
  /\ pc = "down"
  /\ index = 0
  /\ line = 0
  /\ bytes = 0
  /\ written = {}
  /\ hitch = FALSE
  /\ moved = 0
  /\ torn = 0

-----------------------------------------------------------------------------
(* openCurrentFile without truncation.                                     *)

OpenedAsNew ==  \* mutant: forgets that the file may have content
  /\ file' = "open"
  /\ files' = IF files[0].there THEN files ELSE [files EXCEPT ![0] = Empty]
  /\ size' = 0

Opened ==
  /\ file' = "open"
  /\ files' = IF files[0].there THEN files ELSE [files EXCEPT ![0] = Empty]
  /\ size' = files[0].bytes

\* It may have created the file before it fails.
NotOpened ==
  /\ "open" \in Faults
  /\ files' \in {files, [files EXCEPT ![0].there = TRUE]}
  /\ UNCHANGED <<file, size>>

\* Write gives up, or the process cannot start.
GiveUp(why) ==
  /\ pc' = IF pc = "down" THEN "down" ELSE "idle"
  /\ hitch' = (hitch \/ why)

-----------------------------------------------------------------------------

Full(used, n) == used > 0 /\ used + n > MaxBytes

\* OpenRotatingFileWriter, as the process starts.
Start ==
  /\ pc = "down"
  /\ Opened
  /\ pc' = "idle"
  /\ UNCHANGED <<keep, index, line, bytes, written, hitch, moved, torn>>

\* Write: the next line, of n bytes.
Write(n) ==
  /\ pc = "idle"
  /\ line < MaxLines
  /\ line' = line + 1
  /\ bytes' = n
  /\ hitch' = FALSE
  /\ pc' = IF file = "none" THEN "open"
           ELSE IF Full(size, n) THEN "close" ELSE "write"
  /\ UNCHANGED <<keep, file, size, index, written, diskVars>>

Reopen ==
  /\ pc = "open"
  /\ Opened
  /\ pc' = IF Full(size', bytes) THEN "close" ELSE "write"
  /\ UNCHANGED <<keep, index, line, bytes, written, hitch, moved, torn>>

OpenFails ==
  /\ pc \in {"down", "open"}
  /\ NotOpened
  /\ GiveUp(TRUE)
  /\ UNCHANGED <<keep, index, line, bytes, written, moved, torn>>

-----------------------------------------------------------------------------
(* rotate.                                                                 *)

CloseFull ==
  /\ pc = "close"
  /\ file = "open"
  /\ file' = "none"
  /\ pc' = IF keep = 0 THEN "create" ELSE "remove"
  /\ UNCHANGED <<keep, size, index, line, bytes, written, hitch, diskVars>>

\* A file that could not be closed is closed all the same, and stays set.
CloseFails ==
  /\ pc = "close"
  /\ \/ file = "open" /\ "close" \in Faults /\ GiveUp(TRUE)
     \/ file = "broken" /\ GiveUp(FALSE)
  /\ file' = "broken"
  /\ UNCHANGED <<keep, size, index, line, bytes, written, diskVars>>

RemoveOldestAndSkip ==  \* mutant: the renames begin one backup too late
  /\ pc = "remove"
  /\ files' = [files EXCEPT ![keep] = Missing]
  /\ pc' = "rename"
  /\ index' = IF keep = 1 THEN 0 ELSE keep - 2
  /\ UNCHANGED <<keep, file, size, line, bytes, written, hitch, moved, torn>>

RemoveOldest ==
  /\ pc = "remove"
  /\ files' = [files EXCEPT ![keep] = Missing]
  /\ pc' = "rename"
  /\ index' = keep - 1
  /\ UNCHANGED <<keep, file, size, line, bytes, written, hitch, moved, torn>>

RemoveFails ==
  /\ "remove" \in Faults
  /\ pc = "remove"
  /\ GiveUp(TRUE)
  /\ UNCHANGED <<keep, file, size, index, line, bytes, written, diskVars>>

\* A file that is not there is not renamed, and what it would have replaced stays.
Shifted(i) ==
  IF files[i].there
  THEN [files EXCEPT ![i + 1] = files[i], ![i] = Missing]
  ELSE files

RenameExisting ==  \* mutant: takes a file that is not there for an error
  /\ pc = "rename"
  /\ files' = Shifted(index)
  /\ IF ~ files[index].there
     THEN GiveUp(FALSE) /\ UNCHANGED <<index, moved>>
     ELSE IF index = 0
     THEN pc' = "create" /\ moved' = moved + 1 /\ UNCHANGED <<index, hitch>>
     ELSE index' = index - 1 /\ UNCHANGED <<pc, moved, hitch>>
  /\ UNCHANGED <<keep, file, size, line, bytes, written, torn>>

Rename ==
  /\ pc = "rename"
  /\ files' = Shifted(index)
  /\ IF index = 0
     THEN pc' = "create" /\ moved' = moved + 1 /\ UNCHANGED index
     ELSE index' = index - 1 /\ UNCHANGED <<pc, moved>>
  /\ UNCHANGED <<keep, file, size, line, bytes, written, hitch, torn>>

RenameFailsUnseen ==  \* mutant: goes on as if the file had not been there
  /\ "rename" \in Faults
  /\ pc = "rename"
  /\ IF index = 0
     THEN pc' = "create" /\ moved' = moved + 1 /\ UNCHANGED index
     ELSE index' = index - 1 /\ UNCHANGED <<pc, moved>>
  /\ UNCHANGED <<keep, file, size, line, bytes, written, hitch, files, torn>>

RenameFails ==
  /\ "rename" \in Faults
  /\ pc = "rename"
  /\ torn' = torn + 1
  /\ GiveUp(TRUE)
  /\ UNCHANGED <<keep, file, size, index, line, bytes, written, files, moved>>

\* openCurrentFile with truncation.
Create ==
  /\ pc = "create"
  /\ file' = "open"
  /\ files' = [files EXCEPT ![0] = Empty]
  /\ size' = 0
  /\ pc' = "write"
  /\ UNCHANGED <<keep, index, line, bytes, written, hitch, moved, torn>>

\* It may have truncated the file before it fails.
CreateFails ==
  /\ "open" \in Faults
  /\ pc = "create"
  /\ files' \in {files, [files EXCEPT ![0] = Empty]}
  /\ GiveUp(TRUE)
  /\ UNCHANGED <<keep, file, size, index, line, bytes, written, moved, torn>>

-----------------------------------------------------------------------------

\* n bytes of the line reach the file.
Add(n) ==
  /\ files' = [files EXCEPT ![0] =
       [there |-> TRUE,
        holds |-> IF n = 0 THEN @.holds ELSE @.holds \cup {line},
        bytes |-> @.bytes + n]]
  /\ size' = size + n

AppendLine ==
  /\ pc = "write"
  /\ file = "open"
  /\ Add(bytes)
  /\ pc' = "idle"
  /\ written' = written \cup {line}
  /\ UNCHANGED <<keep, file, index, line, bytes, hitch, moved, torn>>

\* The disk is full after n bytes, or the file is not open.
AppendFails ==
  /\ pc = "write"
  /\ \/ /\ file = "open"
        /\ "write" \in Faults
        /\ \E n \in 0 .. bytes - 1 : Add(n)
        /\ GiveUp(TRUE)
     \/ /\ file = "broken"
        /\ GiveUp(FALSE)
        /\ UNCHANGED <<files, size>>
  /\ UNCHANGED <<keep, file, index, line, bytes, written, moved, torn>>

\* DaemonLogs.Close, as the process ends.
Close ==
  /\ pc = "idle"
  /\ pc' = "down"
  /\ file' = "none"
  /\ size' = 0
  /\ UNCHANGED <<keep, index, line, bytes, written, hitch, diskVars>>

Crash ==
  /\ "crash" \in Faults
  /\ pc # "down"
  /\ pc' = "down"
  /\ file' = "none"
  /\ size' = 0
  /\ hitch' = TRUE
  /\ torn' = IF pc = "rename" THEN torn + 1 ELSE torn
  /\ UNCHANGED <<keep, index, line, bytes, written, files, moved>>

Rotate ==
  \/ CloseFull \/ CloseFails \/ RemoveOldest \/ RemoveFails \/ Rename
  \/ RenameFails \/ Create \/ CreateFails

Next ==
  \/ Start \/ Reopen \/ OpenFails
  \/ \E n \in Sizes : Write(n)
  \/ Rotate
  \/ AppendLine \/ AppendFails
  \/ Close \/ Crash

Spec == Init /\ [][Next]_vars

-----------------------------------------------------------------------------
(* Properties.                                                             *)

Kept == UNION {files[i].holds : i \in Indices}

\* The backups are in order, and what has been lost is older than anything that
\* is left, whatever failed in a rotation and however often it was started
\* again (rotate, daemon_logs.go 122).
OldestGoFirst ==
  /\ \A i, j \in Indices : i < j =>
       \A new \in files[i].holds, old \in files[j].holds : old < new
  /\ \A lost \in written \ Kept, left \in Kept : lost < left

\* No file grows beyond its limit, but for a line that is longer than that and
\* has a file of its own (architecture.md 101: "rotates at 20 MB").
WithinLimit ==
  \A i \in Indices : files[i].bytes > MaxBytes =>
    \E l \in 1 .. MaxLines : files[i].holds = {l}

\* Between two writes there are as many backups as there should be, less one for
\* each rotation that broke off among its renames (architecture.md 101: "each
\* keeping up to 5 older files before pruning the oldest backup").
Backups == {i \in 1 .. keep : files[i].there}
OneBackupPerFailure ==
  pc \in {"idle", "down"} /\ keep > 0 =>
    LET have == Cardinality(Backups) + torn
    IN have >= moved \/ have >= keep

\* A write fails only because one of its own calls did: what an earlier failure
\* has left behind is put right by the next write. The exception is a failed
\* close in a rotation, after which the writer holds on to a closed file until
\* the process ends (daemon_logs.go 124).
WritesRecover ==
  [][pc \notin {"idle", "down"} /\ pc' \in {"idle", "down"} =>
       line \in written' \/ hitch' \/ file = "broken"]_vars
=============================================================================
