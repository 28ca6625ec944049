------------------------------ MODULE LogProofs ------------------------------
(* Theorems about RotatingLog. *)
EXTENDS RotatingLog, FiniteSetTheorems, TLAPS

\* The disk: a file that is not there holds nothing, one without bytes neither,
\* and there is none beyond the last backup.
FilesOK ==
  \A i \in Indices :
    /\ ~ files[i].there => files[i] = Missing
    /\ files[i].bytes = 0 <=> files[i].holds = {}
    /\ i > keep => files[i] = Missing

\* The writer: it knows the size of the file it has open, has none open while it
\* rotates, and what a rename is about to replace is not there.
WriterOK ==
  /\ file = "open" => size = files[0].bytes
  /\ pc \in {"down", "open", "remove", "rename", "create"} => file = "none"
  /\ pc = "write" /\ file = "open" => ~ Full(size, bytes)
  /\ pc \in {"remove", "rename"} => keep > 0
  /\ pc = "rename" => index < keep /\ ~ files[index + 1].there
  /\ pc = "create" => keep = 0 \/ ~ files[0].there

\* The lines: the one at hand is in no file yet.
Busy == pc \notin {"down", "idle"}
LinesOK ==
  /\ Busy => line > 0 /\ bytes > 0
  /\ \A l \in Kept \cup written : l <= line /\ (Busy => l < line)

IInv == TypeOK /\ FilesOK /\ WriterOK /\ LinesOK /\ OldestGoFirst /\ WithinLimit

-----------------------------------------------------------------------------
(* Types.                                                                  *)

LEMMA FileTypes ==
  ASSUME TypeOK
  PROVE  /\ \A i \in Indices : files[i] \in Contents
         /\ 0 \in Indices
         /\ keep \in Nat /\ MaxBackups \in Nat
         /\ Missing \in Contents /\ Empty \in Contents
BY RotatingLogAssumption DEF TypeOK, RotatingLogAssumption, Indices, Contents, Missing, Empty

LEMMA OpenedType == TypeOK /\ Opened => files' \in [Indices -> Contents] /\ size' \in Nat
BY FileTypes DEF Opened, TypeOK, Contents

LEMMA NotOpenedType == TypeOK /\ NotOpened => files' \in [Indices -> Contents]
<1>1. ASSUME TypeOK PROVE [files[0] EXCEPT !.there = TRUE] \in Contents
  BY <1>1, FileTypes DEF Contents
<1>2. [files EXCEPT ![0].there = TRUE] = [files EXCEPT ![0] = [files[0] EXCEPT !.there = TRUE]]
  OBVIOUS
<1> QED
  BY <1>1, <1>2, FileTypes DEF NotOpened, TypeOK

LEMMA AddType ==
  ASSUME TypeOK, NEW n \in Nat, Add(n), line > 0
  PROVE  files' \in [Indices -> Contents] /\ size' \in Nat
<1>1. line \in 1 .. MaxLines /\ size \in Nat
  BY RotatingLogAssumption DEF TypeOK, RotatingLogAssumption
<1>0. files[0] \in Contents
  BY FileTypes
<1> DEFINE added == IF n = 0 THEN files[0].holds ELSE files[0].holds \cup {line}
<1>2. added \in SUBSET (1 .. MaxLines) /\ files[0].bytes + n \in Nat
  BY <1>0, <1>1 DEF Contents
<1>3. files' = [files EXCEPT ![0] =
                  [there |-> TRUE, holds |-> added, bytes |-> files[0].bytes + n]]
  BY DEF Add
<1> HIDE DEF added
<1>4. [there |-> TRUE, holds |-> added, bytes |-> files[0].bytes + n] \in Contents
  BY <1>2 DEF Contents
<1>5. files' \in [Indices -> Contents]
  BY <1>3, <1>4, FileTypes DEF TypeOK
<1>6. size' \in Nat
  BY <1>1 DEF Add
<1> QED
  BY <1>5, <1>6

LEMMA Typing == TypeOK /\ LinesOK /\ WriterOK /\ [Next]_vars => TypeOK'
<1> SUFFICES ASSUME TypeOK, LinesOK, WriterOK, [Next]_vars PROVE TypeOK'
  OBVIOUS
<1> USE RotatingLogAssumption DEF RotatingLogAssumption
<1>1. CASE Start
  BY <1>1, OpenedType DEF Start, Opened, TypeOK, Steps
<1>2. CASE Reopen
  BY <1>2, OpenedType DEF Reopen, Opened, TypeOK, Steps
<1>3. CASE OpenFails
  <2>1. hitch' \in BOOLEAN /\ pc' \in Steps
    BY <1>3 DEF OpenFails, GiveUp, TypeOK, Steps
  <2> QED
    BY <1>3, <2>1, NotOpenedType DEF OpenFails, NotOpened, TypeOK
<1>4. ASSUME NEW n \in Sizes, Write(n) PROVE TypeOK'
  <2>1. pc' \in Steps
    BY <1>4 DEF Write, Steps
  <2>2. line' \in 0 .. MaxLines /\ bytes' \in Nat
    BY <1>4 DEF Write, TypeOK
  <2> QED
    BY <1>4, <2>1, <2>2 DEF Write, TypeOK, diskVars
<1>5. CASE CloseFull
  BY <1>5 DEF CloseFull, TypeOK, Steps, diskVars
<1>6. CASE CloseFails
  <2>1. hitch' \in BOOLEAN /\ pc' \in Steps
    BY <1>6 DEF CloseFails, GiveUp, TypeOK, Steps
  <2> QED
    BY <1>6, <2>1 DEF CloseFails, TypeOK, diskVars
<1>7. CASE RemoveOldest
  BY <1>7, FileTypes DEF RemoveOldest, TypeOK, Steps, WriterOK, Indices
<1>8. CASE RemoveFails
  <2>1. hitch' \in BOOLEAN /\ pc' \in Steps
    BY <1>8 DEF RemoveFails, GiveUp, TypeOK, Steps
  <2> QED
    BY <1>8, <2>1 DEF RemoveFails, TypeOK, diskVars
<1>9. CASE Rename
  <2>1. index \in Indices /\ index + 1 \in Indices /\ keep \in Nat
    BY <1>9 DEF Rename, WriterOK, TypeOK, Indices
  <2>2. files' \in [Indices -> Contents]
    BY <1>9, <2>1, FileTypes DEF Rename, Shifted, TypeOK
  <2>3. pc' \in Steps /\ index' \in Indices /\ moved' \in Nat
    BY <1>9, <2>1 DEF Rename, TypeOK, Steps, Indices
  <2> QED
    BY <1>9, <2>2, <2>3 DEF Rename, TypeOK
<1>10. CASE RenameFails
  <2>1. hitch' \in BOOLEAN /\ pc' \in Steps
    BY <1>10 DEF RenameFails, GiveUp, TypeOK, Steps
  <2> QED
    BY <1>10, <2>1 DEF RenameFails, TypeOK
<1>11. CASE Create
  BY <1>11, FileTypes DEF Create, TypeOK, Steps
<1>12. CASE CreateFails
  <2>1. hitch' \in BOOLEAN /\ pc' \in Steps
    BY <1>12 DEF CreateFails, GiveUp, TypeOK, Steps
  <2> QED
    BY <1>12, <2>1, FileTypes DEF CreateFails, TypeOK
<1>13. CASE AppendLine
  <2>1. line > 0 /\ bytes \in Nat
    BY <1>13 DEF AppendLine, LinesOK, Busy, TypeOK
  <2>2. written' \in SUBSET (1 .. MaxLines)
    BY <1>13, <2>1 DEF AppendLine, TypeOK
  <2> QED
    BY <1>13, <2>1, <2>2, AddType DEF AppendLine, TypeOK, Steps
<1>14. CASE AppendFails
  <2>1. line > 0 /\ bytes \in Nat
    BY <1>14 DEF AppendFails, LinesOK, Busy, TypeOK
  <2>2. hitch' \in BOOLEAN /\ pc' \in Steps
    BY <1>14 DEF AppendFails, GiveUp, TypeOK, Steps
  <2>3. files' \in [Indices -> Contents] /\ size' \in Nat
    <3>1. CASE \E n \in 0 .. bytes - 1 : Add(n)
      BY <3>1, <2>1, AddType
    <3>2. CASE UNCHANGED <<files, size>>
      BY <3>2 DEF TypeOK
    <3> QED
      BY <1>14, <3>1, <3>2 DEF AppendFails
  <2> QED
    BY <1>14, <2>2, <2>3 DEF AppendFails, TypeOK
<1>15. CASE Close
  BY <1>15 DEF Close, TypeOK, Steps, diskVars
<1>16. CASE Crash
  BY <1>16 DEF Crash, TypeOK, Steps
<1>17. CASE UNCHANGED vars
  BY <1>17 DEF vars, TypeOK, diskVars
<1> QED
  BY <1>1, <1>2, <1>3, <1>4, <1>5, <1>6, <1>7, <1>8, <1>9, <1>10, <1>11, <1>12,
     <1>13, <1>14, <1>15, <1>16, <1>17 DEF Next, Rotate

-----------------------------------------------------------------------------
(* What a step does to the disk.                                           *)

DiskOK == FilesOK /\ OldestGoFirst /\ WithinLimit

\* The current file may come into being; nothing else changes.
Touched ==
  /\ \A i \in Indices : /\ files'[i].holds = files[i].holds
                        /\ files'[i].bytes = files[i].bytes
                        /\ files'[i] = files[i] \/ (i = 0 /\ files'[i].there)
  /\ keep' = keep
  /\ written' = written

LEMMA TouchedDisk == TypeOK /\ DiskOK /\ Touched => DiskOK' /\ Kept' \subseteq Kept
<1> SUFFICES ASSUME TypeOK, DiskOK, Touched PROVE DiskOK' /\ Kept' \subseteq Kept
  OBVIOUS
<1>1. keep \in Nat /\ \A i \in Indices : i > keep => i # 0
  BY FileTypes
<1>2. FilesOK'
  BY <1>1 DEF FilesOK, Touched, DiskOK
<1>3. Kept' = Kept
  BY DEF Kept, Touched
<1>4. OldestGoFirst'
  BY <1>3 DEF OldestGoFirst, Touched, DiskOK
<1>5. WithinLimit'
  BY DEF WithinLimit, Touched, DiskOK
<1> QED
  BY <1>2, <1>3, <1>4, <1>5 DEF DiskOK

LEMMA SameFiles ==
  ASSUME UNCHANGED <<files, keep, written>>
  PROVE  Touched
BY DEF Touched

LEMMA OpenedTouches ==
  ASSUME TypeOK, FilesOK, Opened, UNCHANGED <<keep, written>>
  PROVE  Touched /\ size' = files'[0].bytes
<1>1. CASE files[0].there
  BY <1>1 DEF Opened, Touched
<1>2. CASE ~ files[0].there
  <2>1. files[0] = Missing /\ files' = [files EXCEPT ![0] = Empty]
    BY <1>2, FileTypes DEF FilesOK, Opened
  <2> QED
    BY <2>1, FileTypes DEF Opened, Touched, TypeOK, Missing, Empty
<1> QED
  BY <1>1, <1>2

LEMMA NotOpenedTouches ==
  ASSUME TypeOK, NotOpened, UNCHANGED <<keep, written>>
  PROVE  Touched
<1>1. CASE files' = files
  BY <1>1 DEF Touched
<1>2. CASE files' = [files EXCEPT ![0].there = TRUE]
  <2>1. files' = [files EXCEPT ![0] = [files[0] EXCEPT !.there = TRUE]]
    BY <1>2
  <2>2. files[0] \in Contents /\ 0 \in Indices
    BY FileTypes
  <2>3. LET new == [files[0] EXCEPT !.there = TRUE]
        IN new.there /\ new.holds = files[0].holds /\ new.bytes = files[0].bytes
    BY <2>2 DEF Contents
  <2> QED
    BY <2>1, <2>2, <2>3 DEF Touched, TypeOK
<1> QED
  BY <1>1, <1>2 DEF NotOpened

LEMMA RemovedDisk ==
  ASSUME TypeOK, DiskOK, UNCHANGED <<keep, written>>,
         files' = [files EXCEPT ![keep] = Missing]
  PROVE  DiskOK' /\ Kept' \subseteq Kept
<1>1. \A i \in Indices : files'[i] = IF i = keep THEN Missing ELSE files[i]
  BY FileTypes DEF TypeOK
<1>2. keep' = keep /\ written' = written /\ Missing.holds = {} /\ Missing.bytes = 0
  BY DEF Missing
<1>3. FilesOK'
  BY <1>1, <1>2 DEF FilesOK, DiskOK
<1>4. WithinLimit'
  BY <1>1, <1>2, RotatingLogAssumption DEF WithinLimit, DiskOK, RotatingLogAssumption
<1>5. \A i, j \in Indices : i < j =>
         \A new \in files'[i].holds, old \in files'[j].holds : old < new
  BY <1>1, <1>2 DEF OldestGoFirst, DiskOK
<1>6. ASSUME NEW lost \in written \ Kept', NEW left \in Kept' PROVE lost < left
  <2>1. PICK i \in Indices : left \in files'[i].holds
    BY DEF Kept
  <2>2. i # keep /\ left \in files[i].holds
    BY <1>1, <1>2, <2>1
  <2>3. i < keep
    <3>1. i > keep => files[i].holds = {}
      BY <1>2 DEF FilesOK, DiskOK
    <3>2. i \in Nat /\ keep \in Nat
      BY FileTypes DEF Indices
    <3> QED
      BY <2>2, <3>1, <3>2
  <2>4. CASE lost \in Kept
    <3>1. lost \in files[keep].holds
      BY <1>1, <2>4 DEF Kept
    <3> QED
      BY <2>2, <2>3, <3>1 DEF OldestGoFirst, DiskOK, TypeOK
  <2>5. CASE lost \notin Kept
    BY <2>2, <2>5 DEF OldestGoFirst, DiskOK, Kept
  <2> QED
    BY <2>4, <2>5
<1>7. OldestGoFirst'
  BY <1>2, <1>5, <1>6 DEF OldestGoFirst
<1>8. Kept' \subseteq Kept
  BY <1>1, <1>2 DEF Kept
<1> QED
  BY <1>3, <1>4, <1>7, <1>8 DEF DiskOK

LEMMA RenamedDisk ==
  ASSUME TypeOK, DiskOK, UNCHANGED <<keep, written>>,
         NEW i \in Indices, i < keep, ~ files[i + 1].there, files' = Shifted(i)
  PROVE  DiskOK' /\ ~ files'[i].there /\ Kept' \subseteq Kept
<1>1. keep' = keep /\ written' = written /\ Missing.holds = {} /\ Missing.bytes = 0
      /\ ~ Missing.there
  BY DEF Missing
<1>2. i \in Nat /\ i + 1 \in Indices /\ keep \in Nat /\ \A k \in Indices : k \in Nat
  BY FileTypes DEF Indices, TypeOK
<1>3. CASE ~ files[i].there
  BY <1>3, SameFiles, TouchedDisk DEF Shifted
<1>4. CASE files[i].there
  <2>1. \A k \in Indices :
          files'[k] = IF k = i THEN Missing ELSE IF k = i + 1 THEN files[i] ELSE files[k]
    BY <1>2, <1>4 DEF Shifted, TypeOK
  <2>2. files[i + 1].holds = {}
    BY <1>1, <1>2 DEF FilesOK, DiskOK
  <2>3. FilesOK'
    <3>1. files[i] \in Contents /\ i + 1 <= keep
      BY <1>2, FileTypes
    <3>2. ASSUME NEW k \in Indices
          PROVE  /\ ~ files'[k].there => files'[k] = Missing
                 /\ files'[k].bytes = 0 <=> files'[k].holds = {}
                 /\ k > keep => files'[k] = Missing
      <4>1. CASE k = i
        BY <1>1, <2>1, <4>1
      <4>2. CASE k = i + 1
        BY <1>2, <1>4, <2>1, <3>1, <4>2 DEF FilesOK, DiskOK
      <4>3. CASE k # i /\ k # i + 1
        BY <2>1, <4>3 DEF FilesOK, DiskOK
      <4> QED
        BY <4>1, <4>2, <4>3
    <3> QED
      BY <1>1, <3>2 DEF FilesOK
  <2>4. WithinLimit'
    <3>1. ~ Missing.bytes > MaxBytes
      BY <1>1, RotatingLogAssumption DEF RotatingLogAssumption
    <3>2. ASSUME NEW k \in Indices, files'[k].bytes > MaxBytes
          PROVE  \E l \in 1 .. MaxLines : files'[k].holds = {l}
      <4>1. k # i
        BY <2>1, <3>1, <3>2
      <4> QED
        BY <2>1, <3>2, <4>1 DEF WithinLimit, DiskOK
    <3> QED
      BY <3>2 DEF WithinLimit
  <2>5. Kept' = Kept
    <3>1. ASSUME NEW l \in Kept PROVE l \in Kept'
      <4>1. PICK k \in Indices : l \in files[k].holds
        BY DEF Kept
      <4>2. CASE k = i
        BY <1>2, <2>1, <4>1, <4>2 DEF Kept
      <4>3. CASE k # i
        BY <2>1, <2>2, <4>1, <4>3 DEF Kept
      <4> QED
        BY <4>2, <4>3
    <3>2. ASSUME NEW l \in Kept' PROVE l \in Kept
      <4>1. PICK k \in Indices : l \in files'[k].holds
        BY DEF Kept
      <4> QED
        BY <1>1, <2>1, <4>1 DEF Kept
    <3> QED
      BY <3>1, <3>2
  <2>6. ASSUME NEW a \in Indices, NEW b \in Indices, a < b,
               NEW new \in files'[a].holds, NEW old \in files'[b].holds
        PROVE  old < new
    <3>1. a # i /\ b # i
      BY <1>1, <2>1
    <3> DEFINE from(k) == IF k = i + 1 THEN i ELSE k
    <3>2. new \in files[from(a)].holds /\ old \in files[from(b)].holds
      BY <2>1, <3>1
    <3>3. from(a) \in Indices /\ from(b) \in Indices /\ from(a) < from(b)
      BY <1>2, <2>6, <3>1
    <3> HIDE DEF from
    <3> QED
      BY <3>2, <3>3 DEF OldestGoFirst, DiskOK
  <2>7. OldestGoFirst'
    BY <1>1, <2>5, <2>6 DEF OldestGoFirst, DiskOK
  <2> QED
    BY <1>1, <2>1, <2>3, <2>4, <2>5, <2>7 DEF DiskOK
<1> QED
  BY <1>3, <1>4

LEMMA CreatedDisk ==
  ASSUME TypeOK, DiskOK, UNCHANGED <<keep, written>>,
         keep = 0 \/ ~ files[0].there,
         files' = [files EXCEPT ![0] = Empty]
  PROVE  DiskOK' /\ files'[0].bytes = 0 /\ Kept' \subseteq Kept
<1>1. \A i \in Indices : files'[i] = IF i = 0 THEN Empty ELSE files[i]
  BY FileTypes DEF TypeOK
<1>2. keep' = keep /\ written' = written /\ 0 \in Indices
      /\ Empty.there /\ Empty.holds = {} /\ Empty.bytes = 0
      /\ Missing.holds = {} /\ Missing.bytes = 0
  BY FileTypes DEF Missing, Empty
<1>3. CASE ~ files[0].there
  <2>1. files[0] = Missing
    BY <1>2, <1>3 DEF FilesOK, DiskOK
  <2>2. Touched
    BY <1>1, <1>2, <2>1 DEF Touched
  <2> QED
    BY <1>1, <1>2, <2>2, TouchedDisk
<1>4. CASE keep = 0
  <2>1. \A i \in Indices : i # 0 => files[i] = Missing
    BY <1>4 DEF FilesOK, DiskOK, Indices
  <2>2. \A i \in Indices : files'[i].holds = {} /\ files'[i].bytes = 0
    BY <1>1, <1>2, <2>1
  <2>3. OldestGoFirst' /\ WithinLimit'
    BY <2>2, RotatingLogAssumption
       DEF OldestGoFirst, WithinLimit, Kept, RotatingLogAssumption
  <2>4. FilesOK'
    BY <1>1, <1>2, <1>4, <2>1 DEF FilesOK, Indices
  <2> QED
    BY <2>2, <2>3, <2>4, <1>2 DEF DiskOK, Kept
<1> QED
  BY <1>3, <1>4

LEMMA AddedDisk ==
  ASSUME TypeOK, DiskOK, LinesOK, Busy, keep' = keep,
         NEW n \in Nat, n <= bytes, Add(n),
         size = files[0].bytes, ~ Full(size, bytes),
         written' = written \/ (n = bytes /\ written' = written \cup {line})
  PROVE  DiskOK' /\ size' = files'[0].bytes /\ Kept' \subseteq Kept \cup {line}
<1> DEFINE added == IF n = 0 THEN files[0].holds ELSE files[0].holds \cup {line}
<1>1. \A i \in Indices : files'[i] =
        IF i = 0 THEN [there |-> TRUE, holds |-> added, bytes |-> files[0].bytes + n]
        ELSE files[i]
  BY FileTypes DEF Add, TypeOK
<1>4. n = 0 => added = files[0].holds
  OBVIOUS
<1>5. n # 0 => added = files[0].holds \cup {line}
  OBVIOUS
<1> HIDE DEF added
<1>2. /\ files'[0].there /\ files'[0].holds = added /\ files'[0].bytes = files[0].bytes + n
      /\ \A i \in Indices : i # 0 => files'[i] = files[i]
  BY <1>1, FileTypes
<1>3. /\ size \in Nat /\ files[0].bytes \in Nat /\ bytes \in Nat /\ bytes > 0
      /\ line \in 1 .. MaxLines /\ keep \in Nat /\ 0 \in Indices
      /\ MaxBytes \in Nat
  <2>1. files[0] \in Contents /\ 0 \in Indices /\ keep \in Nat
    BY FileTypes
  <2>2. files[0].bytes \in Nat
    BY <2>1 DEF Contents
  <2>3. size \in Nat /\ bytes \in Nat /\ line \in 0 .. MaxLines
    BY DEF TypeOK
  <2>4. bytes > 0 /\ line > 0
    BY DEF LinesOK
  <2>5. MaxBytes \in Nat /\ MaxLines \in Nat
    BY RotatingLogAssumption DEF RotatingLogAssumption
  <2> QED
    BY <2>1, <2>2, <2>3, <2>4, <2>5
<1>6. size' = files'[0].bytes
  BY <1>2 DEF Add
<1>7. FilesOK'
  <2>1. files'[0].bytes = 0 <=> files'[0].holds = {}
    <3>1. files[0].bytes = 0 <=> files[0].holds = {}
      BY <1>3 DEF FilesOK, DiskOK
    <3>2. CASE n = 0
      BY <1>2, <1>3, <1>4, <3>1, <3>2
    <3>3. CASE n # 0
      BY <1>2, <1>3, <1>5, <3>3
    <3> QED
      BY <3>2, <3>3
  <2>2. ~ (0 > keep)
    BY <1>3
  <2>3. ASSUME NEW i \in Indices
        PROVE  /\ ~ files'[i].there => files'[i] = Missing
               /\ files'[i].bytes = 0 <=> files'[i].holds = {}
               /\ i > keep => files'[i] = Missing
    <3>1. CASE i = 0
      BY <1>2, <2>1, <2>2, <3>1
    <3>2. CASE i # 0
      BY <1>2, <3>2 DEF FilesOK, DiskOK
    <3> QED
      BY <3>1, <3>2
  <2> QED
    BY <2>3 DEF FilesOK
<1>8. WithinLimit'
  <2>1. ASSUME files'[0].bytes > MaxBytes PROVE files'[0].holds = {line}
    <3>1. size = 0 \/ size + bytes <= MaxBytes
      BY <1>3 DEF Full
    <3>2. size = 0 /\ n # 0
      BY <1>2, <1>3, <2>1, <3>1
    <3> QED
      BY <1>2, <1>3, <1>5, <3>2 DEF FilesOK, DiskOK
  <2> QED
    BY <1>2, <1>3, <2>1 DEF WithinLimit, DiskOK
<1>9. ASSUME NEW i \in Indices, NEW l \in files'[i].holds
      PROVE  l \in files[i].holds \/ (i = 0 /\ l = line)
  BY <1>2, <1>4, <1>5, <1>9
<1>10. \A i \in Indices : \A l \in files[i].holds : l \in files'[i].holds
  BY <1>2, <1>4, <1>5
<1>11. ASSUME NEW i \in Indices, NEW j \in Indices, i < j,
              NEW new \in files'[i].holds, NEW old \in files'[j].holds
       PROVE  old < new
  <2>1. j # 0
    BY <1>11 DEF Indices
  <2>2. old \in files[j].holds
    BY <1>9, <2>1
  <2>3. CASE new \in files[i].holds
    BY <1>11, <2>2, <2>3 DEF OldestGoFirst, DiskOK
  <2>4. CASE new = line
    BY <2>2, <2>4 DEF LinesOK, Kept
  <2> QED
    BY <1>9, <2>3, <2>4
<1>12. ASSUME NEW lost \in written' \ Kept', NEW left \in Kept' PROVE lost < left
  <2>1. lost \in written /\ lost \notin Kept
    <3>1. lost \notin Kept
      BY <1>10, <1>12 DEF Kept
    <3>2. ASSUME lost = line, n = bytes PROVE FALSE
      <4>1. line \in files'[0].holds
        BY <1>2, <1>3, <1>5, <3>2
      <4> QED
        BY <1>3, <1>12, <3>2, <4>1 DEF Kept
    <3> QED
      BY <1>12, <3>1, <3>2
  <2>2. left \in Kept \/ left = line
    BY <1>9, <1>12 DEF Kept
  <2>3. lost < line
    BY <2>1 DEF LinesOK
  <2> QED
    BY <2>1, <2>2, <2>3 DEF OldestGoFirst, DiskOK
<1>13. OldestGoFirst'
  BY <1>11, <1>12 DEF OldestGoFirst
<1>14. Kept' \subseteq Kept \cup {line}
  BY <1>9 DEF Kept
<1> QED
  BY <1>6, <1>7, <1>8, <1>13, <1>14 DEF DiskOK

-----------------------------------------------------------------------------
(* The inductive invariant.                                                *)

LEMMA LinesKept ==
  ASSUME LinesOK, Kept' \subseteq Kept, UNCHANGED <<written, line, bytes>>, Busy' => Busy
  PROVE  LinesOK'
BY DEF LinesOK

\* A step that leaves the files alone.
LEMMA QuietDisk ==
  ASSUME TypeOK, DiskOK, UNCHANGED <<files, keep, written>>
  PROVE  DiskOK' /\ Kept' \subseteq Kept
BY SameFiles, TouchedDisk

Safe == DiskOK /\ WriterOK /\ LinesOK

LEMMA OpeningStep ==
  ASSUME TypeOK, Safe, Start \/ Reopen \/ OpenFails
  PROVE  Safe'
<1> USE DEF Safe
<1>1. CASE Start
  <2>1. Touched /\ size' = files'[0].bytes
    BY <1>1, OpenedTouches DEF Start, DiskOK
  <2>2. DiskOK' /\ Kept' \subseteq Kept
    BY <2>1, TouchedDisk
  <2>3. WriterOK'
    BY <1>1, <2>1 DEF Start, Opened, WriterOK
  <2>4. LinesOK'
    BY <1>1, <2>2, LinesKept DEF Start, Busy
  <2> QED
    BY <2>2, <2>3, <2>4
<1>2. CASE Reopen
  <2>1. Touched /\ size' = files'[0].bytes
    BY <1>2, OpenedTouches DEF Reopen, DiskOK
  <2>2. DiskOK' /\ Kept' \subseteq Kept
    BY <2>1, TouchedDisk
  <2>3. WriterOK'
    BY <1>2, <2>1 DEF Reopen, Opened, WriterOK, Full
  <2>4. LinesOK'
    BY <1>2, <2>2, LinesKept DEF Reopen, Busy
  <2> QED
    BY <2>2, <2>3, <2>4
<1>3. CASE OpenFails
  <2>1. Touched
    BY <1>3, NotOpenedTouches DEF OpenFails
  <2>2. DiskOK' /\ Kept' \subseteq Kept
    BY <2>1, TouchedDisk
  <2>3. WriterOK'
    BY <1>3 DEF OpenFails, NotOpened, GiveUp, WriterOK
  <2>4. LinesOK'
    BY <1>3, <2>2, LinesKept DEF OpenFails, GiveUp, Busy
  <2> QED
    BY <2>2, <2>3, <2>4
<1> QED
  BY <1>1, <1>2, <1>3

LEMMA WriteStep ==
  ASSUME TypeOK, Safe, NEW n \in Sizes, Write(n)
  PROVE  Safe'
<1> USE DEF Safe
<1>1. DiskOK' /\ Kept' \subseteq Kept
  BY QuietDisk DEF Write, diskVars
<1>2. WriterOK'
  BY DEF Write, WriterOK, diskVars
<1>3. LinesOK'
  <2>1. n > 0 /\ line \in Nat /\ Kept \cup written \subseteq Nat
    <3>1. Sizes \subseteq Nat \ {0} /\ MaxLines \in Nat
      BY RotatingLogAssumption DEF RotatingLogAssumption
    <3>2. \A i \in Indices : files[i].holds \subseteq 1 .. MaxLines
      BY FileTypes DEF Contents
    <3>3. Kept \subseteq Nat /\ written \subseteq Nat /\ line \in Nat
      BY <3>1, <3>2 DEF TypeOK, Kept
    <3>4. n \in Nat /\ n # 0
      BY <3>1
    <3> QED
      BY <3>3, <3>4
  <2>2. line' = line + 1 /\ bytes' = n /\ written' = written
    BY DEF Write
  <2>3. \A l \in Kept \cup written : l < line + 1
    BY <2>1 DEF LinesOK
  <2> QED
    BY <1>1, <2>1, <2>2, <2>3 DEF LinesOK
<1> QED
  BY <1>1, <1>2, <1>3

LEMMA RotateStep ==
  ASSUME TypeOK, Safe, Rotate
  PROVE  Safe'
<1> USE DEF Safe
<1>1. CASE CloseFull \/ CloseFails \/ RemoveFails \/ RenameFails
  <2>1. UNCHANGED <<files, keep, written, line, bytes>>
    BY <1>1 DEF CloseFull, CloseFails, RemoveFails, RenameFails, diskVars
  <2>2. DiskOK' /\ Kept' \subseteq Kept
    BY <2>1, QuietDisk
  <2>3. LinesOK'
    BY <1>1, <2>1, <2>2, LinesKept
       DEF CloseFull, CloseFails, RemoveFails, RenameFails, GiveUp, Busy
  <2>4. WriterOK'
    <3>1. CASE CloseFull
      <4>1. keep \in Nat /\ (keep # 0 => keep > 0)
        BY FileTypes
      <4>2. file' = "none" /\ pc' = (IF keep = 0 THEN "create" ELSE "remove")
        BY <3>1 DEF CloseFull
      <4> QED
        BY <2>1, <4>1, <4>2 DEF WriterOK
    <3>2. CASE CloseFails
      BY <2>1, <3>2 DEF CloseFails, GiveUp, WriterOK
    <3>3. CASE RemoveFails \/ RenameFails
      BY <2>1, <3>3 DEF RemoveFails, RenameFails, GiveUp, WriterOK
    <3> QED
      BY <1>1, <3>1, <3>2, <3>3
  <2> QED
    BY <2>2, <2>3, <2>4
<1>2. CASE RemoveOldest
  <2>1. DiskOK' /\ Kept' \subseteq Kept
    BY <1>2, RemovedDisk DEF RemoveOldest
  <2>2. LinesOK'
    BY <1>2, <2>1, LinesKept DEF RemoveOldest, Busy
  <2>3. WriterOK'
    <3>1. keep \in Nat /\ keep > 0 /\ file = "none" /\ keep \in Indices
      BY <1>2, FileTypes DEF RemoveOldest, WriterOK, TypeOK
    <3>2. ~ files'[keep].there
      BY <1>2, <3>1 DEF RemoveOldest, TypeOK, Missing
    <3>3. index' + 1 = keep /\ index' < keep
      BY <1>2, <3>1 DEF RemoveOldest
    <3> QED
      BY <1>2, <3>1, <3>2, <3>3 DEF RemoveOldest, WriterOK
  <2> QED
    BY <2>1, <2>2, <2>3
<1>3. CASE Rename
  <2>1. index \in Indices /\ index < keep /\ ~ files[index + 1].there
    BY <1>3 DEF Rename, WriterOK, TypeOK
  <2>2. DiskOK' /\ ~ files'[index].there /\ Kept' \subseteq Kept
    BY <1>3, <2>1, RenamedDisk DEF Rename
  <2>3. LinesOK'
    BY <1>3, <2>2, LinesKept DEF Rename, Busy
  <2>4. WriterOK'
    <3>1. file = "none" /\ keep > 0 /\ index \in Nat /\ keep \in Nat
      BY <1>3, <2>1, FileTypes DEF Rename, WriterOK, Indices
    <3>2. CASE index = 0
      BY <1>3, <2>2, <3>1, <3>2 DEF Rename, WriterOK
    <3>3. CASE index # 0
      <4>1. index' = index - 1 /\ index' + 1 = index /\ index' < keep
        BY <1>3, <2>1, <3>1, <3>3 DEF Rename
      <4> QED
        BY <1>3, <2>2, <3>1, <3>3, <4>1 DEF Rename, WriterOK
    <3> QED
      BY <3>2, <3>3
  <2> QED
    BY <2>2, <2>3, <2>4
<1>4. CASE Create
  <2>1. DiskOK' /\ files'[0].bytes = 0 /\ Kept' \subseteq Kept
    BY <1>4, CreatedDisk DEF Create, WriterOK
  <2>2. LinesOK'
    BY <1>4, <2>1, LinesKept DEF Create, Busy
  <2>3. WriterOK'
    BY <1>4, <2>1 DEF Create, WriterOK, Full
  <2> QED
    BY <2>1, <2>2, <2>3
<1>5. CASE CreateFails
  <2>1. UNCHANGED <<keep, written, line, bytes, file>>
    BY <1>5 DEF CreateFails
  <2>2. DiskOK' /\ Kept' \subseteq Kept
    <3>1. CASE files' = files
      BY <2>1, <3>1, QuietDisk
    <3>2. CASE files' = [files EXCEPT ![0] = Empty]
      BY <1>5, <2>1, <3>2, CreatedDisk DEF CreateFails, WriterOK
    <3> QED
      BY <1>5, <3>1, <3>2 DEF CreateFails
  <2>3. LinesOK'
    BY <1>5, <2>1, <2>2, LinesKept DEF CreateFails, GiveUp, Busy
  <2>4. WriterOK'
    BY <1>5, <2>1 DEF CreateFails, GiveUp, WriterOK
  <2> QED
    BY <2>2, <2>3, <2>4
<1> QED
  BY <1>1, <1>2, <1>3, <1>4, <1>5 DEF Rotate

LEMMA AppendStep ==
  ASSUME TypeOK, Safe, AppendLine \/ AppendFails
  PROVE  Safe'
<1> USE DEF Safe
<1>1. Busy /\ line > 0 /\ line \in Nat /\ bytes \in Nat /\ bytes > 0
  <2>1. pc = "write" /\ Busy
    BY DEF AppendLine, AppendFails, Busy
  <2>2. line \in 0 .. MaxLines /\ bytes \in Nat /\ MaxLines \in Nat
    BY RotatingLogAssumption DEF TypeOK, RotatingLogAssumption
  <2> QED
    BY <2>1, <2>2 DEF LinesOK
<1>2. ASSUME NEW n \in Nat, n <= bytes, Add(n), file = "open", pc = "write",
             UNCHANGED <<keep, file, line, bytes>>, pc' = "idle",
             written' = written \/ (n = bytes /\ written' = written \cup {line})
      PROVE  Safe'
  <2>1. size = files[0].bytes /\ ~ Full(size, bytes)
    BY <1>2 DEF WriterOK
  <2>2. DiskOK' /\ size' = files'[0].bytes /\ Kept' \subseteq Kept \cup {line}
    BY <1>1, <1>2, <2>1, AddedDisk
  <2>3. WriterOK'
    BY <1>2, <2>2 DEF WriterOK
  <2>4. LinesOK'
    <3>1. ~ Busy'
      BY <1>2 DEF Busy
    <3>2. Kept' \cup written' \subseteq (Kept \cup written) \cup {line}
      BY <1>2, <2>2
    <3>3. line' = line /\ line <= line
      BY <1>1, <1>2
    <3> QED
      BY <3>1, <3>2, <3>3 DEF LinesOK
  <2> QED
    BY <2>2, <2>3, <2>4
<1>3. CASE AppendLine
  <2>1. UNCHANGED <<keep, file, line, bytes>> /\ Add(bytes) /\ bytes <= bytes
    BY <1>1, <1>3 DEF AppendLine
  <2>2. file = "open" /\ pc = "write" /\ pc' = "idle" /\ written' = written \cup {line}
    BY <1>3 DEF AppendLine
  <2> QED
    BY <1>1, <1>2, <2>1, <2>2
<1>4. CASE AppendFails
  <2>1. UNCHANGED <<keep, file, line, bytes, written>> /\ pc = "write" /\ pc' = "idle"
    BY <1>4 DEF AppendFails, GiveUp
  <2>2. CASE \E n \in 0 .. bytes - 1 : file = "open" /\ Add(n)
    BY <1>1, <1>2, <2>1, <2>2
  <2>3. CASE file = "broken" /\ UNCHANGED <<files, size>>
    <3>1. DiskOK' /\ Kept' \subseteq Kept
      BY <2>1, <2>3, QuietDisk
    <3>2. LinesOK'
      BY <2>1, <3>1, LinesKept DEF Busy
    <3>3. WriterOK'
      BY <2>1, <2>3 DEF WriterOK
    <3> QED
      BY <3>1, <3>2, <3>3
  <2> QED
    BY <1>4, <2>2, <2>3 DEF AppendFails
<1> QED
  BY <1>3, <1>4

LEMMA EndStep ==
  ASSUME TypeOK, Safe, Close \/ Crash \/ UNCHANGED vars
  PROVE  Safe'
<1> USE DEF Safe
<1>1. UNCHANGED <<files, keep, written, line, bytes>>
  BY DEF Close, Crash, vars, diskVars
<1>2. DiskOK' /\ Kept' \subseteq Kept
  BY <1>1, QuietDisk
<1>3. LinesOK'
  BY <1>1, <1>2, LinesKept DEF Close, Crash, vars, Busy
<1>4. WriterOK'
  BY <1>1 DEF Close, Crash, vars, diskVars, WriterOK
<1> QED
  BY <1>2, <1>3, <1>4

LEMMA InitSafe == Init => TypeOK /\ Safe
<1> SUFFICES ASSUME Init PROVE TypeOK /\ Safe
  OBVIOUS
<1>1. MaxBackups \in Nat /\ 0 \in Indices /\ MaxLines \in Nat /\ MaxBytes \in Nat
  BY RotatingLogAssumption DEF RotatingLogAssumption, Indices
<1>2. \A i \in Indices : files[i] = Missing
  BY DEF Init
<1>3. Missing.holds = {} /\ Missing.bytes = 0 /\ ~ Missing.there /\ Missing \in Contents
  BY DEF Missing, Contents
<1>4. TypeOK
  <2>1. files \in [Indices -> Contents]
    BY <1>3 DEF Init
  <2>2. 0 \in 0 .. MaxLines
    BY <1>1
  <2> QED
    BY <1>1, <2>1, <2>2 DEF Init, TypeOK, Steps
<1>5. Kept = {}
  BY <1>2, <1>3 DEF Kept
<1>6. FilesOK /\ WithinLimit
  BY <1>1, <1>2, <1>3 DEF FilesOK, WithinLimit
<1>7. OldestGoFirst
  BY <1>2, <1>3, <1>5 DEF OldestGoFirst, Init
<1>8. WriterOK
  BY DEF Init, WriterOK
<1>9. LinesOK
  BY <1>5 DEF Init, LinesOK, Busy
<1> QED
  BY <1>4, <1>6, <1>7, <1>8, <1>9 DEF Safe, DiskOK

LEMMA Invariance == Spec => [](TypeOK /\ Safe)
<1>1. TypeOK /\ Safe /\ [Next]_vars => (TypeOK /\ Safe)'
  <2> SUFFICES ASSUME TypeOK, Safe, [Next]_vars PROVE TypeOK' /\ Safe'
    OBVIOUS
  <2>1. TypeOK'
    BY Typing DEF Safe
  <2>2. Safe'
    BY OpeningStep, WriteStep, RotateStep, AppendStep, EndStep DEF Next
  <2> QED
    BY <2>1, <2>2
<1> QED
  BY <1>1, InitSafe, PTL DEF Spec

-----------------------------------------------------------------------------
(* Results.                                                                *)

\* Every reachable state of the writer and its files is well-typed
\* (RotatingFileWriter, daemon_logs.go).
THEOREM LogTypeCorrect == Spec => []TypeOK
BY Invariance, PTL

\* For any number of backups, any sizes of lines and any faults, what is lost of
\* the log is older than what is left, and the backups are in order (rotate).
THEOREM RotationForgetsOldest == Spec => []OldestGoFirst
<1>1. Safe => OldestGoFirst
  BY DEF Safe, DiskOK
<1> QED
  BY <1>1, Invariance, PTL

\* No file grows beyond its limit but for one line longer than that (Write).
THEOREM FilesStayWithinLimit == Spec => []WithinLimit
<1>1. Safe => WithinLimit
  BY DEF Safe, DiskOK
<1> QED
  BY <1>1, Invariance, PTL

\* A write fails only for a fault of its own, unless the file could not be closed
\* in an earlier rotation (Write, rotate).
THEOREM FailuresAreTheirOwn == Spec => WritesRecover
<1> DEFINE A == pc \notin {"idle", "down"} /\ pc' \in {"idle", "down"} =>
                  line \in written' \/ hitch' \/ file = "broken"
<1>1. ASSUME TypeOK, Safe, Next PROVE A
  <2>1. CASE Start \/ Reopen \/ OpenFails
    BY <2>1 DEF Start, Reopen, OpenFails, GiveUp
  <2>2. ASSUME NEW n \in Sizes, Write(n) PROVE A
    BY <2>2 DEF Write
  <2>3. CASE Rotate
    BY <2>3 DEF Rotate, CloseFull, CloseFails, RemoveOldest, RemoveFails, Rename,
                RenameFails, Create, CreateFails, GiveUp
  <2>4. CASE AppendLine \/ AppendFails
    BY <2>4 DEF AppendLine, AppendFails, GiveUp
  <2>5. CASE Close \/ Crash
    BY <2>5 DEF Close, Crash
  <2> QED
    BY <1>1, <2>1, <2>2, <2>3, <2>4, <2>5 DEF Next
<1>2. TypeOK /\ Safe /\ [Next]_vars => [A]_vars
  BY <1>1
<1> QED
  BY <1>2, Invariance, PTL DEF Spec, WritesRecover
-----------------------------------------------------------------------------
(* Backups that are missing.                                               *)

\* The numbers of the backups as sets: those missing up to j, those that there are
\* after the i-th has moved up, and after the current file has become the first.
Gap(S, j) == (1 .. j) \ S
Up(S, i) == (S \ {i}) \cup {i + 1}
Fill(S) == S \cup {1}

LEMMA GapFacts ==
  ASSUME NEW k \in Nat, NEW S \in SUBSET (1 .. k), NEW j \in 0 .. k
  PROVE  /\ IsFiniteSet(S) /\ Cardinality(S) \in Nat
         /\ IsFiniteSet(Gap(S, j)) /\ Cardinality(Gap(S, j)) \in Nat
<1>1. IsFiniteSet(1 .. k) /\ IsFiniteSet(1 .. j)
  BY FS_Interval
<1>2. IsFiniteSet(S)
  BY <1>1, FS_Subset
<1>3. Gap(S, j) \in SUBSET (1 .. j)
  BY DEF Gap
<1>4. IsFiniteSet(Gap(S, j))
  BY <1>1, <1>3, FS_Subset
<1> QED
  BY <1>2, <1>4, FS_CardinalityType

\* What is there and what is missing make up the whole.
LEMMA GapComplement ==
  ASSUME NEW k \in Nat, NEW S \in SUBSET (1 .. k)
  PROVE  Cardinality(S) + Cardinality(Gap(S, k)) = k
<1>1. IsFiniteSet(S) /\ IsFiniteSet(Gap(S, k)) /\ Cardinality(S) \in Nat
      /\ Cardinality(Gap(S, k)) \in Nat
  BY GapFacts
<1>2. S \cap Gap(S, k) = {} /\ S \cup Gap(S, k) = 1 .. k
  BY DEF Gap
<1>3. Cardinality(1 .. k) = k
  <2>1. Cardinality(1 .. k) = IF 1 > k THEN 0 ELSE k - 1 + 1
    BY FS_Interval
  <2> QED
    BY <2>1
<1>4. Cardinality(S \cup Gap(S, k))
        = Cardinality(S) + Cardinality(Gap(S, k)) - Cardinality(S \cap Gap(S, k))
  BY <1>1, FS_Union
<1>5. Cardinality(S \cap Gap(S, k)) = 0
  BY <1>2, FS_EmptySet
<1>6. k = Cardinality(S) + Cardinality(Gap(S, k)) - 0
  BY <1>2, <1>3, <1>4, <1>5, Zenon
<1> QED
  BY <1>1, <1>6

\* The oldest backup is removed.
LEMMA GapRemove ==
  ASSUME NEW k \in Nat \ {0}, NEW S \in SUBSET (1 .. k), NEW T, T = S \ {k}
  PROVE  /\ \A j \in T : j < k /\ Gap(T, j) = Gap(S, j)
         /\ Cardinality(T) = IF k \in S THEN Cardinality(S) - 1 ELSE Cardinality(S)
<1>1. IsFiniteSet(S)
  BY GapFacts
<1>2. ASSUME NEW j \in T PROVE j < k /\ Gap(T, j) = Gap(S, j)
  BY DEF Gap
<1> QED
  BY <1>1, <1>2, FS_RemoveElement

\* A backup moves one place up, to where none was.
LEMMA GapShift ==
  ASSUME NEW k \in Nat, NEW S \in SUBSET (1 .. k), NEW i \in 1 .. k,
         i < k, i \in S, i + 1 \notin S
  PROVE  /\ Cardinality(Up(S, i)) = Cardinality(S)
         /\ \A j \in Up(S, i) : j < i => j \in S /\ Gap(Up(S, i), j) = Gap(S, j)
         /\ Cardinality(Gap(Up(S, i), i + 1)) = Cardinality(Gap(S, i)) + 1
         /\ \A j \in Up(S, i) : j > i + 1 =>
              j \in S /\ Cardinality(Gap(Up(S, i), j)) = Cardinality(Gap(S, j))
<1> DEFINE T == Up(S, i)
<1>1. IsFiniteSet(S) /\ Cardinality(S) \in Nat
  BY GapFacts
<1>2. T = (S \ {i}) \cup {i + 1} /\ i + 1 \in 1 .. k
  BY DEF Up
<1> HIDE DEF T
<1>3. Cardinality(T) = Cardinality(S)
  <2>1. IsFiniteSet(S \ {i}) /\ Cardinality(S \ {i}) = Cardinality(S) - 1
    BY <1>1, FS_RemoveElement
  <2>2. Cardinality(T) = Cardinality(S \ {i}) + 1
    BY <1>2, <2>1, FS_AddElement
  <2> QED
    BY <1>1, <2>1, <2>2
<1>4. ASSUME NEW j \in T, j < i PROVE j \in S /\ Gap(T, j) = Gap(S, j)
  BY <1>2, <1>4 DEF Gap
<1>5. Cardinality(Gap(T, i + 1)) = Cardinality(Gap(S, i)) + 1
  <2>1. Gap(T, i + 1) = Gap(S, i) \cup {i} /\ i \notin Gap(S, i)
    BY <1>2 DEF Gap
  <2>2. IsFiniteSet(Gap(S, i))
    <3>1. i \in 0 .. k
      OBVIOUS
    <3> QED
      BY <3>1, GapFacts
  <2> QED
    BY <2>1, <2>2, FS_AddElement
<1>6. ASSUME NEW j \in T, j > i + 1
      PROVE  j \in S /\ Cardinality(Gap(T, j)) = Cardinality(Gap(S, j))
  <2>1. j \in S /\ j \in 0 .. k
    BY <1>2, <1>6
  <2>2. IsFiniteSet(Gap(S, j)) /\ Cardinality(Gap(S, j)) \in Nat
    BY <2>1, GapFacts
  <2>3. i + 1 \in Gap(S, j) /\ i \notin Gap(S, j)
    BY <1>2, <1>6, <2>1 DEF Gap
  <2>4. Gap(T, j) = (Gap(S, j) \ {i + 1}) \cup {i}
    BY <1>2, <1>6, <2>1 DEF Gap
  <2>5. /\ IsFiniteSet(Gap(S, j) \ {i + 1})
        /\ Cardinality(Gap(S, j) \ {i + 1}) = Cardinality(Gap(S, j)) - 1
    BY <2>2, <2>3, FS_RemoveElement
  <2>6. Cardinality(Gap(T, j)) = Cardinality(Gap(S, j) \ {i + 1}) + 1
    BY <2>3, <2>4, <2>5, FS_AddElement
  <2> QED
    BY <2>1, <2>2, <2>5, <2>6
<1> QED
  BY <1>3, <1>4, <1>5, <1>6 DEF T

\* The current file becomes the first backup.
LEMMA GapFill ==
  ASSUME NEW k \in Nat \ {0}, NEW S \in SUBSET (1 .. k), 1 \notin S
  PROVE  /\ Cardinality(Fill(S)) = Cardinality(S) + 1
         /\ Cardinality(Gap(Fill(S), 1)) = 0
         /\ \A j \in Fill(S) : j # 1 =>
              j \in S /\ Cardinality(Gap(Fill(S), j)) = Cardinality(Gap(S, j)) - 1
<1> USE DEF Fill
<1> DEFINE T == Fill(S)
<1>1. IsFiniteSet(S)
  BY GapFacts
<1>2. Cardinality(T) = Cardinality(S) + 1
  BY <1>1, FS_AddElement
<1>3. Gap(T, 1) = {}
  BY DEF Gap
<1>4. ASSUME NEW j \in T, j # 1
      PROVE  j \in S /\ Cardinality(Gap(T, j)) = Cardinality(Gap(S, j)) - 1
  <2>1. j \in S /\ j \in 0 .. k /\ j > 1
    BY <1>4
  <2>2. IsFiniteSet(Gap(S, j))
    BY <2>1, GapFacts
  <2>3. Gap(T, j) = Gap(S, j) \ {1} /\ 1 \in Gap(S, j)
    BY <2>1 DEF Gap
  <2> QED
    BY <2>1, <2>2, <2>3, FS_RemoveElement
<1> QED
  BY <1>2, <1>3, <1>4, FS_EmptySet

-----------------------------------------------------------------------------
(* The backups that a rotation leaves.                                     *)

\* During the renames there is one more gap below the backups already moved.
Hole(j) == IF pc = "rename" /\ j > index THEN 1 ELSE 0

\* The file that a rotation is about to move is there; below a backup there is at
\* most one gap for each rotation that broke off.
CurrentOK == file = "open" \/ pc \in {"remove", "rename"} => files[0].there
GapsOK == \A j \in Backups : Cardinality(Gap(Backups, j)) <= torn + Hole(j)
CountOK ==
  keep > 0 =>
    LET have == Cardinality(Backups) + torn
    IN have >= moved \/ have + Hole(keep) >= keep
BackupsOK == GapsOK /\ CountOK

LEMMA BackupFacts ==
  ASSUME TypeOK
  PROVE  /\ keep \in Nat /\ torn \in Nat /\ moved \in Nat /\ index \in Nat
         /\ Backups \in SUBSET (1 .. keep)
         /\ Cardinality(Backups) \in Nat
         /\ \A j \in Backups : Cardinality(Gap(Backups, j)) \in Nat /\ Hole(j) \in {0, 1}
         /\ Hole(keep) \in {0, 1}
<1>1. keep \in Nat /\ torn \in Nat /\ moved \in Nat /\ index \in Nat
  BY RotatingLogAssumption DEF TypeOK, Indices, RotatingLogAssumption
<1>2. Backups \in SUBSET (1 .. keep)
  BY DEF Backups
<1>3. \A j \in Backups : j \in 0 .. keep
  BY <1>1, <1>2
<1> QED
  BY <1>1, <1>2, <1>3, GapFacts DEF Hole

LEMMA NextCurrent == TypeOK /\ WriterOK /\ CurrentOK /\ [Next]_vars => CurrentOK'
<1> SUFFICES ASSUME TypeOK, WriterOK, CurrentOK, [Next]_vars PROVE CurrentOK'
  OBVIOUS
<1> USE DEF CurrentOK
<1>0. 0 \in Indices /\ files \in [Indices -> Contents] /\ Empty.there
  BY FileTypes DEF TypeOK, Empty
<1>1. CASE Start \/ Reopen
  <2>1. files'[0].there
    BY <1>0, <1>1 DEF Start, Reopen, Opened
  <2> QED
    BY <2>1
<1>2. CASE OpenFails
  BY <1>2 DEF OpenFails, NotOpened, GiveUp, WriterOK
<1>3. ASSUME NEW n \in Sizes, Write(n) PROVE CurrentOK'
  BY <1>3 DEF Write, diskVars
<1>4. CASE CloseFull
  BY <1>4 DEF CloseFull, diskVars
<1>5. CASE CloseFails
  BY <1>5 DEF CloseFails, GiveUp, diskVars
<1>6. CASE RemoveFails \/ RenameFails
  BY <1>6 DEF RemoveFails, RenameFails, GiveUp, diskVars
<1>7. CASE RemoveOldest
  <2>1. keep # 0 /\ files'[0] = files[0]
    BY <1>0, <1>7, FileTypes DEF RemoveOldest, WriterOK
  <2> QED
    BY <1>7, <2>1 DEF RemoveOldest
<1>8. CASE Rename
  <2>1. file' = "none"
    BY <1>8 DEF Rename, WriterOK
  <2>2. CASE index = 0
    BY <1>8, <2>1, <2>2 DEF Rename
  <2>3. CASE index # 0
    <3>1. index \in Nat /\ index + 1 # 0
      BY BackupFacts
    <3>2. files'[0] = files[0]
      BY <1>0, <1>8, <2>3, <3>1 DEF Rename, Shifted
    <3> QED
      BY <1>8, <3>2 DEF Rename
  <2> QED
    BY <2>2, <2>3
<1>9. CASE Create
  BY <1>0, <1>9 DEF Create
<1>10. CASE CreateFails
  BY <1>10 DEF CreateFails, GiveUp, WriterOK
<1>11. CASE AppendLine \/ AppendFails
  <2>1. pc = "write" /\ pc' = "idle" /\ file' = file
    BY <1>11 DEF AppendLine, AppendFails, GiveUp
  <2>2. ASSUME NEW n, Add(n) PROVE files'[0].there
    BY <1>0, <2>2 DEF Add
  <2>3. CASE \E n : Add(n)
    BY <2>2, <2>3
  <2>4. CASE UNCHANGED files
    BY <2>1, <2>4
  <2> QED
    BY <1>11, <2>3, <2>4 DEF AppendLine, AppendFails
<1>12. CASE Close \/ Crash \/ UNCHANGED vars
  BY <1>12 DEF Close, Crash, vars, diskVars
<1> QED
  BY <1>1, <1>2, <1>3, <1>4, <1>5, <1>6, <1>7, <1>8, <1>9, <1>10, <1>11, <1>12
     DEF Next, Rotate

\* A step that leaves the backups alone and ends no renames, unless it counts them
\* as broken off.
LEMMA QuietBackups ==
  ASSUME TypeOK, BackupsOK, Backups' = Backups, UNCHANGED <<keep, moved>>,
         pc' # "rename",
         \/ pc # "rename" /\ torn' = torn
         \/ torn' = torn + 1
  PROVE  BackupsOK'
<1>1. torn \in Nat /\ moved \in Nat /\ Cardinality(Backups) \in Nat /\ keep \in Nat
      /\ \A j \in Backups : Cardinality(Gap(Backups, j)) \in Nat
  BY BackupFacts
<1>2. \A j : Hole(j)' = 0
  BY DEF Hole
<1>3. \A j : torn + Hole(j) <= torn'
  BY <1>1 DEF Hole
<1>4. torn' \in Nat /\ \A j : Hole(j) \in {0, 1}
  BY <1>1 DEF Hole
<1>5. GapsOK'
  <2>1. SUFFICES ASSUME NEW j \in Backups PROVE Cardinality(Gap(Backups, j)) <= torn' + 0
    BY <1>2 DEF GapsOK, Gap
  <2>2. Cardinality(Gap(Backups, j)) <= torn + Hole(j) /\ torn + Hole(j) <= torn'
    BY <1>3 DEF BackupsOK, GapsOK
  <2>3. Cardinality(Gap(Backups, j)) \in Nat /\ Hole(j) \in {0, 1}
    BY <1>1, <1>4
  <2> QED
    BY <1>1, <1>4, <2>2, <2>3
<1>6. CountOK'
  <2>1. SUFFICES ASSUME keep > 0
                 PROVE  \/ Cardinality(Backups) + torn' >= moved
                        \/ Cardinality(Backups) + torn' + 0 >= keep
    BY <1>2 DEF CountOK
  <2>2. \/ Cardinality(Backups) + torn >= moved
        \/ Cardinality(Backups) + torn + Hole(keep) >= keep
    BY <2>1 DEF BackupsOK, CountOK
  <2>3. torn + Hole(keep) <= torn' /\ Hole(keep) \in {0, 1}
    BY <1>3, <1>4
  <2> HIDE DEF Hole
  <2> QED
    BY <1>1, <1>4, <2>2, <2>3
<1> QED
  BY <1>5, <1>6 DEF BackupsOK

LEMMA RemoveBackups ==
  ASSUME TypeOK, WriterOK, BackupsOK, RemoveOldest
  PROVE  BackupsOK'
<1>1. keep \in Nat \ {0} /\ torn \in Nat /\ moved \in Nat /\ keep \in Indices
      /\ Backups \in SUBSET (1 .. keep) /\ Cardinality(Backups) \in Nat
  BY BackupFacts DEF RemoveOldest, WriterOK, TypeOK
<1>2. /\ files' = [files EXCEPT ![keep] = Missing]
      /\ pc = "remove" /\ pc' = "rename" /\ index' = keep - 1
      /\ UNCHANGED <<keep, moved, torn>>
  BY DEF RemoveOldest
<1>3. Backups' = Backups \ {keep}
  <2>1. \A i \in 1 .. keep : i \in Indices
    BY <1>1, FileTypes DEF Indices
  <2>2. \A i \in 1 .. keep : files'[i] = IF i = keep THEN Missing ELSE files[i]
    BY <1>2, <2>1 DEF TypeOK
  <2>3. ~ Missing.there
    BY DEF Missing
  <2> QED
    BY <1>1, <1>2, <2>2, <2>3 DEF Backups
<1>4. /\ \A j \in Backups' : j < keep /\ Gap(Backups', j) = Gap(Backups, j)
      /\ Cardinality(Backups') =
           IF keep \in Backups THEN Cardinality(Backups) - 1 ELSE Cardinality(Backups)
  BY <1>1, <1>3, GapRemove
<1>5. \A j : Hole(j) = 0
  BY <1>2 DEF Hole
<1>6. GapsOK'
  <2>1. SUFFICES ASSUME NEW j \in Backups'
                 PROVE  Cardinality(Gap(Backups', j)) <= torn + Hole(j)'
    BY <1>2 DEF GapsOK, Gap
  <2>2. j \in Backups /\ j < keep /\ Gap(Backups', j) = Gap(Backups, j) /\ j \in Nat
    BY <1>1, <1>3, <1>4
  <2>3. Hole(j)' = 0
    BY <1>1, <1>2, <2>2 DEF Hole
  <2>4. Cardinality(Gap(Backups, j)) <= torn + 0
    BY <1>5, <2>2 DEF BackupsOK, GapsOK
  <2> QED
    BY <2>2, <2>3, <2>4
<1>7. CountOK'
  <2>1. Hole(keep)' = 1
    BY <1>1, <1>2 DEF Hole
  <2>2. SUFFICES \/ Cardinality(Backups') + torn >= moved
                 \/ Cardinality(Backups') + torn + 1 >= keep
    BY <1>2, <2>1 DEF CountOK
  <2>3. CASE keep \in Backups
    <3>1. Cardinality(Gap(Backups, keep)) <= torn + 0
      BY <1>5, <2>3 DEF BackupsOK, GapsOK
    <3>2. Cardinality(Backups) + Cardinality(Gap(Backups, keep)) = keep
      BY <1>1, GapComplement
    <3>3. Cardinality(Gap(Backups, keep)) \in Nat
      BY <2>3, BackupFacts
    <3> QED
      BY <1>1, <1>4, <2>3, <3>1, <3>2, <3>3
  <2>4. CASE keep \notin Backups
    <3>1. \/ Cardinality(Backups) + torn >= moved
          \/ Cardinality(Backups) + torn + 0 >= keep
      BY <1>1, <1>5 DEF BackupsOK, CountOK
    <3> QED
      BY <1>1, <1>4, <2>4, <3>1
  <2> QED
    BY <2>3, <2>4
<1> QED
  BY <1>6, <1>7 DEF BackupsOK

LEMMA RenameBackups ==
  ASSUME TypeOK, WriterOK, CurrentOK, BackupsOK, Rename
  PROVE  BackupsOK'
<1>1. keep \in Nat \ {0} /\ torn \in Nat /\ moved \in Nat /\ index \in Nat
      /\ Backups \in SUBSET (1 .. keep) /\ Cardinality(Backups) \in Nat
      /\ index < keep /\ index \in Indices /\ index + 1 \in Indices
  BY BackupFacts, FileTypes DEF Rename, WriterOK, TypeOK, Indices
<1>0. keep \in Nat \ {0} /\ keep \in Nat /\ Backups \in SUBSET (1 .. keep)
  BY <1>1
<1>2. pc = "rename" /\ files' = Shifted(index) /\ UNCHANGED <<keep, torn>>
      /\ files[0].there /\ ~ files[index + 1].there
  BY DEF Rename, WriterOK, CurrentOK
<1>3. \A j \in Backups : Cardinality(Gap(Backups, j)) <= torn + Hole(j)
                         /\ Cardinality(Gap(Backups, j)) \in Nat /\ j \in Nat
  BY <1>1, BackupFacts DEF BackupsOK, GapsOK
<1>4. index + 1 \notin Backups
  BY <1>2 DEF Backups
<1>5. \A i \in 1 .. keep : i \in Indices
  BY <1>1, FileTypes DEF Indices, TypeOK
<1>6. \/ Cardinality(Backups) + torn >= moved
      \/ Cardinality(Backups) + torn + 1 >= keep
  <2>1. Hole(keep) = 1
    BY <1>1, <1>2 DEF Hole
  <2> QED
    BY <1>1, <2>1 DEF BackupsOK, CountOK
<1>7. CASE index = 0
  <2>1. pc' = "create" /\ moved' = moved + 1
    BY <1>7 DEF Rename
  <2>2. Backups' = Fill(Backups)
    <3>1. files' = [files EXCEPT ![1] = files[0], ![0] = Missing]
      BY <1>2, <1>7 DEF Shifted
    <3>2. \A i \in 1 .. keep : files'[i] = IF i = 1 THEN files[0] ELSE files[i]
      BY <1>1, <1>5, <3>1 DEF TypeOK
    <3> QED
      BY <1>1, <1>2, <3>2 DEF Backups, Fill
  <2>3. /\ Cardinality(Backups') = Cardinality(Backups) + 1
        /\ Cardinality(Gap(Backups', 1)) = 0
        /\ \A j \in Backups' : j # 1 =>
             /\ j \in Backups
             /\ Cardinality(Gap(Backups', j)) = Cardinality(Gap(Backups, j)) - 1
    <3>1. 1 \notin Backups
      BY <1>4, <1>7
    <3> QED
      BY <1>0, <2>2, <3>1, GapFill
  <2>4. \A j : Hole(j)' = 0
    BY <2>1 DEF Hole
  <2>5. GapsOK'
    <3>1. SUFFICES ASSUME NEW j \in Backups'
                   PROVE  Cardinality(Gap(Backups', j)) <= torn + 0
      BY <1>2, <2>4 DEF GapsOK, Gap
    <3>2. CASE j = 1
      BY <1>1, <2>3, <3>2
    <3>3. CASE j # 1
      <4>1. Hole(j) \in {0, 1}
        BY DEF Hole
      <4>2. /\ Cardinality(Gap(Backups', j)) = Cardinality(Gap(Backups, j)) - 1
            /\ Cardinality(Gap(Backups, j)) <= torn + Hole(j)
            /\ Cardinality(Gap(Backups, j)) \in Nat
        BY <1>3, <2>3, <3>3
      <4> QED
        BY <1>1, <4>1, <4>2
    <3> QED
      BY <3>2, <3>3
  <2>6. CountOK'
    <3>1. SUFFICES \/ Cardinality(Backups') + torn >= moved + 1
                   \/ Cardinality(Backups') + torn + 0 >= keep
      BY <1>2, <2>1, <2>4 DEF CountOK
    <3> QED
      BY <1>1, <1>6, <2>3
  <2> QED
    BY <2>5, <2>6 DEF BackupsOK
<1>8. CASE index # 0
  <2>1. pc' = "rename" /\ index' = index - 1 /\ moved' = moved
    BY <1>2, <1>8 DEF Rename
  <2>2. Hole(keep)' = 1
    BY <1>1, <1>2, <2>1 DEF Hole
  <2>0. index \in 1 .. keep /\ index + 1 \in 1 .. keep
    BY <1>1, <1>8
  <2>3. index \in 1 .. keep /\ index + 1 \in 1 .. keep /\ (index \in Backups <=> files[index].there)
    BY <1>1, <1>8 DEF Backups
  <2>4. CASE index \notin Backups
    <3>1. Backups' = Backups
      BY <1>2, <2>3, <2>4 DEF Backups, Shifted
    <3>2. GapsOK'
      <4>1. SUFFICES ASSUME NEW j \in Backups
                     PROVE  Cardinality(Gap(Backups, j)) <= torn + Hole(j)'
        BY <1>2, <3>1 DEF GapsOK, Gap
      <4>2. j # index /\ j \in Nat
        BY <1>3, <2>4
      <4>3. Hole(j)' = Hole(j)
        BY <1>1, <1>2, <2>1, <4>2 DEF Hole
      <4> QED
        BY <1>3, <4>3
    <3>3. CountOK'
      <4>1. SUFFICES \/ Cardinality(Backups) + torn >= moved
                     \/ Cardinality(Backups) + torn + 1 >= keep
        BY <1>2, <2>1, <2>2, <3>1 DEF CountOK
      <4> QED
        BY <1>6
    <3> QED
      BY <3>2, <3>3 DEF BackupsOK
  <2>5. CASE index \in Backups
    <3>1. Backups' = Up(Backups, index)
      <4>1. files' = [files EXCEPT ![index + 1] = files[index], ![index] = Missing]
        BY <1>2, <2>3, <2>5 DEF Shifted
      <4>2. \A i \in 1 .. keep :
              files'[i] = IF i = index THEN Missing
                          ELSE IF i = index + 1 THEN files[index] ELSE files[i]
        BY <1>1, <1>5, <4>1 DEF TypeOK
      <4>3. ~ Missing.there /\ files[index].there
        BY <2>3, <2>5 DEF Missing
      <4> QED
        BY <1>1, <1>2, <2>3, <4>2, <4>3 DEF Backups, Up
    <3>2. /\ Cardinality(Backups') = Cardinality(Backups)
          /\ \A j \in Backups' : j < index => j \in Backups /\ Gap(Backups', j) = Gap(Backups, j)
          /\ Cardinality(Gap(Backups', index + 1)) = Cardinality(Gap(Backups, index)) + 1
          /\ \A j \in Backups' : j > index + 1 =>
               /\ j \in Backups
               /\ Cardinality(Gap(Backups', j)) = Cardinality(Gap(Backups, j))
      BY <1>0, <1>1, <1>4, <2>0, <2>5, <3>1, GapShift
    <3>3. GapsOK'
      <4>1. SUFFICES ASSUME NEW j \in Backups'
                     PROVE  Cardinality(Gap(Backups', j)) <= torn + Hole(j)'
        BY <1>2 DEF GapsOK, Gap
      <4>2. j \in Nat /\ j # index
        BY <1>1, <1>3, <3>1 DEF Up
      <4>3. Hole(j)' = IF j > index - 1 THEN 1 ELSE 0
        BY <2>1 DEF Hole
      <4>4. Hole(j) = IF j > index THEN 1 ELSE 0
        BY <1>2 DEF Hole
      <4>5. CASE j < index
        <5>1. Hole(j)' = 0 /\ Hole(j) = 0
          BY <1>1, <4>2, <4>3, <4>4, <4>5
        <5> QED
          BY <1>3, <3>2, <4>5, <5>1
      <4>6. CASE j = index + 1
        <5>1. Hole(j)' = 1 /\ Hole(index) = 0
          BY <1>1, <1>2, <4>3, <4>6 DEF Hole
        <5>2. Cardinality(Gap(Backups, index)) <= torn + 0
              /\ Cardinality(Gap(Backups, index)) \in Nat
          BY <1>3, <2>5, <5>1
        <5> QED
          BY <1>1, <3>2, <4>6, <5>1, <5>2
      <4>7. CASE j > index + 1
        <5>1. Hole(j)' = 1 /\ Hole(j) = 1
          BY <1>1, <4>2, <4>3, <4>4, <4>7
        <5> QED
          BY <1>3, <3>2, <4>7, <5>1
      <4> QED
        BY <1>1, <4>2, <4>5, <4>6, <4>7
    <3>4. CountOK'
      <4>1. SUFFICES \/ Cardinality(Backups') + torn >= moved
                     \/ Cardinality(Backups') + torn + 1 >= keep
        BY <1>2, <2>1, <2>2 DEF CountOK
      <4> QED
        BY <1>6, <3>2
    <3> QED
      BY <3>3, <3>4 DEF BackupsOK
  <2> QED
    BY <2>4, <2>5
<1> QED
  BY <1>7, <1>8

\* What opening, creating and writing do to the current file concerns no backup.
LEMMA SameBackups ==
  ASSUME TypeOK, keep' = keep,
         \/ files' = files
         \/ \E c : files' = [files EXCEPT ![0] = c]
  PROVE  Backups' = Backups
<1>1. \A i \in 1 .. keep : i # 0 /\ i \in Indices
  BY RotatingLogAssumption DEF TypeOK, Indices, RotatingLogAssumption
<1>2. \A i \in 1 .. keep : files'[i] = files[i]
  BY <1>1 DEF TypeOK
<1> QED
  BY <1>2 DEF Backups

LEMMA NextBackups ==
  TypeOK /\ WriterOK /\ CurrentOK /\ BackupsOK /\ [Next]_vars => BackupsOK'
<1> SUFFICES ASSUME TypeOK, WriterOK, CurrentOK, BackupsOK, [Next]_vars PROVE BackupsOK'
  OBVIOUS
<1>1. CASE Start \/ Reopen
  <2>1. \/ files' = files
        \/ \E c : files' = [files EXCEPT ![0] = c]
    BY <1>1 DEF Start, Reopen, Opened
  <2>2. UNCHANGED <<keep, moved, torn>> /\ pc # "rename" /\ pc' # "rename"
    BY <1>1 DEF Start, Reopen
  <2> QED
    BY <2>1, <2>2, SameBackups, QuietBackups
<1>2. CASE OpenFails
  <2>1. \/ files' = files
        \/ \E c : files' = [files EXCEPT ![0] = c]
    <3>1. [files EXCEPT ![0].there = TRUE] = [files EXCEPT ![0] = [files[0] EXCEPT !.there = TRUE]]
      OBVIOUS
    <3> QED
      BY <1>2, <3>1 DEF OpenFails, NotOpened
  <2>2. UNCHANGED <<keep, moved, torn>> /\ pc # "rename" /\ pc' # "rename"
    BY <1>2 DEF OpenFails, GiveUp
  <2> QED
    BY <2>1, <2>2, SameBackups, QuietBackups
<1>3. ASSUME NEW n \in Sizes, Write(n) PROVE BackupsOK'
  <2>1. UNCHANGED <<files, keep, moved, torn>> /\ pc # "rename" /\ pc' # "rename"
    BY <1>3 DEF Write, diskVars
  <2> QED
    BY <2>1, SameBackups, QuietBackups
<1>4. CASE CloseFull \/ CloseFails \/ RemoveFails
  <2>1. UNCHANGED <<files, keep, moved, torn>> /\ pc # "rename" /\ pc' # "rename"
    BY <1>4 DEF CloseFull, CloseFails, RemoveFails, GiveUp, diskVars
  <2> QED
    BY <2>1, SameBackups, QuietBackups
<1>5. CASE RemoveOldest
  BY <1>5, RemoveBackups
<1>6. CASE Rename
  BY <1>6, RenameBackups
<1>7. CASE RenameFails
  <2>1. UNCHANGED <<files, keep, moved>> /\ torn' = torn + 1 /\ pc' # "rename"
    BY <1>7 DEF RenameFails, GiveUp
  <2> QED
    BY <2>1, SameBackups, QuietBackups
<1>8. CASE Create \/ CreateFails
  <2>1. \/ files' = files
        \/ \E c : files' = [files EXCEPT ![0] = c]
    BY <1>8 DEF Create, CreateFails
  <2>2. UNCHANGED <<keep, moved, torn>> /\ pc # "rename" /\ pc' # "rename"
    BY <1>8 DEF Create, CreateFails, GiveUp
  <2> QED
    BY <2>1, <2>2, SameBackups, QuietBackups
<1>9. CASE AppendLine \/ AppendFails
  <2>1. \/ files' = files
        \/ \E c : files' = [files EXCEPT ![0] = c]
    <3>1. ASSUME NEW n, Add(n) PROVE \E c : files' = [files EXCEPT ![0] = c]
      <4>1. files' = [files EXCEPT ![0] =
              [there |-> TRUE,
               holds |-> IF n = 0 THEN files[0].holds ELSE files[0].holds \cup {line},
               bytes |-> files[0].bytes + n]]
        BY <3>1 DEF Add
      <4> QED
        BY <4>1
    <3>2. CASE \E n : Add(n)
      BY <3>1, <3>2
    <3> QED
      BY <1>9, <3>2 DEF AppendLine, AppendFails
  <2>2. UNCHANGED <<keep, moved, torn>> /\ pc # "rename" /\ pc' # "rename"
    BY <1>9 DEF AppendLine, AppendFails, GiveUp
  <2> QED
    BY <2>1, <2>2, SameBackups, QuietBackups
<1>10. CASE Close \/ Crash
  <2>1. UNCHANGED <<files, keep, moved>> /\ pc' # "rename"
        /\ (torn' = torn + 1 \/ (pc # "rename" /\ torn' = torn))
    BY <1>10 DEF Close, Crash, diskVars
  <2> QED
    BY <2>1, SameBackups, QuietBackups
<1>11. CASE UNCHANGED vars
  <2>1. UNCHANGED <<files, keep, moved, torn, pc, index>>
    BY <1>11 DEF vars, diskVars
  <2>2. Backups' = Backups /\ \A j : Hole(j)' = Hole(j)
    BY <2>1 DEF Backups, Hole
  <2> QED
    BY <2>1, <2>2 DEF BackupsOK, GapsOK, CountOK, Gap
<1> QED
  BY <1>1, <1>2, <1>3, <1>4, <1>5, <1>6, <1>7, <1>8, <1>9, <1>10, <1>11 DEF Next, Rotate

LEMMA InitBackups == Init => CurrentOK /\ BackupsOK
<1> SUFFICES ASSUME Init PROVE CurrentOK /\ BackupsOK
  OBVIOUS
<1>1. \A i \in 1 .. keep : i \in Indices
  BY RotatingLogAssumption DEF Init, Indices, RotatingLogAssumption
<1>2. Backups = {}
  BY <1>1 DEF Init, Backups, Missing
<1>3. CurrentOK
  BY DEF Init, CurrentOK
<1>4. GapsOK
  BY <1>2 DEF GapsOK
<1>5. CountOK
  BY <1>2, FS_EmptySet DEF Init, CountOK
<1> QED
  BY <1>3, <1>4, <1>5 DEF BackupsOK

\* For any number of backups and any faults, between two writes there is a backup
\* for each rotation, up to the number to keep, less one for each rotation that
\* broke off among its renames (rotate).
THEOREM RotationKeepsBackups == Spec => []OneBackupPerFailure
<1>1. TypeOK /\ BackupsOK => OneBackupPerFailure
  <2> SUFFICES ASSUME TypeOK, BackupsOK, pc \in {"idle", "down"}, keep > 0
               PROVE  LET have == Cardinality(Backups) + torn
                      IN have >= moved \/ have >= keep
    BY DEF OneBackupPerFailure
  <2>1. Hole(keep) = 0
    BY DEF Hole
  <2>2. Cardinality(Backups) + torn \in Nat
    BY BackupFacts
  <2> QED
    BY <2>1, <2>2 DEF BackupsOK, CountOK
<1>2. Safe => WriterOK
  BY DEF Safe
<1>3. TypeOK /\ Safe /\ CurrentOK /\ BackupsOK /\ [Next]_vars => (CurrentOK /\ BackupsOK)'
  BY <1>2, NextCurrent, NextBackups
<1> QED
  BY <1>1, <1>3, Invariance, InitBackups, PTL DEF Spec
=============================================================================
