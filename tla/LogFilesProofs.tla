--------------------------- MODULE LogFilesProofs ---------------------------
(***************************************************************************)
(* The types of LogFiles for any number of services, and what a rotation    *)
(* loses.                                                                   *)
(*                                                                         *)
(* Files are numbered as they are created, so the type of `path` bounds     *)
(* their number: a file is created only when there is none at the path, and *)
(* a service leaves the path without one at most once, on its way past      *)
(* RenameLog (Created).                                                     *)
(*                                                                         *)
(* A rotation does not lose a file because it renames the backups beginning *)
(* with the oldest: before it renames backup i there is room at i + 1       *)
(* (Room).  Services that rotate beside each other share the backups.  With *)
(* three of them, the number the code keeps, none of the others can fill    *)
(* the room without renaming the log itself, and whoever has looked at the  *)
(* log before that is late from then on.                                    *)
(***************************************************************************)
EXTENDS LogFiles, FiniteSetTheorems, TLAPS

\* Services that may have left the path without a file.
Past == {s \in Service : svc[s].pc \in {"create", "running", "gone"}}

Created == /\ fresh > 0
           /\ fresh <= Backups + 2 + Cardinality(Past)
           /\ path[0] = 0 => fresh < Backups + 2 + Cardinality(Past)

Turning == \A s \in Service : svc[s].pc = "rotate" => svc[s].i < Backups

Typed == TypeOK /\ Created /\ Turning

Room(p, i) == IF i = 0 THEN p[1] = 0
              ELSE i + 1 = Backups \/ p[i] = 0 \/ p[i + 1] = 0

RoomToRotate ==
    \A s \in Service : svc[s].pc = "rotate" /\ ~svc[s].late =>
        path[0] # 0 /\ Room(path, svc[s].i)

IInv == Typed /\ RoomToRotate

----------------------------------------------------------------------------
(* The types *)

Files == /\ path \in [0..Backups -> File]
         /\ size \in [File -> 0..MaxSize]
         /\ fresh \in File

Services ==
    /\ svc \in [Service -> [pc : {"idle", "opened", "rotate", "create", "running", "gone"},
                            out : File, log : File, i : 0..Backups, late : BOOLEAN]]
    /\ \A s \in Service : svc[s].pc = "running" => svc[s].log # 0

Following ==
    /\ follower \in [pc : {"off", "wait", "read", "stopped"}, offset : Nat, seen : Nat]
    /\ shown \in [File -> SUBSET (1..MaxSize)]
    /\ burst \in 0..Burst

LEMMA TypeParts == TypeOK <=> Files /\ Services /\ Following
BY DEF TypeOK, Files, Services, Following

LEMMA TypedAfter == Files' /\ Services' /\ Following' /\ Created' /\ Turning' => Typed'
BY DEF Typed, TypeOK, Files, Services, Following

LEMMA Counting == /\ IsFiniteSet(Past) /\ Cardinality(Past) \in Nat
                  /\ Cardinality(Service) \in Nat
                  /\ Cardinality(Past) <= Cardinality(Service)
<1>1. Past \in SUBSET Service
  BY DEF Past
<1> QED BY <1>1, FS_Subset, FS_CardinalityType, ConstantsAssumption

LEMMA FileNumbers == File = 0..(Backups + 2 + Cardinality(Service)) /\ 0 \in File
BY Counting, ConstantsAssumption DEF File

LEMMA TypedInit == Init => Typed
<1> SUFFICES ASSUME Init PROVE Typed
  OBVIOUS
<1>1. Files
  BY ConstantsAssumption, FileNumbers, Counting DEF Init, Files
<1>2. Services
  <2>1. NewService \in [pc : {"idle", "opened", "rotate", "create", "running", "gone"},
                        out : File, log : File, i : 0..Backups, late : BOOLEAN]
    BY ConstantsAssumption, FileNumbers DEF NewService
  <2>2. svc = [s \in Service |-> NewService] /\ NewService.pc = "idle"
    BY DEF Init, NewService
  <2> QED BY <2>1, <2>2 DEF Services
<1>3. Following
  BY ConstantsAssumption DEF Init, Following
<1>4. Created
  BY ConstantsAssumption, Counting DEF Init, Created
<1>5. Turning
  BY DEF Init, NewService, Turning
<1> QED BY <1>1, <1>2, <1>3, <1>4, <1>5, TypeParts DEF Typed

\* Service s goes on, with the fields it has afterwards; the others stay where they are.
Becomes(s, r) == svc' = [svc EXCEPT ![s] = r]

\* The service that goes on does not come back from where it may have renamed the log.
LEMMA PastGrows ==
    ASSUME Services, Services', NEW s \in Service, NEW r, Becomes(s, r),
           r.pc \in {"idle", "opened", "rotate"} => s \notin Past
    PROVE  /\ Cardinality(Past) <= Cardinality(Past)'
           /\ s \notin Past /\ r.pc \in {"create", "running", "gone"} =>
                Cardinality(Past)' = Cardinality(Past) + 1
<1>1. svc'[s] = r /\ \A t \in Service \ {s} : svc'[t] = svc[t]
  BY DEF Becomes, Services
<1>2. r.pc \in {"idle", "opened", "rotate", "create", "running", "gone"}
  BY <1>1 DEF Services
<1>3. CASE r.pc \in {"create", "running", "gone"}
  <2>1. Past' = Past \cup {s}
    BY <1>1, <1>3 DEF Past
  <2>2. Cardinality(Past \cup {s}) = IF s \in Past THEN Cardinality(Past)
                                     ELSE Cardinality(Past) + 1
    BY Counting, FS_AddElement
  <2> QED BY <2>1, <2>2, Counting
<1>4. CASE r.pc \in {"idle", "opened", "rotate"}
  <2>1. Past' = Past
    BY <1>1, <1>4 DEF Past
  <2> QED BY <2>1, <1>4, Counting
<1> QED BY <1>2, <1>3, <1>4

\* The type of the services when one goes on.
LEMMA ServiceType ==
    ASSUME Services, NEW s \in Service, NEW r, Becomes(s, r),
           r \in [pc : {"idle", "opened", "rotate", "create", "running", "gone"},
                  out : File, log : File, i : 0..Backups, late : BOOLEAN],
           r.pc = "running" => r.log # 0
    PROVE  Services'
<1>1. svc'[s] = r /\ \A t \in Service \ {s} : svc'[t] = svc[t]
  BY DEF Becomes, Services
<1> QED BY <1>1 DEF Becomes, Services

\* Opening the log gives a file and leaves it at the path.
LEMMA OpenLogType ==
    ASSUME Typed, NEW f \in File, OpenLog(f)
    PROVE  /\ Files'
           /\ f # 0 /\ path'[0] # 0
           /\ fresh' > 0 /\ fresh' <= Backups + 2 + Cardinality(Past)
<1> USE ConstantsAssumption, FileNumbers, Counting, TypeParts DEF Typed
<1>1. CASE path[0] # 0
  BY <1>1 DEF OpenLog, files, Files, Created
<1>2. CASE path[0] = 0
  <2>1. /\ f = fresh /\ path' = [path EXCEPT ![0] = fresh] /\ fresh' = fresh + 1
        /\ size' = size
    BY <1>2 DEF OpenLog
  <2>2. fresh \in 1..(Backups + 1 + Cardinality(Past))
    BY <1>2 DEF Created, Files
  <2>3. fresh + 1 \in File /\ fresh \in File
    BY <2>2
  <2> QED BY <2>1, <2>2, <2>3 DEF Files
<1> QED BY <1>1, <1>2

LEMMA AppendType ==
    ASSUME Files, Following, NEW f \in File, Append(f)
    PROVE  Files' /\ burst' \in 0..Burst /\ path' = path /\ fresh' = fresh
<1>1. burst' \in 0..Burst
  BY ConstantsAssumption DEF Append, Following
<1>2. size' \in [File -> 0..MaxSize]
  BY ConstantsAssumption DEF Append, Files
<1> QED BY <1>1, <1>2 DEF Append, Files

LEMMA CountingAfter == Cardinality(Past)' \in Nat
<1>1. Past' \in SUBSET Service
  BY DEF Past
<1> QED BY <1>1, FS_Subset, FS_CardinalityType, ConstantsAssumption

LEMMA OpenedAndCounted ==
    ASSUME Typed, NEW f \in File, OpenLog(f), Cardinality(Past) <= Cardinality(Past)'
    PROVE  Files' /\ Created'
<1>1. /\ Files' /\ path'[0] # 0
      /\ fresh' > 0 /\ fresh' <= Backups + 2 + Cardinality(Past)
  BY OpenLogType
<1>2. fresh' \in Nat
  BY <1>1, FileNumbers, Counting, ConstantsAssumption DEF Files
<1> QED BY <1>1, <1>2, Counting, CountingAfter, ConstantsAssumption DEF Created

\* The files are counted again when only services have moved on.
LEMMA CreatedStays ==
    ASSUME Created, Cardinality(Past) <= Cardinality(Past)', fresh' = fresh,
           fresh \in Nat, path'[0] = path[0] \/ path'[0] # 0
    PROVE  Created'
<1>1. Cardinality(Past) \in Nat
  BY Counting
<1>2. Cardinality(Past)' \in Nat
  BY CountingAfter
<1> QED BY <1>1, <1>2, ConstantsAssumption DEF Created

----------------------------------------------------------------------------
(* Every step keeps the types *)

LEMMA OpenOutputTyped ==
    ASSUME Typed, NEW s \in Service, OpenOutput(s)
    PROVE  Typed'
<1> USE TypeParts DEF Typed
<1>1. PICK f \in File : OpenLog(f) /\ svc' = [svc EXCEPT ![s].out = f, ![s].pc = "opened"]
  BY DEF OpenOutput
<1>2. svc[s].pc = "idle" /\ UNCHANGED <<follower, shown, burst>>
  BY DEF OpenOutput
<1>3. Becomes(s, [svc[s] EXCEPT !.out = f, !.pc = "opened"])
  BY <1>1 DEF Becomes, Services
<1>4. Services'
  BY <1>1, <1>2, <1>3, ServiceType DEF Services
<1>5. Cardinality(Past) <= Cardinality(Past)'
  BY <1>2, <1>3, <1>4, PastGrows DEF Past
<1>6. Files' /\ Created'
  BY <1>1, <1>5, OpenedAndCounted
<1>7. Following'
  BY <1>2 DEF Following
<1>8. Turning'
  BY <1>1 DEF Turning, Services
<1> QED BY <1>4, <1>6, <1>7, <1>8, TypedAfter

LEMMA StatLogTyped ==
    ASSUME Typed, NEW s \in Service, StatLog(s)
    PROVE  Typed'
<1> USE TypeParts DEF Typed
<1>1. svc[s].pc \in {"idle", "opened"} /\ UNCHANGED <<path, size, fresh, follower, shown, burst>>
  BY DEF StatLog, files
<1>2. \/ Becomes(s, [svc[s] EXCEPT !.pc = "rotate", !.i = Backups - 1])
      \/ Becomes(s, [svc[s] EXCEPT !.pc = "create"])
  BY DEF StatLog, Becomes, Services
<1>3. Services'
  <2>1. Backups - 1 \in 0..Backups
    BY ConstantsAssumption
  <2>2. CASE Becomes(s, [svc[s] EXCEPT !.pc = "rotate", !.i = Backups - 1])
    BY <2>1, <2>2, ServiceType DEF Services
  <2>3. CASE Becomes(s, [svc[s] EXCEPT !.pc = "create"])
    BY <2>3, ServiceType DEF Services
  <2> QED BY <1>2, <2>2, <2>3
<1>4. Cardinality(Past) <= Cardinality(Past)'
  BY <1>1, <1>2, <1>3, PastGrows DEF Past
<1>5. Files' /\ Following'
  BY <1>1 DEF Files, Following
<1>6. Created'
  BY <1>1, <1>4, CreatedStays, FileNumbers, Counting DEF Files
<1>7. Turning'
  <2>1. \A t \in Service \ {s} : svc'[t] = svc[t]
    BY <1>2 DEF Becomes, Services
  <2>2. svc'[s].pc = "rotate" => svc'[s].i = Backups - 1
    BY <1>2 DEF Becomes, Services
  <2> QED BY <2>1, <2>2, ConstantsAssumption DEF Turning
<1> QED BY <1>3, <1>5, <1>6, <1>7, TypedAfter

\* What a service that rotates does to the files is renaming.
LEMMA RenamedType ==
    ASSUME Typed, NEW i \in 0..(Backups - 1),
           path' = IF path[i] = 0 THEN path ELSE Renamed(i, i + 1),
           UNCHANGED <<size, fresh>>
    PROVE  /\ Files'
           /\ i > 0 => path'[0] = path[0]
<1>1. path' \in [0..Backups -> File]
  <2>1. path \in [0..Backups -> File] /\ i \in 0..Backups /\ i + 1 \in 0..Backups
    BY TypeParts, ConstantsAssumption DEF Typed, Files
  <2> QED BY <2>1, FileNumbers DEF Renamed
<1>2. i > 0 => path'[0] = path[0]
  BY TypeParts, ConstantsAssumption DEF Typed, Files, Renamed
<1> QED BY <1>1, <1>2, TypeParts DEF Typed, Files

LEMMA RenameBackupTyped ==
    ASSUME Typed, NEW s \in Service, RenameBackup(s)
    PROVE  Typed'
<1> USE TypeParts DEF Typed
<1>1. /\ svc[s].pc = "rotate" /\ svc[s].i > 0 /\ svc[s].i \in 0..(Backups - 1)
      /\ UNCHANGED <<size, fresh, follower, shown, burst>>
  BY ConstantsAssumption DEF RenameBackup, Turning, Services
<1>2. Becomes(s, [svc[s] EXCEPT !.i = @ - 1])
  BY DEF RenameBackup, Becomes, Services
<1>3. Services'
  BY <1>1, <1>2, ServiceType, ConstantsAssumption DEF Services
<1>4. Cardinality(Past) <= Cardinality(Past)'
  BY <1>1, <1>2, <1>3, PastGrows DEF Past, Services
<1>5. Files' /\ path'[0] = path[0]
  BY <1>1, RenamedType DEF RenameBackup
<1>6. Following'
  BY <1>1 DEF Following
<1>7. Created'
  BY <1>1, <1>4, <1>5, CreatedStays, FileNumbers, Counting DEF Files
<1>8. Turning'
  BY <1>1, <1>2, ConstantsAssumption DEF Becomes, Turning, Services
<1> QED BY <1>3, <1>5, <1>6, <1>7, <1>8, TypedAfter

LEMMA RenameLogTyped ==
    ASSUME Typed, NEW s \in Service, RenameLog(s)
    PROVE  Typed'
<1> USE TypeParts DEF Typed
<1>1. /\ svc[s].pc = "rotate" /\ svc[s].i = 0
      /\ path' = IF path[0] = 0 THEN path ELSE Renamed(0, 1)
      /\ UNCHANGED <<size, fresh, follower, shown, burst>>
  BY DEF RenameLog
<1>2. /\ svc'[s] = [svc[s] EXCEPT !.pc = IF path[0] = 0 THEN "gone" ELSE "create"]
      /\ \A t \in Service \ {s} :
            svc'[t] = IF svc[t].pc = "rotate" THEN [svc[t] EXCEPT !.late = TRUE] ELSE svc[t]
      /\ DOMAIN svc' = Service
  BY DEF RenameLog
<1>3. Services'
  <2>1. svc' \in [Service -> [pc : {"idle", "opened", "rotate", "create", "running", "gone"},
                              out : File, log : File, i : 0..Backups, late : BOOLEAN]]
    BY DEF RenameLog, Services
  <2>2. \A t \in Service : svc'[t].pc = "running" => svc'[t].log # 0
    BY <1>2 DEF Services
  <2> QED BY <2>1, <2>2 DEF Services
<1>4. \A t \in Service \ {s} : svc'[t].pc = svc[t].pc /\ svc'[t].i = svc[t].i
  BY <1>2 DEF Services
<1>5. svc'[s].pc \in {"gone", "create"}
  BY <1>2 DEF Services
<1>6. s \notin Past /\ Past' = Past \cup {s}
  BY <1>1, <1>4, <1>5 DEF Past
<1>7. Cardinality(Past)' = Cardinality(Past) + 1
  BY <1>6, Counting, FS_AddElement
<1>8. Files'
  BY <1>1, RenamedType, ConstantsAssumption
<1>9. Created'
  BY <1>1, <1>7, Counting, FileNumbers, ConstantsAssumption DEF Created, Files
<1>10. Following'
  BY <1>1 DEF Following
<1>11. Turning'
  BY <1>4, <1>5 DEF Turning
<1> QED BY <1>3, <1>8, <1>9, <1>10, <1>11, TypedAfter

LEMMA CreateLogTyped ==
    ASSUME Typed, NEW s \in Service, CreateLog(s)
    PROVE  Typed'
<1> USE TypeParts DEF Typed
<1>1. PICK f \in File : OpenLog(f) /\ svc' = [svc EXCEPT ![s].log = f, ![s].pc = "running"]
  BY DEF CreateLog
<1>2. svc[s].pc = "create" /\ UNCHANGED <<follower, shown, burst>>
  BY DEF CreateLog
<1>3. Becomes(s, [svc[s] EXCEPT !.log = f, !.pc = "running"])
  BY <1>1 DEF Becomes, Services
<1>4. Services'
  BY <1>1, <1>2, <1>3, OpenLogType, ServiceType DEF Services
<1>5. Cardinality(Past) <= Cardinality(Past)'
  BY <1>2, <1>3, <1>4, PastGrows DEF Services
<1>6. Files' /\ Created'
  BY <1>1, <1>5, OpenedAndCounted
<1>7. Following'
  BY <1>2 DEF Following
<1>8. Turning'
  BY <1>1 DEF Turning, Services
<1> QED BY <1>4, <1>6, <1>7, <1>8, TypedAfter

LEMMA WriteTyped ==
    ASSUME Typed, NEW s \in Service, Write(s)
    PROVE  Typed'
<1> USE TypeParts DEF Typed
<1>1. svc[s].log \in File /\ Append(svc[s].log) /\ UNCHANGED <<svc, follower, shown>>
  BY DEF Write, Services
<1>2. Files' /\ burst' \in 0..Burst /\ path' = path /\ fresh' = fresh
  BY <1>1, AppendType
<1>3. Services' /\ Turning' /\ Past' = Past
  BY <1>1 DEF Services, Turning, Past
<1>4. Following'
  BY <1>1, <1>2 DEF Following
<1>5. Created'
  BY <1>2, <1>3 DEF Created
<1> QED BY <1>2, <1>3, <1>4, <1>5, TypedAfter

LEMMA ExitTyped ==
    ASSUME Typed, NEW s \in Service, Exit(s)
    PROVE  Typed'
<1> USE TypeParts DEF Typed
<1>1. svc[s].pc = "running" /\ UNCHANGED <<follower, shown>>
  BY DEF Exit
<1>2. Becomes(s, [svc[s] EXCEPT !.pc = "gone"])
  BY DEF Exit, Becomes, Services
<1>3. Services'
  BY <1>1, <1>2, ServiceType DEF Services
<1>4. Cardinality(Past) <= Cardinality(Past)'
  BY <1>2, <1>3, PastGrows DEF Services
<1>5. Files' /\ burst' \in 0..Burst /\ path' = path /\ fresh' = fresh
  <2>1. CASE Append(svc[s].out)
    BY <2>1, AppendType DEF Services
  <2>2. CASE UNCHANGED <<files, burst>>
    BY <2>2 DEF files, Files, Following
  <2> QED BY <2>1, <2>2 DEF Exit
<1>6. Following'
  BY <1>1, <1>5 DEF Following
<1>7. Created'
  BY <1>4, <1>5, CreatedStays, FileNumbers, Counting DEF Files
<1>8. Turning'
  BY <1>2 DEF Becomes, Turning, Services
<1> QED BY <1>3, <1>5, <1>6, <1>7, <1>8, TypedAfter

\* logs -f shows lines there are, and looks only.
LEMMA ShowType ==
    ASSUME Files, Following, NEW f \in File, NEW from \in Nat \ {0},
           shown' = Show(f, from, size[f])
    PROVE  shown' \in [File -> SUBSET (1..MaxSize)]
<1>1. size[f] \in 0..MaxSize
  BY DEF Files
<1>2. from..size[f] \subseteq 1..MaxSize
  BY <1>1, ConstantsAssumption
<1> QED BY <1>2 DEF Show, Following

LEMMA FollowerTyped ==
    ASSUME Typed, Tail \/ Poll \/ Read
    PROVE  Typed'
<1> USE TypeParts DEF Typed
<1>1. UNCHANGED <<path, size, fresh, svc>>
  BY DEF Tail, Poll, Read, files
<1>2. Files' /\ Services' /\ Turning' /\ Past' = Past
  BY <1>1 DEF Files, Services, Turning, Past
<1>3. Created'
  BY <1>1, <1>2 DEF Created
<1>4. path[0] \in File /\ size[path[0]] \in Nat
  BY ConstantsAssumption DEF Files
<1>5. burst' \in 0..Burst
  BY ConstantsAssumption DEF Tail, Poll, Read, Following
<1>6. follower' \in [pc : {"off", "wait", "read", "stopped"}, offset : Nat, seen : Nat]
  <2>1. CASE Tail
    BY <2>1, <1>4 DEF Tail, Following
  <2>2. CASE Poll
    BY <2>2, <1>4 DEF Poll, Stop, Following
  <2>3. CASE Read
    BY <2>3, <1>4 DEF Read, Stop, Following
  <2> QED BY <2>1, <2>2, <2>3
<1>7. shown' \in [File -> SUBSET (1..MaxSize)]
  <2>1. CASE Tail
    BY <2>1, <1>4, ShowType DEF Tail
  <2>2. CASE Poll
    BY <2>2 DEF Poll, Stop, Following
  <2>3. CASE Read
    <3>1. follower.offset + 1 \in Nat \ {0}
      BY DEF Following
    <3> QED BY <2>3, <3>1, <1>4, ShowType DEF Read, Stop, Following
  <2> QED BY <2>1, <2>2, <2>3
<1>8. Following'
  BY <1>5, <1>6, <1>7 DEF Following
<1> QED BY <1>2, <1>3, <1>8, TypedAfter

LEMMA TypedStays == Typed /\ [Next]_vars => Typed'
<1> SUFFICES ASSUME Typed, [Next]_vars PROVE Typed'
  OBVIOUS
<1>1. CASE UNCHANGED vars
  BY <1>1 DEF vars, Typed, TypeOK, Created, Past, Turning
<1>2. ASSUME NEW s \in Service,
             \/ OpenOutput(s) \/ StatLog(s) \/ RenameBackup(s) \/ RenameLog(s)
             \/ CreateLog(s) \/ Write(s) \/ Exit(s)
      PROVE  Typed'
  BY <1>2, OpenOutputTyped, StatLogTyped, RenameBackupTyped, RenameLogTyped,
     CreateLogTyped, WriteTyped, ExitTyped
<1>3. CASE Tail \/ Poll \/ Read
  BY <1>3, FollowerTyped
<1> QED BY <1>1, <1>2, <1>3 DEF Next

\* The types of LogFiles, for any number of services and backups: a machine that starts
\* n services needs no more than n + 1 files beside those it had.
THEOREM TypeCorrect == Spec => []TypeOK
<1>1. Typed => TypeOK
  BY DEF Typed
<1> QED BY <1>1, TypedInit, TypedStays, PTL DEF Spec

----------------------------------------------------------------------------
(* There is room for the backup that is renamed next *)

\* The path of the log keeps its file, and the room stays, when a service opens the log.
LEMMA OpenLogKeepsRoom ==
    ASSUME Typed, NEW f \in File, OpenLog(f)
    PROVE  path'[0] # 0 /\ \A i \in 1..Backups : path'[i] = path[i]
<1>1. path'[0] # 0
  BY OpenLogType
<1>2. path' = path \/ path' = [path EXCEPT ![0] = fresh]
  BY DEF OpenLog, files
<1>3. path \in [0..Backups -> File]
  BY TypeParts DEF Typed, Files
<1>4. \A i \in 1..Backups : i \in 0..Backups /\ i # 0
  BY ConstantsAssumption
<1> QED BY <1>1, <1>2, <1>3, <1>4

\* The services that rotate are the same, and so are the backups.
LEMMA RoomUndisturbed ==
    ASSUME Typed, RoomToRotate,
           \A t \in Service : svc'[t].pc = "rotate" => svc'[t] = svc[t],
           path'[0] = path[0] \/ path'[0] # 0,
           \A i \in 1..Backups : path'[i] = path[i]
    PROVE  RoomToRotate'
<1> SUFFICES ASSUME NEW t \in Service, svc'[t].pc = "rotate", ~svc'[t].late
             PROVE  path'[0] # 0 /\ Room(path', svc'[t].i)
  BY DEF RoomToRotate
<1>1. svc'[t] = svc[t] /\ svc[t].i \in 0..(Backups - 1)
  BY TypeParts, ConstantsAssumption DEF Typed, Turning, Services
<1>2. path[0] # 0 /\ Room(path, svc[t].i)
  BY <1>1 DEF RoomToRotate
<1> QED BY <1>1, <1>2, ConstantsAssumption DEF Room

LEMMA StatLogKeepsRoom ==
    ASSUME Typed, RoomToRotate, NEW s \in Service, StatLog(s)
    PROVE  RoomToRotate'
<1> SUFFICES ASSUME NEW t \in Service, svc'[t].pc = "rotate", ~svc'[t].late
             PROVE  path'[0] # 0 /\ Room(path', svc'[t].i)
  BY DEF RoomToRotate
<1>1. path' = path
  BY DEF StatLog, files
<1>2. CASE t # s
  <2>1. svc'[t] = svc[t]
    BY <1>2, TypeParts DEF StatLog, Typed, Services
  <2> QED BY <1>1, <2>1 DEF RoomToRotate, Room
<1>3. CASE t = s
  <2>1. path[0] # 0 /\ svc'[s].i = Backups - 1
    BY <1>3, TypeParts DEF StatLog, Typed, Services
  <2> QED BY <1>1, <1>3, <2>1, ConstantsAssumption DEF Room
<1> QED BY <1>2, <1>3

\* A backup moves up into the room there is; that can take the room of another rotation
\* only from two places further down on.
LEMMA RenameBackupKeepsRoom ==
    ASSUME Backups <= 3, Typed, RoomToRotate, NEW s \in Service, RenameBackup(s)
    PROVE  RoomToRotate'
<1> SUFFICES ASSUME NEW t \in Service, svc'[t].pc = "rotate", ~svc'[t].late
             PROVE  path'[0] # 0 /\ Room(path', svc'[t].i)
  BY DEF RoomToRotate
<1> DEFINE j == svc[s].i
<1>1. svc[s].pc = "rotate" /\ j \in 1..(Backups - 1)
  BY TypeParts, ConstantsAssumption DEF RenameBackup, Typed, Services, Turning
<1>2. /\ path \in [0..Backups -> File]
      /\ path' = IF path[j] = 0 THEN path
                 ELSE [path EXCEPT ![j + 1] = path[j], ![j] = 0]
  BY TypeParts DEF RenameBackup, Renamed, Typed, Files
<1>3. /\ path'[0] = path[0] /\ path'[j] = 0
      /\ \A k \in 0..Backups : k # j + 1 /\ path[k] = 0 => path'[k] = 0
  BY <1>1, <1>2, ConstantsAssumption
<1>4. Backups \in {2, 3}
  BY ConstantsAssumption
<1>5. CASE t = s
  <2>1. svc'[t].i = j - 1 /\ svc[s].late = svc'[t].late
    BY <1>5, TypeParts DEF RenameBackup, Typed, Services
  <2>2. path[0] # 0
    BY <1>1, <1>5, <2>1 DEF RoomToRotate
  <2>3. Room(path', j - 1)
    BY <1>1, <1>3, <1>4 DEF Room
  <2> QED BY <1>3, <2>1, <2>2, <2>3
<1>6. CASE t # s
  <2> DEFINE i == svc[t].i
  <2>1. svc'[t] = svc[t] /\ svc[t].pc = "rotate" /\ ~svc[t].late
    BY <1>6, TypeParts DEF RenameBackup, Typed, Services
  <2>2. path[0] # 0 /\ Room(path, i) /\ i \in 0..(Backups - 1)
    BY <2>1, TypeParts, ConstantsAssumption DEF RoomToRotate, Typed, Services, Turning
  <2>3. Room(path', i)
    BY <1>1, <1>3, <1>4, <2>2 DEF Room
  <2> QED BY <1>3, <2>1, <2>2, <2>3
<1> QED BY <1>5, <1>6

\* Whoever has looked at the log that is renamed is late.
LEMMA RenameLogKeepsRoom ==
    ASSUME Typed, NEW s \in Service, RenameLog(s)
    PROVE  RoomToRotate'
<1>1. ASSUME NEW t \in Service, svc'[t].pc = "rotate"
      PROVE  svc'[t].late
  BY <1>1, TypeParts DEF RenameLog, Typed, Services
<1> QED BY <1>1 DEF RoomToRotate

LEMMA RoomStays ==
    ASSUME Backups <= 3, IInv, [Next]_vars
    PROVE  RoomToRotate'
<1> USE DEF IInv
<1>1. CASE UNCHANGED vars \/ Tail \/ Poll \/ Read
  BY <1>1 DEF vars, files, Tail, Poll, Read, RoomToRotate, Room
<1>2. ASSUME NEW s \in Service, OpenOutput(s) \/ CreateLog(s)
      PROVE  RoomToRotate'
  <2>1. PICK f \in File : OpenLog(f)
    BY <1>2 DEF OpenOutput, CreateLog
  <2>2. \A t \in Service : svc'[t].pc = "rotate" => svc'[t] = svc[t]
    BY <1>2, TypeParts DEF OpenOutput, CreateLog, Typed, Services
  <2> QED BY <2>1, <2>2, OpenLogKeepsRoom, RoomUndisturbed
<1>3. ASSUME NEW s \in Service, Write(s) \/ Exit(s)
      PROVE  RoomToRotate'
  <2>1. path' = path
    BY <1>3 DEF Write, Exit, Append, files
  <2>2. \A t \in Service : svc'[t].pc = "rotate" => svc'[t] = svc[t]
    BY <1>3, TypeParts DEF Write, Exit, Typed, Services
  <2> QED BY <2>1, <2>2, RoomUndisturbed
<1>4. ASSUME NEW s \in Service, StatLog(s) \/ RenameBackup(s) \/ RenameLog(s)
      PROVE  RoomToRotate'
  BY <1>4, StatLogKeepsRoom, RenameBackupKeepsRoom, RenameLogKeepsRoom
<1> QED BY <1>1, <1>2, <1>3, <1>4 DEF Next

----------------------------------------------------------------------------
(* What is lost *)

Overlap == \E s \in Service : svc[s].late /\ svc[s].pc = "rotate"

\* A renamed file is still there, what was at its new name is not.
LEMMA RenamingLoses ==
    ASSUME path \in [0..Backups -> File], NEW i \in 0..(Backups - 1),
           path' = IF path[i] = 0 THEN path ELSE Renamed(i, i + 1),
           i + 1 = Backups \/ path[i] = 0 \/ path[i + 1] = 0,
           NEW f \in Range(path) \ Range(path')
    PROVE  f \in {0, path[Backups]}
<1>1. CASE path[i] = 0
  BY <1>1
<1>2. CASE path[i] # 0
  <2>1. path' = [path EXCEPT ![i + 1] = path[i], ![i] = 0]
    BY <1>2 DEF Renamed
  <2>2. i \in 0..Backups /\ i + 1 \in 0..Backups /\ i # i + 1
    BY ConstantsAssumption
  <2>3. PICK k \in 0..Backups : f = path[k]
    BY DEF Range
  <2>4. \A m \in 0..Backups : path'[m] # f
    BY <2>1 DEF Range
  <2>5. k \in {i, i + 1}
    BY <2>1, <2>2, <2>3, <2>4
  <2>6. k = i + 1
    BY <2>1, <2>2, <2>3, <2>4, <2>5
  <2> QED BY <1>2, <2>3, <2>6
<1> QED BY <1>1, <1>2

LEMMA StepLoses ==
    ASSUME IInv, [Next]_vars, NEW f \in Range(path) \ Range(path')
    PROVE  f \in {0, path[Backups]} \/ Overlap
<1> USE DEF IInv
<1>1. path \in [0..Backups -> File]
  BY TypeParts DEF Typed, Files
<1>2. CASE UNCHANGED path
  BY <1>2
<1>3. ASSUME NEW g \in File, OpenLog(g)
      PROVE  f = 0
  <2>1. path[0] = 0 /\ path' = [path EXCEPT ![0] = fresh]
    BY <1>3 DEF OpenLog, files
  <2>2. PICK k \in 0..Backups : f = path[k]
    BY <1>1 DEF Range
  <2>3. \A m \in 0..Backups : path'[m] # f
    BY <1>1, <2>1 DEF Range
  <2> QED BY <1>1, <2>1, <2>2, <2>3
<1>4. ASSUME NEW s \in Service, RenameBackup(s) \/ RenameLog(s)
      PROVE  f \in {0, path[Backups]} \/ Overlap
  <2> DEFINE i == svc[s].i
  <2>1. /\ svc[s].pc = "rotate" /\ i \in 0..(Backups - 1) /\ svc[s].late \in BOOLEAN
        /\ path' = IF path[i] = 0 THEN path ELSE Renamed(i, i + 1)
    BY <1>4, TypeParts, ConstantsAssumption
       DEF RenameBackup, RenameLog, Typed, Services, Turning
  <2>2. CASE svc[s].late
    BY <2>1, <2>2 DEF Overlap
  <2>3. CASE ~svc[s].late
    <3>1. Room(path, i)
      BY <2>1, <2>3 DEF RoomToRotate
    <3>2. i + 1 = Backups \/ path[i] = 0 \/ path[i + 1] = 0
      BY <3>1 DEF Room
    <3> QED BY <1>1, <2>1, <3>2, RenamingLoses
  <2> QED BY <2>1, <2>2, <2>3
<1>5. ASSUME NEW s \in Service, StatLog(s) \/ Write(s) \/ Exit(s)
      PROVE  UNCHANGED path
  BY <1>5 DEF StatLog, Write, Exit, Append, files
<1>6. CASE UNCHANGED vars \/ Tail \/ Poll \/ Read
  BY <1>2, <1>6 DEF vars, files, Tail, Poll, Read
<1>7. ASSUME NEW s \in Service, OpenOutput(s) \/ CreateLog(s)
      PROVE  f = 0
  BY <1>3, <1>7 DEF OpenOutput, CreateLog
<1> QED BY <1>2, <1>4, <1>5, <1>6, <1>7 DEF Next

LEMMA InvInit == Init => IInv
BY TypedInit DEF Init, NewService, IInv, RoomToRotate

\* With as many backups as the code keeps (logx.New asks Rotate for three), a rotation
\* throws away the oldest backup and nothing else, for any number of services that are
\* started beside each other, unless one of them renames a log it has not looked at.
THEOREM OldestIsLost == Backups <= 3 => (Spec => LossNeedsOverlap)
<1> SUFFICES ASSUME Backups <= 3 PROVE Spec => LossNeedsOverlap
  OBVIOUS
<1>1. IInv /\ [Next]_vars => IInv'
  BY TypedStays, RoomStays DEF IInv
<1>2. IInv /\ [Next]_vars =>
        [ \A f \in Range(path) \ Range(path') :
             \/ f \in {0, path[Backups]}
             \/ \E s \in Service : svc[s].late /\ svc[s].pc = "rotate" ]_vars
  BY StepLoses DEF Overlap
<1> QED BY <1>1, <1>2, InvInit, PTL DEF Spec, LossNeedsOverlap

=============================================================================
