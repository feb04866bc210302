------------------------------ MODULE LogFiles ------------------------------
(***************************************************************************)
(* The log of the background service (internal/logx/logger.go and the logs *)
(* and start commands of main.go).  start opens the log for the output of  *)
(* its child; the child rotates the log if it is long, once, before it     *)
(* opens it itself, and writes to the file it has opened wherever that is  *)
(* renamed to later.  logs -f polls the path: it looks at the size, and in *)
(* a second step reads from where it was.                                  *)
(*                                                                         *)
(* Services are started beside each other when two terminals start one at  *)
(* the same time, or one is still shutting down: they share the path.      *)
(***************************************************************************)
EXTENDS Integers, FiniteSets, Functions

CONSTANTS
    Service,   \* services that are started, each once
    Backups,   \* backups Rotate keeps
    Limit,     \* lines of a log that is rotated: maxBytes
    Burst,     \* lines written between two polls of logs -f
    MaxSize    \* bound on the lines of a file

\* 5 MB are not written in the half second between two polls.
ASSUME ConstantsAssumption == /\ Backups \in Nat /\ Backups > 1
                              /\ Limit \in Nat /\ Burst \in Nat /\ MaxSize \in Nat
                              /\ 2 * Burst < Limit /\ Limit <= MaxSize
                              /\ IsFiniteSet(Service)

\* A file keeps its identity when it is renamed; 0 is no file.  Each service leaves the
\* path without a file at most once, so that many files are created.
File == 0..(Backups + 2 + Cardinality(Service))

VARIABLES
    path,      \* path[0] is the file at the log's path, path[i] the one at path.i
    size,      \* lines in a file
    fresh,     \* the next file to be created
    svc,       \* services
    follower,  \* logs -f
    shown,     \* the lines of a file that logs -f has printed
    burst      \* lines written since its last poll

vars == <<path, size, fresh, svc, follower, shown, burst>>

files == <<path, size, fresh>>

NewService == [pc |-> "idle", out |-> 0, log |-> 0, i |-> 0, late |-> FALSE]

\* A machine that never had a log, or one with a log of any length and all backups.
Init ==
    /\ \/ /\ path = [k \in 0..Backups |-> 0]
          /\ fresh = 1
          /\ size = [f \in File |-> 0]
       \/ /\ path = [k \in 0..Backups |-> k + 1]
          /\ fresh = Backups + 2
          /\ \E l \in 0..Limit :
                size = [f \in File |-> IF f = 1 THEN l
                                       ELSE IF f \in 2..(Backups + 1) THEN Limit ELSE 0]
    /\ svc = [s \in Service |-> NewService]
    /\ follower = [pc |-> "off", offset |-> 0, seen |-> 0]
    /\ shown = [f \in File |-> {}]
    /\ burst = 0

----------------------------------------------------------------------------
(* The file system *)

\* os.OpenFile with O_CREATE and O_APPEND
OpenLog(f) ==
    IF path[0] # 0 THEN f = path[0] /\ UNCHANGED files
    ELSE /\ f = fresh
         /\ path' = [path EXCEPT ![0] = fresh]
         /\ fresh' = fresh + 1
         /\ UNCHANGED size

\* os.Rename: what was at the new name is gone.
Renamed(from, to) == [path EXCEPT ![to] = path[from], ![from] = 0]

Append(f) ==
    /\ size[f] < MaxSize
    /\ follower.pc \in {"wait", "read"} => burst < Burst
    /\ burst' = IF follower.pc \in {"wait", "read"} THEN burst + 1 ELSE 0
    /\ size' = [size EXCEPT ![f] = @ + 1]
    /\ UNCHANGED <<path, fresh>>

----------------------------------------------------------------------------
(* A service *)

\* start opens the log for the standard output and error of its child.
OpenOutput(s) ==
    /\ svc[s].pc = "idle"
    /\ \E f \in File : OpenLog(f) /\ svc' = [svc EXCEPT ![s].out = f, ![s].pc = "opened"]
    /\ UNCHANGED <<follower, shown, burst>>

\* Rotate looks at the size, in a child of start or in a service run by hand.
StatLog(s) ==
    /\ svc[s].pc \in {"idle", "opened"}
    /\ svc' = IF path[0] # 0 /\ size[path[0]] >= Limit
              THEN [svc EXCEPT ![s].pc = "rotate", ![s].i = Backups - 1]
              ELSE [svc EXCEPT ![s].pc = "create"]
    /\ UNCHANGED <<files, follower, shown, burst>>

\* Mutant of RenameBackup: the backups are renamed beginning with the newest.
RenameBackupAscending(s) ==
    LET i == Backups - svc[s].i IN
    /\ svc[s].pc = "rotate"
    /\ svc[s].i > 0
    /\ path' = IF path[i] = 0 THEN path ELSE Renamed(i, i + 1)
    /\ svc' = [svc EXCEPT ![s].i = @ - 1]
    /\ UNCHANGED <<size, fresh, follower, shown, burst>>

\* Errors are ignored.
RenameBackup(s) ==
    LET i == svc[s].i IN
    /\ svc[s].pc = "rotate"
    /\ i > 0
    /\ path' = IF path[i] = 0 THEN path ELSE Renamed(i, i + 1)
    /\ svc' = [svc EXCEPT ![s].i = @ - 1]
    /\ UNCHANGED <<size, fresh, follower, shown, burst>>

\* From here on, whoever has looked at the log before renames something else.  Without
\* a log, because another service has just renamed it, the service does not start.
RenameLog(s) ==
    /\ svc[s].pc = "rotate"
    /\ svc[s].i = 0
    /\ path' = IF path[0] = 0 THEN path ELSE Renamed(0, 1)
    /\ svc' = [t \in Service |->
                 IF t = s THEN [svc[s] EXCEPT !.pc = IF path[0] = 0 THEN "gone" ELSE "create"]
                 ELSE IF svc[t].pc = "rotate" THEN [svc[t] EXCEPT !.late = TRUE]
                 ELSE svc[t]]
    /\ UNCHANGED <<size, fresh, follower, shown, burst>>

\* Mutant of CreateLog: the file is not created if there is none.
CreateLogOrNone(s) ==
    /\ svc[s].pc = "create"
    /\ svc' = [svc EXCEPT ![s].log = path[0] - 1, ![s].pc = "running"]
    /\ UNCHANGED <<files, follower, shown, burst>>

CreateLog(s) ==
    /\ svc[s].pc = "create"
    /\ \E f \in File : OpenLog(f) /\ svc' = [svc EXCEPT ![s].log = f, ![s].pc = "running"]
    /\ UNCHANGED <<follower, shown, burst>>

Write(s) ==
    /\ svc[s].pc = "running"
    /\ Append(svc[s].log)
    /\ UNCHANGED <<svc, follower, shown>>

\* The error or the panic it ends with goes to the output start opened, if there is one.
Exit(s) ==
    /\ svc[s].pc = "running"
    /\ svc' = [svc EXCEPT ![s].pc = "gone"]
    /\ \/ svc[s].out # 0 /\ Append(svc[s].out)
       \/ UNCHANGED <<files, burst>>
    /\ UNCHANGED <<follower, shown>>

----------------------------------------------------------------------------
(* logs -f *)

Show(f, from, to) == [shown EXCEPT ![f] = @ \cup (from..to)]

\* tailLinesWithOffset; that it prints the last lines only is left out.
Tail ==
    /\ follower.pc = "off"
    /\ path[0] # 0
    /\ shown' = Show(path[0], 1, size[path[0]])
    /\ follower' = [follower EXCEPT !.pc = "wait", !.offset = size[path[0]]]
    /\ burst' = 0
    /\ UNCHANGED <<files, svc>>

Stop == follower' = [follower EXCEPT !.pc = "stopped"] /\ UNCHANGED shown

\* Mutant of Poll: a log that has become shorter is not noticed.
PollOnward ==
    /\ follower.pc = "wait"
    /\ burst' = 0
    /\ IF path[0] = 0 THEN Stop
       ELSE LET now == size[path[0]] IN
            /\ follower' = [follower EXCEPT !.pc = IF now <= follower.offset THEN "wait" ELSE "read",
                                            !.seen = now]
            /\ UNCHANGED shown
    /\ UNCHANGED <<files, svc>>

\* A log that is shorter than before was rotated and is read from its beginning.
Poll ==
    /\ follower.pc = "wait"
    /\ burst' = 0
    /\ IF path[0] = 0 THEN Stop
       ELSE LET now == size[path[0]]
                offset == IF now < follower.offset THEN 0 ELSE follower.offset
            IN /\ follower' = [pc |-> IF now = offset THEN "wait" ELSE "read",
                               offset |-> offset, seen |-> now]
               /\ UNCHANGED shown
    /\ UNCHANGED <<files, svc>>

\* All there is by now is read, but the offset is set to the size that was seen.
Read ==
    /\ follower.pc = "read"
    /\ IF path[0] = 0 THEN Stop
       ELSE /\ shown' = Show(path[0], follower.offset + 1, size[path[0]])
            /\ follower' = [follower EXCEPT !.pc = "wait", !.offset = follower.seen]
    /\ UNCHANGED <<files, svc, burst>>

Next == \/ \E s \in Service : \/ OpenOutput(s)
                              \/ StatLog(s)
                              \/ RenameBackup(s)
                              \/ RenameLog(s)
                              \/ CreateLog(s)
                              \/ Write(s)
                              \/ Exit(s)
        \/ Tail
        \/ Poll
        \/ Read

\* The ticker of logs -f keeps firing.
Spec == Init /\ [][Next]_vars /\ WF_vars(Poll) /\ WF_vars(Read)

----------------------------------------------------------------------------
(* Properties *)

TypeOK ==
    /\ path \in [0..Backups -> File]
    /\ size \in [File -> 0..MaxSize]
    /\ fresh \in File
    /\ svc \in [Service -> [pc : {"idle", "opened", "rotate", "create", "running", "gone"},
                            out : File, log : File, i : 0..Backups, late : BOOLEAN]]
    /\ \A s \in Service : svc[s].pc = "running" => svc[s].log # 0
    /\ follower \in [pc : {"off", "wait", "read", "stopped"}, offset : Nat, seen : Nat]
    /\ shown \in [File -> SUBSET (1..MaxSize)]
    /\ burst \in 0..Burst

\* A rotation throws away the oldest backup and nothing else, as long as it renames the
\* log it has looked at; a second service that looked at the same log can throw away the
\* log that was just rotated.
LossNeedsOverlap ==
    [][ \A f \in Range(path) \ Range(path') :
           \/ f \in {0, path[Backups]}
           \/ \E s \in Service : svc[s].late /\ svc[s].pc = "rotate" ]_vars

\* logs -f has printed every line of the file at the log's path.
CaughtUp == path[0] # 0 => 1..size[path[0]] \subseteq shown[path[0]]

\* What is written to the log while logs -f runs is printed, also after a rotation and
\* though the file is read after its size was taken.  logs -f ends when it polls at the
\* moment there is no file; it can miss lines of a file that took the place of one that
\* was rotated before it was long, which takes two services that rotate at once.
FollowerCatchesUp ==
    []<>(\/ CaughtUp
         \/ follower.pc \in {"off", "stopped"}
         \/ \E s \in Service : svc[s].late)

=============================================================================
