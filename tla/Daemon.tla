------------------------------- MODULE Daemon -------------------------------
(***************************************************************************)
(* The commands start, stop and restart (cmd/costrict-router/main.go) and   *)
(* the service processes they deal with, which they know only through the   *)
(* PID file, a TCP address and the shutdown endpoint                        *)
(* (internal/server/server.go).  A service is also what `serve` runs in the *)
(* foreground.  Services and commands may die at any step.                  *)
(*                                                                         *)
(* Processes are numbered in the order of their start.  The PID and the     *)
(* shutdown token in a PID file are those of one process, but the system    *)
(* may give the PID of a process that has ended to any later one.           *)
(***************************************************************************)
EXTENDS Integers

CONSTANTS
    Operator,   \* terminals in which commands are given
    Addr,
    NoAddr,
    MaxProcess, \* bound on the services ever started
    MaxCommands \* bound on the commands given

ASSUME ConstantsAssumption ==
    /\ NoAddr \notin Addr
    /\ MaxProcess \in Nat /\ MaxCommands \in Nat

VARIABLES
    service,   \* every service process
    processes, \* how many there have been
    pidFile,
    op,        \* every terminal
    commands,  \* how many were given
    together,  \* two commands were running at once
    broken,    \* a start died after it had made its child
    stale,     \* a command died between ending a service and removing its PID file
    vouched    \* a start took another service's answer for that of its child

vars == <<service, processes, pidFile, op, commands, together, broken, stale, vouched>>

Process == 1..MaxProcess

NoProcess == 0

\* The process whose PID and shutdown token the PID file has, and its address.
State == [process : Process \cup {NoProcess}, addr : Addr \cup {NoAddr}]

NoFile == [process |-> NoProcess, addr |-> NoAddr]

\* A service that was told to shut down listens until srv.Shutdown closes the listener,
\* and then serves what is under way for up to 10 seconds.  It is lost when it ends and no
\* command has ended it.
Service == [state : {"none", "booting", "listening", "told", "draining", "dead", "lost"},
            addr : Addr \cup {NoAddr}, tokened : BOOLEAN]

Place == {"idle", "read", "probe", "spawn", "record", "wait", "clean", "ask", "remove"}

Op == [pc : Place, command : {"none", "start", "stop", "restart"},
       addr : Addr \cup {NoAddr},  \* for the service: --addr, or the configured address
       found : State,                  \* what the command read from the PID file
       child : Process \cup {NoProcess},
       struck : BOOLEAN,        \* its kill has ended a program that is not a service
       said : {"nothing", "started"}]  \* that it has started a service, or nothing of the kind

NoOp == [pc |-> "idle", command |-> "none", addr |-> NoAddr, found |-> NoFile,
         child |-> NoProcess, struck |-> FALSE, said |-> "nothing"]

Init ==
    /\ service = [p \in Process |-> [state |-> "none", addr |-> NoAddr, tokened |-> FALSE]]
    /\ processes = 0
    /\ pidFile = NoFile
    /\ op = [o \in Operator |-> NoOp]
    /\ commands = 0
    /\ together = FALSE /\ broken = FALSE /\ stale = FALSE /\ vouched = FALSE

----------------------------------------------------------------------------

Answers(p, a) == service[p].addr = a /\ service[p].state \in {"listening", "told"}

Healthy(a) == \E p \in Process : Answers(p, a)

Alive(p) == service[p].state \notin {"none", "dead", "lost"}

Killed(p) == [q \in Process |-> IF q = p THEN [service[q] EXCEPT !.state = "dead"]
                                      ELSE service[q]]

Goto(o, place) == op' = [op EXCEPT ![o].pc = place]

\* The command ends: start has succeeded, or whatever else it or stop report.
Say(o, what) == op' = [op EXCEPT ![o] = [NoOp EXCEPT !.said = what]]

Running(o) == op[o].pc # "idle"

----------------------------------------------------------------------------
(* cmdStart; cmdRestart is cmdStop and then cmdStart, whatever cmdStop returned *)

Give(o, command, a) ==
    /\ ~Running(o)
    /\ commands < MaxCommands
    /\ commands' = commands + 1
    /\ op' = [op EXCEPT ![o] = [NoOp EXCEPT !.pc = "read", !.command = command,
                                            !.addr = a]]
    /\ together' = (together \/ \E q \in Operator : Running(q))
    /\ UNCHANGED <<service, processes, pidFile, broken, stale, vouched>>

Read(o) ==
    /\ op[o].pc = "read"
    /\ \/ pidFile = NoFile /\ op[o].command = "start" /\ Goto(o, "spawn")
       \/ pidFile = NoFile /\ op[o].command = "stop" /\ Say(o, "nothing")
       \/ /\ pidFile = NoFile /\ op[o].command = "restart"
          /\ op' = [op EXCEPT ![o].command = "start"]
       \/ /\ pidFile # NoFile
          /\ op' = [op EXCEPT ![o] = [@ EXCEPT
                      !.found = pidFile,
                      !.pc = IF op[o].command = "start" THEN "probe" ELSE "ask"]]
    /\ UNCHANGED <<service, processes, pidFile, commands, together, broken, stale, vouched>>

\* Mutant of Probe: the health of the recorded service is not looked at.
ProbeNothing(o) ==
    /\ op[o].pc = "probe"
    /\ Goto(o, "spawn")
    /\ UNCHANGED <<service, processes, pidFile, commands, together, broken, stale, vouched>>

\* Whoever answers at the recorded address is taken for the recorded service.
Probe(o) ==
    /\ op[o].pc = "probe"
    /\ IF Healthy(op[o].found.addr) THEN Say(o, "nothing") ELSE Goto(o, "spawn")
    /\ UNCHANGED <<service, processes, pidFile, commands, together, broken, stale, vouched>>

NewService(a, tokened) ==
    /\ processes < MaxProcess
    /\ processes' = processes + 1
    /\ service' = [service EXCEPT ![processes + 1] =
                      [state |-> "booting", addr |-> a, tokened |-> tokened]]

\* Mutant of Spawn: the PID is counted twice.
SpawnNext(o) ==
    /\ op[o].pc = "spawn"
    /\ NewService(op[o].addr, TRUE)
    /\ op' = [op EXCEPT ![o] = [@ EXCEPT !.pc = "record", !.child = processes + 2]]
    /\ UNCHANGED <<pidFile, commands, together, broken, stale, vouched>>

Spawn(o) ==
    /\ op[o].pc = "spawn"
    /\ NewService(op[o].addr, TRUE)
    /\ op' = [op EXCEPT ![o] = [@ EXCEPT !.pc = "record", !.child = processes + 1]]
    /\ UNCHANGED <<pidFile, commands, together, broken, stale, vouched>>

Record(o) ==
    /\ op[o].pc = "record"
    /\ pidFile' = [process |-> op[o].child, addr |-> op[o].addr]
    /\ Goto(o, "wait")
    /\ UNCHANGED <<service, processes, commands, together, broken, stale, vouched>>

RecordFails(o) ==
    /\ op[o].pc = "record"
    /\ service' = Killed(op[o].child)
    /\ Say(o, "nothing")
    /\ UNCHANGED <<processes, pidFile, commands, together, broken, stale, vouched>>

\* Mutant of Started: start does not wait for the health check.
StartedAtOnce(o) ==
    /\ op[o].pc = "wait"
    /\ Say(o, "started")
    /\ UNCHANGED <<service, processes, pidFile, commands, together, broken, stale, vouched>>

\* waitForHealth asks the address, not the child, which may be booting still.
Started(o) ==
    /\ op[o].pc = "wait"
    /\ Healthy(op[o].addr)
    /\ Say(o, "started")
    /\ vouched' = (vouched \/ service[op[o].child].state = "booting")
    /\ UNCHANGED <<service, processes, pidFile, commands, together, broken, stale>>

TimeOut(o) ==
    /\ op[o].pc = "wait"
    /\ ~Healthy(op[o].addr)
    /\ service' = Killed(op[o].child)
    /\ Goto(o, "clean")
    /\ UNCHANGED <<processes, pidFile, commands, together, broken, stale, vouched>>

\* The PID file is removed, whatever it says by now.
Clean(o) ==
    /\ op[o].pc = "clean"
    /\ pidFile' = NoFile
    /\ Say(o, "nothing")
    /\ UNCHANGED <<service, processes, commands, together, broken, stale, vouched>>

----------------------------------------------------------------------------
(* cmdStop *)

\* proc.Kill: if the process has ended, its PID is free or another's by now.
Kill(o) ==
    LET p == op[o].found.process IN
    \/ Alive(p) /\ service' = Killed(p) /\ Goto(o, "remove")
    \/ /\ ~Alive(p)
       /\ \E q \in Process : q > p /\ Alive(q) /\ service' = Killed(q)
       /\ Goto(o, "remove")
    \/ /\ ~Alive(p) /\ service' = service
       /\ \E struck \in BOOLEAN : op' = [op EXCEPT ![o].pc = "remove", ![o].struck = struck]

\* Mutant of Obeys: the endpoint does not compare the token.
ObeysAnyone(o, q) == Answers(q, op[o].found.addr)

\* /-/shutdown is obeyed by the service that has the token of the PID file.
Obeys(o, q) == Answers(q, op[o].found.addr) /\ service[q].tokened /\ q = op[o].found.process

Ask(o) ==
    /\ op[o].pc = "ask"
    /\ \/ \E q \in Process :
            /\ Obeys(o, q)
            /\ service' = [service EXCEPT ![q].state = "told"]
            /\ Goto(o, "remove")
       \/ (\A q \in Process : ~Obeys(o, q)) /\ Kill(o)
    /\ UNCHANGED <<processes, pidFile, commands, together, broken, stale, vouched>>

Remove(o) ==
    /\ op[o].pc = "remove"
    /\ pidFile' = NoFile
    /\ IF op[o].command = "stop" THEN Say(o, "nothing")
       ELSE op' = [op EXCEPT ![o] = [@ EXCEPT !.command = "start", !.pc = "read",
                                              !.struck = FALSE]]
    /\ UNCHANGED <<service, processes, commands, together, broken, stale, vouched>>

\* Ctrl+C, or a closed terminal.
Interrupt(o) ==
    /\ Running(o)
    /\ broken' = (broken \/ op[o].pc \in {"record", "wait"})
    /\ stale' = (stale \/ op[o].pc \in {"clean", "remove"})
    /\ op' = [op EXCEPT ![o] = NoOp]
    /\ UNCHANGED <<service, processes, pidFile, commands, together, vouched>>

----------------------------------------------------------------------------
(* Services *)

Becomes(p, state) == service' = [service EXCEPT ![p].state = state]

Foreground(a) ==
    /\ NewService(a, FALSE)
    /\ UNCHANGED <<pidFile, op, commands, together, broken, stale, vouched>>

\* The address is free, or the process ends.
Listen(p) ==
    /\ service[p].state = "booting"
    /\ Becomes(p, IF Healthy(service[p].addr) THEN "lost" ELSE "listening")
    /\ UNCHANGED <<processes, pidFile, op, commands, together, broken, stale, vouched>>

CloseListener(p) ==
    /\ service[p].state = "told"
    /\ Becomes(p, "draining")
    /\ UNCHANGED <<processes, pidFile, op, commands, together, broken, stale, vouched>>

\* At the end of its shutdown, because the token cannot be refreshed, on a signal, or
\* by a crash.
End(p) ==
    /\ Alive(p)
    /\ Becomes(p, IF service[p].state \in {"told", "draining"} THEN "dead" ELSE "lost")
    /\ UNCHANGED <<processes, pidFile, op, commands, together, broken, stale, vouched>>

Command(o) == \/ Read(o) \/ Probe(o) \/ Spawn(o) \/ Record(o) \/ RecordFails(o)
              \/ Started(o) \/ TimeOut(o) \/ Clean(o) \/ Ask(o) \/ Remove(o)

Next ==
    \/ \E o \in Operator :
        \/ \E command \in {"start", "restart"}, a \in Addr : Give(o, command, a)
        \/ Give(o, "stop", NoAddr)
        \/ Command(o)
        \/ Interrupt(o)
    \/ \E a \in Addr : Foreground(a)
    \/ \E p \in Process : Listen(p) \/ CloseListener(p) \/ End(p)

Spec == Init /\ [][Next]_vars

----------------------------------------------------------------------------
(* Properties *)

TypeOK ==
    /\ service \in [Process -> Service]
    /\ processes \in Process \cup {NoProcess}
    /\ pidFile \in State
    /\ op \in [Operator -> Op]
    /\ commands \in 0..MaxCommands
    /\ together \in BOOLEAN /\ broken \in BOOLEAN
    /\ stale \in BOOLEAN /\ vouched \in BOOLEAN

Starting(p) == \E o \in Operator : op[o].child = p /\ op[o].pc \in {"record", "wait"}

Mishap == together \/ broken \/ vouched

\* A background service can always be found and stopped: it is the one the PID file
\* names.  There are three exceptions: commands ran at the same time; a start was
\* interrupted; or a start reported success, because another service answered, while its
\* child was booting, and the next start found nobody and took the PID file.
NoOrphan ==
    \A p \in Process :
        service[p].state \in {"booting", "listening"} /\ service[p].tokened =>
            pidFile.process = p \/ Starting(p) \/ Mishap

\* stop and restart end the service for which the PID file was written, and nothing else:
\* no service that has taken over its address, and no process that has been given its PID.
\* There are three exceptions: that service has ended by itself, which leaves a PID file
\* with a PID that is free for others; a command was interrupted between ending a service
\* and removing its PID file; or commands ran at the same time.
StopHitsItsOwn ==
    [][\A o \in Operator :
            op[o].pc = "ask" /\ op'[o].pc = "remove" =>
                \/ /\ \A p \in Process \ {op[o].found.process} : service'[p] = service[p]
                   /\ ~op'[o].struck
                \/ service[op[o].found.process].state = "lost" \/ stale \/ together]_vars

\* start says that it launches the service and waits for its health check to pass: when
\* it reports success its child is serving.  With no command interrupted or beside it and
\* no `serve` in the foreground there is one exception: restart may have been answered by
\* the service it has just told to shut down, and its child finds the address taken.  (If
\* it finds it free in the end, it may become an orphan, which may answer a later start.)
StartedMeansServing ==
    [][\A o \in Operator :
            /\ Running(o) /\ op'[o].said = "started"
            /\ ~Mishap
            /\ \A p \in Process : service[p].state # "none" => service[p].tokened
            => \/ service[op[o].child].state \in {"listening", "told"}
               \/ \E q \in Process : Answers(q, op[o].addr) /\ service[q].state = "told"]_vars

=============================================================================
