----------------------------- MODULE DaemonProofs -----------------------------
(***************************************************************************)
(* What the commands promise, for any number of terminals, addresses,       *)
(* services and commands: a background service can be found through the PID *)
(* file unless there was a mishap, stop hits no process but its own unless  *)
(* its service was lost, and a start that reports success has a child that  *)
(* serves.                                                                  *)
(*                                                                         *)
(* As long as there is no mishap one command runs at a time (OneCommand),   *)
(* and only its child may be booting (Booting).  So a health check that     *)
(* nobody answers means that no background service is left, and the start   *)
(* that follows may take the PID file (Stages).                             *)
(***************************************************************************)
EXTENDS Daemon, TLAPS

\* A background service that has not been told to stop.
Live(p) == service[p].state \in {"booting", "listening"} /\ service[p].tokened

\* Processes are numbered in the order of their start.
Numbered ==
    /\ \A p \in Process : p > processes => service[p].state = "none"
    /\ pidFile.process <= processes
    /\ \A o \in Operator : op[o].child <= processes /\ op[o].found.process <= processes

\* A command knows the child it has made, and the PID file describes such a child.
Made(p, a) == p \in Process /\ service[p].addr = a /\ service[p].tokened

Described ==
    /\ pidFile # NoFile => Made(pidFile.process, pidFile.addr)
    /\ \A o \in Operator : op[o].pc \in {"record", "wait"} => Made(op[o].child, op[o].addr)

OneCommand == ~together => \A o, q \in Operator : Running(o) /\ Running(q) => o = q

Booting ==
    ~Mishap =>
        \A p \in Process : service[p].state = "booting" /\ service[p].tokened => Starting(p)

Stages ==
    ~Mishap => \A o \in Operator :
        /\ op[o].pc \in {"probe", "ask"} => op[o].found = pidFile /\ pidFile # NoFile
        /\ op[o].pc \in {"spawn", "clean", "remove"} => \A p \in Process : ~Live(p)
        /\ op[o].pc \in {"record", "wait"} => \A p \in Process : Live(p) => p = op[o].child
        /\ op[o].pc = "wait" => pidFile.process = op[o].child

Known == TypeOK /\ Numbered /\ Described /\ OneCommand

IInv == Known /\ Booting /\ Stages /\ NoOrphan

----------------------------------------------------------------------------
(* What the steps do to a terminal and to a service *)

\* Terminal o is at pc afterwards, and the others are where they were.
Turns(o, pc, child, found, addr) ==
    /\ op' \in [Operator -> Op]
    /\ \A q \in Operator \ {o} : op'[q] = op[q]
    /\ op'[o].pc = pc /\ op'[o].child = child /\ op'[o].found = found
    /\ op'[o].addr = addr

LEMMA NoOpType == NoOp \in Op
BY ConstantsAssumption DEF NoOp, NoFile, Op, Place, State

LEMMA Turning ==
    ASSUME TypeOK, NEW o \in Operator, NEW x \in Op, op' = [op EXCEPT ![o] = x]
    PROVE  Turns(o, x.pc, x.child, x.found, x.addr)
BY DEF TypeOK, Turns

LEMMA Changing ==
    ASSUME NEW x \in Op, NEW place \in Place, NEW state \in State,
           NEW child \in Process \cup {NoProcess}, NEW struck \in BOOLEAN,
           NEW command \in {"start", "stop", "restart"}
    PROVE  /\ [x EXCEPT !.pc = place] \in Op
           /\ [x EXCEPT !.command = command] \in Op
           /\ [x EXCEPT !.found = state, !.pc = place] \in Op
           /\ [x EXCEPT !.pc = place, !.child = child] \in Op
           /\ [x EXCEPT !.command = command, !.pc = place, !.struck = FALSE] \in Op
           /\ [x EXCEPT !.pc = place, !.struck = struck] \in Op
BY DEF Op

LEMMA GotoTurns ==
    ASSUME TypeOK, NEW o \in Operator, NEW place \in Place, Goto(o, place)
    PROVE  Turns(o, place, op[o].child, op[o].found, op[o].addr)
<1> DEFINE x == [op[o] EXCEPT !.pc = place]
<1>1. op[o] \in Op
  BY DEF TypeOK
<1>2. NoFile \in State /\ NoProcess \in Process \cup {NoProcess}
  BY DEF NoFile, State
<1>3. x \in Op
  BY <1>1, <1>2, Changing
<1>4. op' = [op EXCEPT ![o] = x]
  BY DEF Goto
<1>5. Turns(o, x.pc, x.child, x.found, x.addr)
  BY <1>3, <1>4, Turning
<1>6. x.pc = place /\ x.child = op[o].child /\ x.found = op[o].found /\ x.addr = op[o].addr
  BY <1>1 DEF Op
<1> QED
  BY <1>5, <1>6

LEMMA SayTurns ==
    ASSUME TypeOK, NEW o \in Operator,
           NEW what \in {"nothing", "started"}, Say(o, what)
    PROVE  Turns(o, "idle", NoProcess, NoFile, NoAddr)
<1> DEFINE x == [NoOp EXCEPT !.said = what]
<1>1. x \in Op
  BY NoOpType DEF Op
<1>2. op' = [op EXCEPT ![o] = x]
  BY DEF Say
<1>3. Turns(o, x.pc, x.child, x.found, x.addr)
  BY <1>1, <1>2, Turning
<1>4. x.pc = "idle" /\ x.child = NoProcess /\ x.found = NoFile /\ x.addr = NoAddr
  BY DEF NoOp
<1> QED
  BY <1>3, <1>4

\* A service is as it was but for its state.
Same(q) == service'[q].addr = service[q].addr /\ service'[q].tokened = service[q].tokened

LEMMA NewServiceMakes ==
    ASSUME TypeOK, NEW a \in Addr \cup {NoAddr}, NEW tokened \in BOOLEAN, NewService(a, tokened)
    PROVE  /\ service' \in [Process -> Service]
           /\ processes' = processes + 1 /\ processes' \in Process
           /\ \A q \in Process \ {processes'} : service'[q] = service[q]
           /\ service'[processes'].state = "booting" /\ service'[processes'].addr = a
           /\ service'[processes'].tokened = tokened
<1> DEFINE x == [state |-> "booting", addr |-> a, tokened |-> tokened]
<1>1. x \in Service
  BY DEF Service
<1>2. processes' = processes + 1 /\ processes' \in Process
  BY ConstantsAssumption DEF NewService, TypeOK, Process, NoProcess
<1>3. service' = [service EXCEPT ![processes'] = x]
  BY <1>2 DEF NewService
<1>4. x.state = "booting" /\ x.addr = a /\ x.tokened = tokened
  OBVIOUS
<1> HIDE DEF x
<1> QED
  BY <1>1, <1>2, <1>3, <1>4 DEF TypeOK

\* The states of services change, and nothing else about them.
Become(state) ==
    /\ service' \in [Process -> Service]
    /\ \A q \in Process : Same(q) /\ service'[q].state = state[q]

LEMMA KilledDies ==
    ASSUME TypeOK, NEW p, service' = Killed(p)
    PROVE  Become([q \in Process |-> IF q = p THEN "dead" ELSE service[q].state])
<1>1. ASSUME NEW q \in Process
      PROVE  service'[q] \in Service /\ Same(q)
             /\ service'[q].state = IF q = p THEN "dead" ELSE service[q].state
  <2>1. service[q] \in Service
    BY DEF TypeOK
  <2>2. CASE q = p
    <3>1. service'[q] = [service[q] EXCEPT !.state = "dead"]
      BY <2>2 DEF Killed
    <3> QED
      BY <2>1, <2>2, <3>1 DEF Service, Same
  <2>3. CASE q # p
    <3>1. service'[q] = service[q]
      BY <2>3 DEF Killed
    <3> QED
      BY <2>1, <2>3, <3>1 DEF Same
  <2> QED
    BY <2>2, <2>3
<1>2. service' = [q \in Process |-> service'[q]]
  BY DEF Killed
<1> QED
  BY <1>1, <1>2 DEF Become

LEMMA BecomesState ==
    ASSUME TypeOK, NEW p \in Process,
           NEW state \in {"listening", "told", "draining", "dead", "lost"}, Becomes(p, state)
    PROVE  Become([q \in Process |-> IF q = p THEN state ELSE service[q].state])
<1>1. ASSUME NEW q \in Process
      PROVE  service'[q] \in Service /\ Same(q)
             /\ service'[q].state = IF q = p THEN state ELSE service[q].state
  <2>1. service[q] \in Service
    BY DEF TypeOK
  <2>2. CASE q = p
    <3>1. service'[q] = [service[q] EXCEPT !.state = state]
      BY <2>2 DEF Becomes, TypeOK
    <3> QED
      BY <2>1, <2>2, <3>1 DEF Service, Same
  <2>3. CASE q # p
    <3>1. service'[q] = service[q]
      BY <2>3 DEF Becomes, TypeOK
    <3> QED
      BY <2>1, <2>3, <3>1 DEF Same
  <2> QED
    BY <2>2, <2>3
<1>2. service' = [q \in Process |-> service'[q]]
  BY DEF Becomes, TypeOK
<1> QED
  BY <1>1, <1>2 DEF Become

----------------------------------------------------------------------------
(* What the commands do *)

LEMMA GiveDoes ==
    ASSUME TypeOK, NEW o \in Operator, NEW command \in {"start", "stop", "restart"},
           NEW a \in Addr \cup {NoAddr}, Give(o, command, a)
    PROVE  Turns(o, "read", NoProcess, NoFile, a)
<1> DEFINE x == [NoOp EXCEPT !.pc = "read", !.command = command, !.addr = a]
<1>1. x \in Op
  BY NoOpType DEF Op, Place
<1>2. op' = [op EXCEPT ![o] = x]
  BY DEF Give
<1>3. Turns(o, x.pc, x.child, x.found, x.addr)
  BY <1>1, <1>2, Turning
<1>4. x.pc = "read" /\ x.child = NoProcess /\ x.found = NoFile /\ x.addr = a
  BY DEF NoOp
<1> QED
  BY <1>3, <1>4

LEMMA ReadDoes ==
    ASSUME TypeOK, NEW o \in Operator, Read(o)
    PROVE  \/ Turns(o, "idle", NoProcess, NoFile, NoAddr)
           \/ Turns(o, "read", op[o].child, op[o].found, op[o].addr)
           \/ pidFile = NoFile /\ Turns(o, "spawn", op[o].child, op[o].found, op[o].addr)
           \/ /\ pidFile # NoFile
              /\ \E pc \in {"probe", "ask"} :
                    Turns(o, pc, op[o].child, pidFile, op[o].addr)
<1>1. op[o] \in Op /\ pidFile \in State
  BY DEF TypeOK
<1>2. CASE pidFile = NoFile /\ Goto(o, "spawn")
  BY <1>2, GotoTurns DEF Place
<1>3. CASE Say(o, "nothing")
  BY <1>3, SayTurns
<1>4. CASE op' = [op EXCEPT ![o].command = "start"]
  <2> DEFINE x == [op[o] EXCEPT !.command = "start"]
  <2>1. op' = [op EXCEPT ![o] = x]
    BY <1>4
  <2>2. x \in Op
    BY <1>1 DEF Op
  <2>3. /\ x.pc = op[o].pc /\ x.child = op[o].child /\ x.found = op[o].found
        /\ x.addr = op[o].addr
    BY <1>1 DEF Op
  <2>4. Turns(o, x.pc, x.child, x.found, x.addr)
    BY <2>1, <2>2, Turning
  <2> QED
    BY <2>3, <2>4 DEF Read
<1>5. CASE pidFile # NoFile
  <2> DEFINE place == IF op[o].command = "start" THEN "probe" ELSE "ask"
             x == [op[o] EXCEPT !.found = pidFile, !.pc = place]
  <2>1. op' = [op EXCEPT ![o] = x]
    BY <1>5 DEF Read
  <2>2. x \in Op
    BY <1>1 DEF Op, Place
  <2>3. /\ x.pc = place /\ x.child = op[o].child /\ x.found = pidFile
        /\ x.addr = op[o].addr
    BY <1>1 DEF Op
  <2>4. Turns(o, x.pc, x.child, x.found, x.addr)
    BY <2>1, <2>2, Turning
  <2> QED
    BY <1>5, <2>3, <2>4
<1> QED
  BY <1>2, <1>3, <1>4, <1>5 DEF Read

LEMMA ProbeDoes ==
    ASSUME TypeOK, NEW o \in Operator, Probe(o)
    PROVE  \/ Turns(o, "idle", NoProcess, NoFile, NoAddr)
           \/ /\ ~Healthy(op[o].found.addr)
              /\ Turns(o, "spawn", op[o].child, op[o].found, op[o].addr)
BY GotoTurns, SayTurns DEF Probe, Place

LEMMA SpawnDoes ==
    ASSUME TypeOK, NEW o \in Operator, Spawn(o)
    PROVE  /\ Turns(o, "record", processes', op[o].found, op[o].addr)
           /\ service' \in [Process -> Service]
           /\ processes' = processes + 1 /\ processes' \in Process
           /\ \A q \in Process \ {processes'} : service'[q] = service[q]
           /\ service'[processes'].state = "booting" /\ service'[processes'].addr = op[o].addr
           /\ service'[processes'].tokened = TRUE
<1>1. op[o] \in Op
  BY DEF TypeOK
<1>2. op[o].addr \in Addr \cup {NoAddr}
  BY <1>1 DEF Op
<1>3. NewService(op[o].addr, TRUE)
  BY DEF Spawn
<1>4. /\ service' \in [Process -> Service]
      /\ processes' = processes + 1 /\ processes' \in Process
      /\ \A q \in Process \ {processes'} : service'[q] = service[q]
      /\ service'[processes'].state = "booting" /\ service'[processes'].addr = op[o].addr
      /\ service'[processes'].tokened = TRUE
  BY <1>2, <1>3, NewServiceMakes
<1> DEFINE x == [op[o] EXCEPT !.pc = "record", !.child = processes']
<1>5. op' = [op EXCEPT ![o] = x]
  BY <1>4 DEF Spawn
<1>6. x \in Op
  BY <1>1, <1>4 DEF Op, Place
<1>7. x.pc = "record" /\ x.child = processes' /\ x.found = op[o].found /\ x.addr = op[o].addr
  BY <1>1 DEF Op
<1>8. Turns(o, x.pc, x.child, x.found, x.addr)
  BY <1>5, <1>6, Turning
<1> QED
  BY <1>4, <1>7, <1>8

LEMMA RemoveDoes ==
    ASSUME TypeOK, NEW o \in Operator, Remove(o)
    PROVE  \/ Turns(o, "idle", NoProcess, NoFile, NoAddr)
           \/ Turns(o, "read", op[o].child, op[o].found, op[o].addr)
<1>1. CASE op[o].command = "stop"
  BY <1>1, SayTurns DEF Remove
<1>2. CASE op[o].command # "stop"
  <2> DEFINE x == [op[o] EXCEPT !.command = "start", !.pc = "read", !.struck = FALSE]
  <2>1. op' = [op EXCEPT ![o] = x]
    BY <1>2 DEF Remove
  <2>2. op[o] \in Op
    BY DEF TypeOK
  <2>3. x \in Op
    BY <2>2 DEF Op, Place
  <2>4. /\ x.pc = "read" /\ x.child = op[o].child /\ x.found = op[o].found
        /\ x.addr = op[o].addr
    BY <2>2 DEF Op
  <2>5. Turns(o, x.pc, x.child, x.found, x.addr)
    BY <2>1, <2>3, Turning
  <2> QED
    BY <2>4, <2>5
<1> QED
  BY <1>1, <1>2

LEMMA InterruptDoes ==
    ASSUME TypeOK, NEW o \in Operator, Interrupt(o)
    PROVE  Turns(o, "idle", NoProcess, NoFile, NoAddr)
<1>1. NoOp.pc = "idle" /\ NoOp.child = NoProcess /\ NoOp.found = NoFile /\ NoOp.addr = NoAddr
  BY DEF NoOp
<1>2. Turns(o, NoOp.pc, NoOp.child, NoOp.found, NoOp.addr)
  BY NoOpType, Turning DEF Interrupt
<1> QED
  BY <1>1, <1>2

\* One process is told to shut down or killed, or none is; it is the recorded one if that
\* is alive.
Hits(p, s, o) ==
    /\ Become([q \in Process |-> IF q = p THEN s ELSE service[q].state])
    /\ p \in Process => Alive(p)
    /\ op[o].found.process \in Process /\ Alive(op[o].found.process) =>
          p = op[o].found.process /\ op'[o].struck = op[o].struck

LEMMA KillDoes ==
    ASSUME TypeOK, NEW o \in Operator, Kill(o)
    PROVE  /\ Turns(o, "remove", op[o].child, op[o].found, op[o].addr)
           /\ \E p : Hits(p, "dead", o)
<1> DEFINE p == op[o].found.process
<1>1. op[o] \in Op /\ op \in [Operator -> Op]
  BY DEF TypeOK
<1>2. CASE Alive(p) /\ service' = Killed(p) /\ Goto(o, "remove")
  <2>1. Hits(p, "dead", o)
    BY <1>1, <1>2, KilledDies DEF Hits, Goto, Op
  <2> QED
    BY <1>2, <2>1, GotoTurns DEF Place
<1>3. ASSUME ~Alive(p), NEW q \in Process, Alive(q), service' = Killed(q), Goto(o, "remove")
      PROVE  /\ Turns(o, "remove", op[o].child, op[o].found, op[o].addr)
             /\ \E v : Hits(v, "dead", o)
  <2>1. Hits(q, "dead", o)
    BY <1>3, KilledDies DEF Hits
  <2> QED
    BY <1>3, <2>1, GotoTurns DEF Place
<1>4. ASSUME ~Alive(p), service' = service, NEW struck \in BOOLEAN,
             op' = [op EXCEPT ![o].pc = "remove", ![o].struck = struck]
      PROVE  /\ Turns(o, "remove", op[o].child, op[o].found, op[o].addr)
             /\ \E v : Hits(v, "dead", o)
  <2> DEFINE x == [op[o] EXCEPT !.pc = "remove", !.struck = struck]
  <2>1. op' = [op EXCEPT ![o] = x]
    BY <1>4
  <2>2. x \in Op
    BY <1>1, <1>4 DEF Op, Place
  <2>3. x.pc = "remove" /\ x.child = op[o].child /\ x.found = op[o].found /\ x.addr = op[o].addr
    BY <1>1 DEF Op
  <2>4. Turns(o, x.pc, x.child, x.found, x.addr)
    BY <2>1, <2>2, Turning
  <2>5. NoProcess \notin Process
    BY DEF NoProcess, Process
  <2>6. Become([q \in Process |-> IF q = NoProcess THEN "dead" ELSE service[q].state])
    BY <1>4, <2>5 DEF TypeOK, Become, Same
  <2>7. Hits(NoProcess, "dead", o)
    BY <1>4, <2>5, <2>6 DEF Hits
  <2> QED
    BY <2>3, <2>4, <2>7
<1> QED
  BY <1>2, <1>3, <1>4 DEF Kill

LEMMA AskDoes ==
    ASSUME TypeOK, NEW o \in Operator, Ask(o)
    PROVE  /\ Turns(o, "remove", op[o].child, op[o].found, op[o].addr)
           /\ \E p : \E s \in {"told", "dead"} : Hits(p, s, o)
<1>1. ASSUME NEW q \in Process, Obeys(o, q), service' = [service EXCEPT ![q].state = "told"],
             Goto(o, "remove")
      PROVE  Turns(o, "remove", op[o].child, op[o].found, op[o].addr) /\ Hits(q, "told", o)
  <2>1. Become([p \in Process |-> IF p = q THEN "told" ELSE service[p].state])
    BY <1>1, BecomesState DEF Becomes
  <2>2. op \in [Operator -> Op] /\ op[o] \in Op
    BY DEF TypeOK
  <2>3. op'[o].struck = op[o].struck
    BY <1>1, <2>2 DEF Goto, Op
  <2>4. Hits(q, "told", o)
    BY <1>1, <2>1, <2>3 DEF Hits, Obeys, Answers, Alive
  <2> QED
    BY <1>1, <2>4, GotoTurns DEF Place
<1> QED
  BY <1>1, KillDoes DEF Ask

----------------------------------------------------------------------------
(* Every step *)

LEMMA InvInit == Init => IInv
<1> SUFFICES ASSUME Init PROVE IInv
  OBVIOUS
<1> USE ConstantsAssumption DEF Init
<1>1. TypeOK
  <2>1. pidFile \in State
    BY DEF NoFile, State
  <2>2. service \in [Process -> Service]
    BY DEF Service
  <2>3. op \in [Operator -> Op]
    BY NoOpType
  <2>4. processes \in Process \cup {NoProcess} /\ commands \in 0..MaxCommands
    BY DEF NoProcess
  <2>5. together \in BOOLEAN /\ broken \in BOOLEAN /\ stale \in BOOLEAN /\ vouched \in BOOLEAN
    BY Zenon
  <2> QED
    BY <2>1, <2>2, <2>3, <2>4, <2>5, Zenon DEF TypeOK
<1>2. \A o \in Operator : op[o].pc = "idle" /\ op[o].child = NoProcess /\ op[o].found = NoFile
  BY DEF NoOp
<1>3. \A p \in Process : service[p].state = "none"
  OBVIOUS
<1>4. Numbered /\ Described /\ OneCommand
  BY <1>2, <1>3 DEF Numbered, Described, OneCommand, Running, NoFile, NoProcess, Process
<1>5. Booting /\ Stages /\ NoOrphan
  BY <1>2, <1>3 DEF Booting, Stages, NoOrphan, Live
<1> QED
  BY <1>1, <1>4, <1>5 DEF IInv, Known

----------------------------------------------------------------------------
(* Types and numbers *)

LEMMA TypeKept ==
    ASSUME TypeOK, service' \in [Process -> Service], processes' \in Process \cup {NoProcess},
           pidFile' \in State, op' \in [Operator -> Op], commands' \in 0..MaxCommands,
           together' \in BOOLEAN, broken' \in BOOLEAN, stale' \in BOOLEAN,
           vouched' \in BOOLEAN
    PROVE  TypeOK'
BY Zenon DEF TypeOK

LEMMA TypeStep == Known /\ [Next]_vars => TypeOK'
<1> SUFFICES ASSUME Known, [Next]_vars PROVE TypeOK'
  OBVIOUS
<1> USE DEF Known
<1>1. /\ service \in [Process -> Service] /\ processes \in Process \cup {NoProcess}
      /\ pidFile \in State
      /\ op \in [Operator -> Op] /\ commands \in 0..MaxCommands
  BY DEF TypeOK
<1>2. together \in BOOLEAN /\ broken \in BOOLEAN /\ stale \in BOOLEAN /\ vouched \in BOOLEAN
  BY Zenon DEF TypeOK
<1>3. NoFile \in State
  BY DEF NoFile, State
<1>4. together' \in BOOLEAN /\ broken' \in BOOLEAN /\ stale' \in BOOLEAN /\ vouched' \in BOOLEAN
  BY <1>2, ZenonT(40)
  DEF Next, Command, Give, Read, Probe, Spawn, Record, RecordFails, Started, TimeOut,
      Clean, Ask, Remove, Interrupt, Foreground, Listen, CloseListener, End, vars
<1>5. commands' \in 0..MaxCommands
  <2>1. ASSUME NEW o \in Operator, NEW command, NEW a, Give(o, command, a)
        PROVE  commands' \in 0..MaxCommands
    BY <1>1, <2>1, ConstantsAssumption DEF Give
  <2>2. ASSUME NEW o \in Operator, Command(o) PROVE commands' = commands
    BY <2>2 DEF Command, Read, Probe, Spawn, Record, RecordFails, Started, TimeOut,
                Clean, Ask, Remove
  <2> QED
    BY <1>1, <2>1, <2>2, Zenon
    DEF Next, Interrupt, Foreground, Listen, CloseListener, End, vars
<1>6. op' \in [Operator -> Op]
  <2>1. ASSUME NEW o \in Operator, NEW command \in {"start", "stop", "restart"},
               NEW a \in Addr \cup {NoAddr}, Give(o, command, a)
        PROVE  op' \in [Operator -> Op]
    BY <2>1, GiveDoes DEF Turns
  <2>2. ASSUME NEW o \in Operator, Command(o) PROVE op' \in [Operator -> Op]
    <3>1. CASE Read(o)
      BY <3>1, ReadDoes DEF Turns
    <3>2. CASE Probe(o)
      BY <3>2, ProbeDoes DEF Turns
    <3>3. CASE Spawn(o)
      BY <3>3, SpawnDoes DEF Turns
    <3>4. CASE Record(o)
      BY <3>4, GotoTurns DEF Record, Turns, Place
    <3>5. CASE RecordFails(o) \/ Started(o) \/ Clean(o)
      BY <3>5, SayTurns DEF RecordFails, Started, Clean, Turns
    <3>6. CASE TimeOut(o)
      BY <3>6, GotoTurns DEF TimeOut, Turns, Place
    <3>7. CASE Ask(o)
      BY <3>7, AskDoes DEF Turns
    <3>8. CASE Remove(o)
      BY <3>8, RemoveDoes DEF Turns
    <3> QED
      BY <2>2, <3>1, <3>2, <3>3, <3>4, <3>5, <3>6, <3>7, <3>8 DEF Command
  <2>3. ASSUME NEW o \in Operator, Interrupt(o) PROVE op' \in [Operator -> Op]
    BY <2>3, InterruptDoes DEF Turns
  <2> QED
    BY <1>1, <2>1, <2>2, <2>3
    DEF Next, Foreground, Listen, CloseListener, End, vars
<1>7. service' \in [Process -> Service] /\ processes' \in Process \cup {NoProcess}
  <2>1. ASSUME NEW o \in Operator, Command(o)
        PROVE  service' \in [Process -> Service] /\ processes' \in Process \cup {NoProcess}
    <3>1. CASE Spawn(o)
      BY <3>1, SpawnDoes
    <3>2. CASE RecordFails(o) \/ TimeOut(o)
      BY <1>1, <3>2, KilledDies DEF RecordFails, TimeOut, Become
    <3>3. CASE Ask(o)
      <4>1. \E p, s : Hits(p, s, o)
        BY <1>1, <3>3, AskDoes
      <4> QED
        BY <1>1, <3>3, <4>1 DEF Hits, Become, Ask
    <3> QED
      BY <1>1, <2>1, <3>1, <3>2, <3>3
      DEF Command, Read, Probe, Record, Started, Clean, Remove
  <2>2. ASSUME NEW a \in Addr, Foreground(a)
        PROVE  service' \in [Process -> Service] /\ processes' \in Process \cup {NoProcess}
    BY <2>2, NewServiceMakes DEF Foreground
  <2>3. ASSUME NEW p \in Process, Listen(p) \/ CloseListener(p) \/ End(p)
        PROVE  service' \in [Process -> Service] /\ processes' \in Process \cup {NoProcess}
    BY <1>1, <2>3, BecomesState DEF Listen, CloseListener, End, Become
  <2> QED
    BY <1>1, <2>1, <2>2, <2>3 DEF Next, Give, Interrupt, vars
<1>8. pidFile' \in State
  <2>1. ASSUME NEW o \in Operator, Record(o) PROVE pidFile' \in State
    <3>1. op[o] \in Op
      BY <1>1
    <3>2. op[o].child \in Process \cup {NoProcess} /\ op[o].addr \in Addr \cup {NoAddr}
      BY <3>1 DEF Op
    <3> QED
      BY <2>1, <3>2 DEF Record, State
  <2>2. ASSUME NEW o \in Operator, Command(o) PROVE pidFile' \in State
    BY <1>1, <1>3, <2>1, <2>2
    DEF Command, Read, Probe, Spawn, RecordFails, Started, TimeOut, Clean, Ask, Remove
  <2> QED
    BY <1>1, <2>2 DEF Next, Give, Interrupt, Foreground, Listen, CloseListener, End, vars
<1> QED
  BY <1>4, <1>5, <1>6, <1>7, <1>8, TypeKept

----------------------------------------------------------------------------
\* Exactly the services that were made have a state.
LEMMA NumberedKept ==
    ASSUME TypeOK, Numbered, NEW o \in Operator, NEW pc, NEW child, NEW found, NEW addr,
           Turns(o, pc, child, found, addr), processes <= processes', processes' \in Nat,
           child <= processes', found.process <= processes', pidFile'.process <= processes',
           \A p \in Process : p > processes' => service'[p].state = "none"
    PROVE  Numbered'
<1>1. \A q \in Operator : op[q].child \in Nat /\ op[q].found.process \in Nat
  BY ConstantsAssumption DEF TypeOK, Op, State, Process, NoProcess
<1>2. processes \in Nat
  BY ConstantsAssumption DEF TypeOK, Process, NoProcess
<1>3. ASSUME NEW q \in Operator
      PROVE  op'[q].child <= processes' /\ op'[q].found.process <= processes'
  <2>1. CASE q = o
    BY <2>1 DEF Turns
  <2>2. CASE q # o
    <3>1. op'[q] = op[q]
      BY <2>2 DEF Turns
    <3>2. op[q].child <= processes /\ op[q].found.process <= processes
      BY DEF Numbered
    <3> QED
      BY <1>1, <1>2, <3>1, <3>2
  <2> QED
    BY <2>1, <2>2
<1> QED
  BY <1>3 DEF Numbered

LEMMA NumberedStep == Known /\ [Next]_vars => Numbered'
<1> SUFFICES ASSUME Known, [Next]_vars PROVE Numbered'
  OBVIOUS
<1> USE DEF Known
<1>1. /\ processes \in Nat /\ processes <= processes /\ NoProcess <= processes
      /\ NoFile.process <= processes /\ pidFile.process <= processes
      /\ \A o \in Operator : op[o].child <= processes /\ op[o].found.process <= processes
      /\ \A p \in Process : p > processes => service[p].state = "none"
  BY ConstantsAssumption DEF TypeOK, Numbered, Process, NoProcess, NoFile
<1>2. ASSUME NEW o \in Operator, NEW command \in {"start", "stop", "restart"},
             NEW a \in Addr \cup {NoAddr}, Give(o, command, a) PROVE Numbered'
  <2>1. Turns(o, "read", NoProcess, NoFile, a)
    BY <1>2, GiveDoes
  <2> QED
    BY <1>1, <1>2, <2>1, NumberedKept DEF Give
<1>3. ASSUME NEW o \in Operator, Read(o) PROVE Numbered'
  <2>1. UNCHANGED <<service, processes, pidFile>>
    BY <1>3 DEF Read
  <2>2. ASSUME NEW pc, NEW found, found.process <= processes, NEW child, child <= processes,
               NEW addr,
               Turns(o, pc, child, found, addr)
        PROVE  Numbered'
    BY <1>1, <2>1, <2>2, NumberedKept
  <2> QED
    BY <1>1, <1>3, <2>2, ReadDoes
<1>4. ASSUME NEW o \in Operator, Probe(o) PROVE Numbered'
  <2>1. UNCHANGED <<service, processes, pidFile>>
    BY <1>4 DEF Probe
  <2>2. CASE Turns(o, "idle", NoProcess, NoFile, NoAddr)
    BY <1>1, <2>1, <2>2, NumberedKept
  <2>3. CASE Turns(o, "spawn", op[o].child, op[o].found, op[o].addr)
    BY <1>1, <2>1, <2>3, NumberedKept
  <2> QED
    BY <1>4, <2>2, <2>3, ProbeDoes
<1>5. ASSUME NEW o \in Operator, Spawn(o) PROVE Numbered'
  <2>1. /\ Turns(o, "record", processes', op[o].found, op[o].addr)
        /\ processes' = processes + 1 /\ processes' \in Process
        /\ \A q \in Process \ {processes'} : service'[q] = service[q]
    BY <1>5, SpawnDoes
  <2>2. pidFile' = pidFile
    BY <1>5 DEF Spawn
  <2>3. \A p \in Process : p > processes' => service'[p].state = "none"
    BY <1>1, <2>1 DEF Process
  <2>4. op[o].found.process \in Nat /\ pidFile.process \in Nat
    BY ConstantsAssumption DEF TypeOK, Op, State, Process, NoProcess
  <2>5. /\ processes <= processes' /\ processes' \in Nat
        /\ op[o].found.process <= processes' /\ pidFile'.process <= processes'
    BY <1>1, <2>1, <2>2, <2>4
  <2> QED
    BY <2>1, <2>3, <2>5, NumberedKept
<1>6. ASSUME NEW o \in Operator, Record(o) PROVE Numbered'
  <2>1. Turns(o, "wait", op[o].child, op[o].found, op[o].addr)
    BY <1>6, GotoTurns DEF Record, Place
  <2>2. UNCHANGED <<service, processes>> /\ pidFile'.process = op[o].child
    BY <1>6 DEF Record
  <2> QED
    BY <1>1, <2>1, <2>2, NumberedKept
<1>7. ASSUME NEW o \in Operator, NEW p, p \in Process => p <= processes, NEW pc, NEW addr,
             NEW child, child <= processes, NEW found, found.process <= processes,
             Turns(o, pc, child, found, addr),
             NEW s, Become([q \in Process |-> IF q = p THEN s ELSE service[q].state]),
             UNCHANGED <<processes, pidFile>>
      PROVE  Numbered'
  <2>1. ASSUME NEW q \in Process, q > processes PROVE service'[q].state = "none"
    BY <1>1, <1>7, <2>1 DEF Become, Process
  <2> QED
    BY <1>1, <1>7, <2>1, NumberedKept
<1>8. ASSUME NEW o \in Operator, RecordFails(o) PROVE Numbered'
  <2>1. Turns(o, "idle", NoProcess, NoFile, NoAddr)
    BY <1>8, SayTurns DEF RecordFails
  <2> QED
    BY <1>1, <1>7, <1>8, <2>1, KilledDies, ZenonT(60) DEF RecordFails
<1>9. ASSUME NEW o \in Operator, Started(o) PROVE Numbered'
  <2>1. Turns(o, "idle", NoProcess, NoFile, NoAddr) /\ UNCHANGED <<service, processes, pidFile>>
    BY <1>9, SayTurns DEF Started
  <2> QED
    BY <1>1, <2>1, NumberedKept
<1>10. ASSUME NEW o \in Operator, TimeOut(o) PROVE Numbered'
  <2>1. Turns(o, "clean", op[o].child, op[o].found, op[o].addr)
    BY <1>10, GotoTurns DEF TimeOut, Place
  <2> QED
    BY <1>1, <1>7, <1>10, <2>1, KilledDies, ZenonT(60) DEF TimeOut
<1>11. ASSUME NEW o \in Operator, Clean(o) PROVE Numbered'
  <2>1. Turns(o, "idle", NoProcess, NoFile, NoAddr)
    BY <1>11, SayTurns DEF Clean
  <2>2. UNCHANGED <<service, processes>> /\ pidFile' = NoFile
    BY <1>11 DEF Clean
  <2> QED
    BY <1>1, <2>1, <2>2, NumberedKept
<1>12. ASSUME NEW o \in Operator, Ask(o) PROVE Numbered'
  <2>1. UNCHANGED <<processes, pidFile>>
    BY <1>12 DEF Ask
  <2>2. PICK p : \E s \in {"told", "dead"} : Hits(p, s, o)
    BY <1>12, AskDoes
  <2>3. p \in Process => p <= processes
    BY <1>1, <2>2 DEF Hits, Alive, Process
  <2> QED
    BY <1>1, <1>7, <1>12, <2>1, <2>2, <2>3, AskDoes DEF Hits
<1>13. ASSUME NEW o \in Operator, Remove(o) PROVE Numbered'
  <2>1. UNCHANGED <<service, processes>> /\ pidFile' = NoFile
    BY <1>13 DEF Remove
  <2>2. CASE Turns(o, "idle", NoProcess, NoFile, NoAddr)
    BY <1>1, <2>1, <2>2, NumberedKept
  <2>3. CASE Turns(o, "read", op[o].child, op[o].found, op[o].addr)
    BY <1>1, <2>1, <2>3, NumberedKept
  <2> QED
    BY <1>13, <2>2, <2>3, RemoveDoes
<1>14. ASSUME NEW o \in Operator, Interrupt(o) PROVE Numbered'
  <2>1. Turns(o, "idle", NoProcess, NoFile, NoAddr)
    BY <1>14, InterruptDoes
  <2>2. UNCHANGED <<service, processes, pidFile>>
    BY <1>14 DEF Interrupt
  <2> QED
    BY <1>1, <2>1, <2>2, NumberedKept
<1>15. ASSUME NEW a \in Addr, Foreground(a) PROVE Numbered'
  <2>1. /\ processes' = processes + 1 /\ processes' \in Process
        /\ \A q \in Process \ {processes'} : service'[q] = service[q]
    BY <1>15, NewServiceMakes DEF Foreground
  <2>2. UNCHANGED <<pidFile, op>>
    BY <1>15 DEF Foreground
  <2>3. \A p \in Process : p > processes' => service'[p].state = "none"
    BY <1>1, <2>1 DEF Process
  <2>4. /\ pidFile.process \in Nat
        /\ \A o \in Operator : op[o].child \in Nat /\ op[o].found.process \in Nat
    BY ConstantsAssumption DEF TypeOK, Op, State, Process, NoProcess
  <2>5. pidFile'.process <= processes'
    BY <1>1, <2>1, <2>2, <2>4
  <2>6. \A o \in Operator : op'[o].child <= processes' /\ op'[o].found.process <= processes'
    BY <1>1, <2>1, <2>2, <2>4
  <2> QED
    BY <2>3, <2>5, <2>6 DEF Numbered
<1>16. ASSUME NEW p \in Process, Listen(p) \/ CloseListener(p) \/ End(p) PROVE Numbered'
  <2>1. PICK s \in {"listening", "draining", "dead", "lost"} : Becomes(p, s)
    BY <1>16 DEF Listen, CloseListener, End
  <2>2. Become([q \in Process |-> IF q = p THEN s ELSE service[q].state])
    BY <2>1, BecomesState
  <2>3. service[p].state # "none" /\ UNCHANGED <<processes, pidFile, op>>
    BY <1>16 DEF Listen, CloseListener, End, Alive
  <2>4. \A q \in Process : q > processes' => service'[q].state = "none"
    BY <1>1, <2>2, <2>3 DEF Become
  <2> QED
    BY <1>1, <2>3, <2>4 DEF Numbered
<1>17. CASE UNCHANGED vars
  BY <1>17 DEF vars, Numbered
<1> QED
  BY <1>2, <1>3, <1>4, <1>5, <1>6, <1>8, <1>9, <1>10, <1>11, <1>12, <1>13, <1>14, <1>15, <1>16, <1>17
  DEF Next, Command

----------------------------------------------------------------------------
\* The services that were made keep their address and their token.
Keeps == \A p \in Process : p <= processes => Same(p)

LEMMA StepKeeps == Known /\ [Next]_vars => Keeps
<1> SUFFICES ASSUME Known, [Next]_vars PROVE Keeps
  OBVIOUS
<1> USE DEF Known
<1>1. processes \in Nat
  BY ConstantsAssumption DEF TypeOK, Process, NoProcess
<1>2. ASSUME service' = service PROVE Keeps
  BY <1>2 DEF Keeps, Same
<1>3. ASSUME NEW states, Become(states) PROVE Keeps
  BY <1>3 DEF Keeps, Become
<1>4. ASSUME processes' = processes + 1,
             \A q \in Process \ {processes'} : service'[q] = service[q]
      PROVE  Keeps
  BY <1>1, <1>4 DEF Keeps, Same, Process
<1>5. ASSUME NEW o \in Operator, Command(o) PROVE Keeps
  <2>1. CASE Spawn(o)
    BY <1>4, <2>1, SpawnDoes
  <2>2. CASE RecordFails(o) \/ TimeOut(o)
    BY <1>3, <2>2, KilledDies DEF RecordFails, TimeOut
  <2>3. CASE Ask(o)
    BY <1>3, <2>3, AskDoes DEF Hits
  <2> QED
    BY <1>2, <1>5, <2>1, <2>2, <2>3 DEF Command, Read, Probe, Record, Started, Clean, Remove
<1>6. ASSUME NEW a \in Addr, Foreground(a) PROVE Keeps
  BY <1>4, <1>6, NewServiceMakes DEF Foreground
<1>7. ASSUME NEW p \in Process, Listen(p) \/ CloseListener(p) \/ End(p) PROVE Keeps
  BY <1>3, <1>7, BecomesState DEF Listen, CloseListener, End
<1> QED
  BY <1>2, <1>5, <1>6, <1>7 DEF Next, Give, Interrupt, vars

LEMMA DescribedStep == Known /\ [Next]_vars => Described'
<1> SUFFICES ASSUME Known, [Next]_vars PROVE Described'
  OBVIOUS
<1> USE DEF Known
<1>1. Keeps
  BY StepKeeps
<1>2. /\ pidFile.process <= processes
      /\ \A o \in Operator : op[o].child <= processes
  BY DEF Numbered
<1>3. ASSUME pidFile # NoFile, pidFile' = pidFile
      PROVE  Made(pidFile.process, pidFile.addr)'
  <2>1. Made(pidFile.process, pidFile.addr)
    BY <1>3 DEF Described
  <2> QED
    BY <1>1, <1>2, <1>3, <2>1 DEF Keeps, Same, Made
<1>4. ASSUME NEW o \in Operator, op[o].pc \in {"record", "wait"}
      PROVE  Made(op[o].child, op[o].addr)'
             \/ op'[o].child # op[o].child \/ op'[o].addr # op[o].addr
  <2>1. Made(op[o].child, op[o].addr)
    BY <1>4 DEF Described
  <2>2. op[o].child \in Process /\ service'[op[o].child].addr = op[o].addr
        /\ service'[op[o].child].tokened
    BY <1>1, <1>2, <2>1 DEF Keeps, Same, Made
  <2> QED
    BY <2>2 DEF Made
<1>5. ASSUME pidFile' = pidFile \/ pidFile' = NoFile
      PROVE  pidFile' # NoFile => Made(pidFile.process, pidFile.addr)'
  BY <1>3, <1>5
<1>6. ASSUME NEW o \in Operator, NEW pc, NEW child, NEW found, NEW addr,
             Turns(o, pc, child, found, addr), pc \notin {"record", "wait"}
      PROVE  \A q \in Operator : op'[q].pc \in {"record", "wait"} => Made(op[q].child, op[q].addr)'
  BY <1>4, <1>6 DEF Turns
<1>7. ASSUME op' = op
      PROVE  \A q \in Operator : op'[q].pc \in {"record", "wait"} => Made(op[q].child, op[q].addr)'
  BY <1>4, <1>7
<1>8. ASSUME NEW o \in Operator, Command(o), ~Spawn(o), ~Record(o) PROVE Described'
  <2>1. pidFile' = pidFile \/ pidFile' = NoFile
    BY <1>8 DEF Command, Read, Probe, RecordFails, Started, TimeOut, Clean, Ask, Remove
  <2>2. \A q \in Operator : op'[q].pc \in {"record", "wait"} => Made(op[q].child, op[q].addr)'
    <3>1. CASE Read(o)
      BY <1>6, <3>1, ReadDoes
    <3>2. CASE Probe(o)
      BY <1>6, <3>2, ProbeDoes
    <3>3. CASE RecordFails(o) \/ Started(o) \/ Clean(o)
      BY <1>6, <3>3, SayTurns DEF RecordFails, Started, Clean
    <3>4. CASE TimeOut(o)
      BY <1>6, <3>4, GotoTurns DEF TimeOut, Place
    <3>5. CASE Ask(o)
      <4>1. Turns(o, "remove", op[o].child, op[o].found, op[o].addr)
        BY <3>5, AskDoes
      <4> QED
        BY <1>6, <4>1
    <3>6. CASE Remove(o)
      BY <1>6, <3>6, RemoveDoes
    <3> QED
      BY <1>8, <3>1, <3>2, <3>3, <3>4, <3>5, <3>6 DEF Command
  <2> QED
    BY <1>5, <2>1, <2>2 DEF Described
<1>9. ASSUME NEW o \in Operator, Spawn(o) PROVE Described'
  <2>1. /\ Turns(o, "record", processes', op[o].found, op[o].addr)
        /\ processes' \in Process
        /\ service'[processes'].addr = op[o].addr /\ service'[processes'].tokened = TRUE
    BY <1>9, SpawnDoes
  <2>2. Made(op[o].child, op[o].addr)'
    BY <2>1 DEF Turns, Made
  <2>3. \A q \in Operator : op'[q].pc \in {"record", "wait"} => Made(op[q].child, op[q].addr)'
    BY <1>4, <2>1, <2>2 DEF Turns
  <2> QED
    BY <1>5, <1>9, <2>3 DEF Described, Spawn
<1>10. ASSUME NEW o \in Operator, Record(o) PROVE Described'
  <2>1. Turns(o, "wait", op[o].child, op[o].found, op[o].addr)
    BY <1>10, GotoTurns DEF Record, Place
  <2>2. Made(op[o].child, op[o].addr)'
    BY <1>4, <1>10, <2>1 DEF Turns, Record
  <2>3. \A q \in Operator : op'[q].pc \in {"record", "wait"} => Made(op[q].child, op[q].addr)'
    BY <1>4, <2>1, <2>2 DEF Turns
  <2>4. pidFile'.process = op'[o].child /\ pidFile'.addr = op'[o].addr
    BY <1>10, <2>1 DEF Record, Turns
  <2>5. Made(pidFile.process, pidFile.addr)'
    BY <2>2, <2>4 DEF Made
  <2> QED
    BY <2>3, <2>5 DEF Described
<1>11. ASSUME NEW o \in Operator, NEW command \in {"start", "stop", "restart"},
              NEW a \in Addr \cup {NoAddr}, Give(o, command, a) PROVE Described'
  <2>1. Turns(o, "read", NoProcess, NoFile, a)
    BY <1>11, GiveDoes
  <2> QED
    BY <1>5, <1>6, <1>11, <2>1 DEF Give, Described
<1>12. ASSUME NEW o \in Operator, Interrupt(o) PROVE Described'
  BY <1>5, <1>6, <1>12, InterruptDoes DEF Interrupt, Described
<1>13. ASSUME UNCHANGED <<op, pidFile>> PROVE Described'
  BY <1>5, <1>7, <1>13 DEF Described
<1> QED
  BY <1>8, <1>9, <1>10, <1>11, <1>12, <1>13
  DEF Next, Command, Foreground, Listen, CloseListener, End, vars

----------------------------------------------------------------------------
\* A terminal in which a command is running is the only one, and stays it.
LEMMA OneCommandStep == Known /\ [Next]_vars => OneCommand'
<1> SUFFICES ASSUME Known, [Next]_vars, ~together' PROVE OneCommand'
  BY DEF OneCommand
<1> USE DEF Known
<1>1. ASSUME NEW o \in Operator, NEW pc, NEW child, NEW found, NEW addr,
             Turns(o, pc, child, found, addr),
             \A q \in Operator \ {o} : ~Running(q)
      PROVE  OneCommand'
  BY <1>1 DEF OneCommand, Running, Turns
<1>2. ASSUME NEW o \in Operator, NEW command \in {"start", "stop", "restart"},
             NEW a \in Addr \cup {NoAddr}, Give(o, command, a) PROVE OneCommand'
  <2>1. \A q \in Operator : ~Running(q)
    BY <1>2 DEF Give
  <2> QED
    BY <1>1, <1>2, <2>1, GiveDoes
<1>3. ASSUME NEW o \in Operator, Running(o), together' = together
      PROVE  \A q \in Operator \ {o} : ~Running(q)
  BY <1>3 DEF OneCommand
<1>4. ASSUME NEW o \in Operator, Command(o) PROVE OneCommand'
  <2>1. Running(o) /\ together' = together
    BY <1>4 DEF Command, Read, Probe, Spawn, Record, RecordFails, Started, TimeOut, Clean, Ask,
                Remove, Running
  <2>2. \A q \in Operator \ {o} : ~Running(q)
    BY <1>3, <2>1
  <2>3. \E pc, child, found, addr : Turns(o, pc, child, found, addr)
    <3>1. CASE Read(o)
      BY <3>1, ReadDoes
    <3>2. CASE Probe(o)
      BY <3>2, ProbeDoes
    <3>3. CASE Spawn(o)
      BY <3>3, SpawnDoes
    <3>4. CASE Record(o) \/ TimeOut(o)
      BY <3>4, GotoTurns DEF Record, TimeOut, Place
    <3>5. CASE RecordFails(o) \/ Started(o) \/ Clean(o)
      BY <3>5, SayTurns DEF RecordFails, Started, Clean
    <3>6. CASE Ask(o)
      BY <3>6, AskDoes
    <3>7. CASE Remove(o)
      BY <3>7, RemoveDoes
    <3> QED
      BY <1>4, <3>1, <3>2, <3>3, <3>4, <3>5, <3>6, <3>7 DEF Command
  <2> QED
    BY <1>1, <2>2, <2>3
<1>5. ASSUME NEW o \in Operator, Interrupt(o) PROVE OneCommand'
  <2>1. \A q \in Operator \ {o} : ~Running(q)
    BY <1>3, <1>5 DEF Interrupt
  <2> QED
    BY <1>1, <1>5, <2>1, InterruptDoes
<1>6. ASSUME UNCHANGED <<op, together>> PROVE OneCommand'
  BY <1>6 DEF OneCommand, Running
<1> QED
  BY <1>2, <1>4, <1>5, <1>6 DEF Next, Foreground, Listen, CloseListener, End, vars

----------------------------------------------------------------------------
\* What holds without a mishap, told of the one terminal o that may be busy.
Alone(o) == \A q \in Operator \ {o} : ~Running(q)

Tidy(o) ==
    /\ Alone(o)
    /\ op[o].pc \in {"probe", "ask"} => op[o].found = pidFile /\ pidFile # NoFile
    /\ op[o].pc \in {"spawn", "clean", "remove"} => \A p \in Process : ~Live(p)
    /\ op[o].pc \in {"record", "wait"} => \A p \in Process : Live(p) => p = op[o].child
    /\ op[o].pc \notin {"record", "wait"} =>
          \A p \in Process : Live(p) => p = pidFile.process /\ service[p].state # "booting"
    /\ op[o].pc = "wait" => pidFile.process = op[o].child

LEMMA InvIsTidy ==
    ASSUME IInv, ~Mishap, NEW o \in Operator, Alone(o)
    PROVE  Tidy(o)
<1>1. \A p \in Process : Starting(p) => op[o].child = p /\ op[o].pc \in {"record", "wait"}
  BY DEF Starting, Alone, Running
<1>2. ASSUME op[o].pc \notin {"record", "wait"}, NEW p \in Process, Live(p)
      PROVE  p = pidFile.process /\ service[p].state # "booting"
  <2>1. ~Starting(p)
    BY <1>1, <1>2
  <2> QED
    BY <1>2, <2>1 DEF IInv, Booting, NoOrphan, Live
<1> QED
  BY <1>2 DEF IInv, Tidy, Stages

LEMMA TidyIsInv ==
    ASSUME NEW o \in Operator, Tidy(o)'
    PROVE  (Booting /\ Stages /\ NoOrphan)'
<1> USE DEF Tidy
<1>1. ASSUME NEW p \in Process, Live(p)'
      PROVE  Starting(p)' \/ (p = pidFile.process /\ service[p].state # "booting")'
  BY <1>1 DEF Starting
<1>2. Booting'
  BY <1>1 DEF Booting, Live
<1>3. NoOrphan'
  BY <1>1 DEF NoOrphan, Live
<1>4. ASSUME NEW q \in Operator, q # o PROVE op'[q].pc = "idle"
  BY <1>4 DEF Alone, Running
<1>5. Stages'
  BY <1>4 DEF Stages
<1> QED
  BY <1>2, <1>3, <1>5

\* A command that is running has its terminal's neighbours idle, before and after.
LEMMA StaysAlone ==
    ASSUME NEW o \in Operator, Alone(o), NEW pc, NEW child, NEW found, NEW addr,
           Turns(o, pc, child, found, addr)
    PROVE  Alone(o)'
BY DEF Alone, Running, Turns

\* A change that lets no service live or boot anew keeps what holds of a terminal at rest.
Quieter ==
    \A p \in Process :
        /\ Live(p)' => Live(p)
        /\ Live(p)' /\ service'[p].state = "booting" => service[p].state = "booting"

LEMMA BecomesQuieter ==
    ASSUME TypeOK, NEW p, NEW s \in {"told", "draining", "dead"},
           Become([q \in Process |-> IF q = p THEN s ELSE service[q].state])
    PROVE  Quieter /\ \A q \in Process : Live(q)' => q # p
BY DEF Become, Same, Live, Quieter

LEMMA TidyStep ==
    ASSUME IInv, ~Mishap', NEW o \in Operator, Alone(o), Command(o), TypeOK'
    PROVE  Tidy(o)'
<1>1. UNCHANGED together /\ ~Mishap
  <2>1. UNCHANGED <<together, broken>>
    BY DEF Command, Read, Probe, Spawn, Record, RecordFails, Started, TimeOut, Clean, Ask, Remove
  <2>2. vouched => vouched'
    BY Zenon
    DEF Command, Read, Probe, Spawn, Record, RecordFails, Started, TimeOut, Clean, Ask, Remove
  <2> QED
    BY <2>1, <2>2, Zenon DEF Mishap
<1>2. Tidy(o) /\ TypeOK
  BY <1>1, InvIsTidy DEF IInv, Known
<1>3. ASSUME UNCHANGED service PROVE \A p \in Process : Live(p)' <=> Live(p)
  BY <1>3 DEF Live
<1>4. ASSUME UNCHANGED <<service, pidFile>>, NEW child, NEW found, NEW addr,
             \/ Turns(o, "idle", child, found, addr)
             \/ Turns(o, "read", child, found, addr),
             op[o].pc \notin {"record", "wait"}
      PROVE  Tidy(o)'
  BY <1>2, <1>3, <1>4, StaysAlone DEF Tidy, Turns
<1>5. CASE Read(o)
  <2>1. UNCHANGED <<service, pidFile>> /\ op[o].pc = "read"
    BY <1>5 DEF Read
  <2>2. CASE pidFile = NoFile /\ Turns(o, "spawn", op[o].child, op[o].found, op[o].addr)
    <3>1. \A p \in Process : ~Live(p)
      BY <1>2, <2>1, <2>2, ConstantsAssumption DEF Tidy, NoFile, NoProcess, Process
    <3> QED
      BY <1>3, <2>1, <2>2, <3>1, <1>2, StaysAlone DEF Tidy, Turns
  <2>3. ASSUME pidFile # NoFile, NEW pc \in {"probe", "ask"},
               Turns(o, pc, op[o].child, pidFile, op[o].addr)
        PROVE  Tidy(o)'
    BY <1>2, <1>3, <2>1, <2>3, StaysAlone DEF Tidy, Turns
  <2> QED
    BY <1>2, <1>4, <1>5, <2>1, <2>2, <2>3, ReadDoes
<1>6. CASE Probe(o)
  <2>1. UNCHANGED <<service, pidFile>> /\ op[o].pc = "probe"
    BY <1>6 DEF Probe
  <2>2. CASE ~Healthy(op[o].found.addr)
             /\ Turns(o, "spawn", op[o].child, op[o].found, op[o].addr)
    <3>1. op[o].found = pidFile /\ Made(pidFile.process, pidFile.addr)
      BY <1>2, <2>1 DEF Tidy, IInv, Known, Described
    <3>2. ASSUME NEW p \in Process, Live(p) PROVE FALSE
      <4>1. p = pidFile.process /\ service[p].state = "listening"
        BY <1>2, <2>1, <3>2 DEF Tidy, Live
      <4> QED
        BY <2>2, <3>1, <4>1 DEF Made, Healthy, Answers
    <3> QED
      BY <1>2, <1>3, <2>1, <2>2, <3>2, StaysAlone DEF Tidy, Turns
  <2> QED
    BY <1>2, <1>4, <1>6, <2>1, <2>2, ProbeDoes
<1>7. CASE Spawn(o)
  <2>1. /\ Turns(o, "record", processes', op[o].found, op[o].addr)
        /\ processes' \in Process
        /\ \A q \in Process \ {processes'} : service'[q] = service[q]
    BY <1>2, <1>7, SpawnDoes
  <2>2. \A p \in Process : ~Live(p)
    BY <1>2, <1>7 DEF Tidy, Spawn
  <2>3. \A p \in Process : Live(p)' => p = processes'
    BY <2>1, <2>2 DEF Live
  <2> QED
    BY <1>2, <2>1, <2>3, StaysAlone DEF Tidy, Turns
<1>8. CASE Record(o)
  <2>1. Turns(o, "wait", op[o].child, op[o].found, op[o].addr)
    BY <1>2, <1>8, GotoTurns DEF Record, Place
  <2>2. UNCHANGED service /\ pidFile'.process = op[o].child /\ op[o].pc = "record"
    BY <1>8 DEF Record
  <2> QED
    BY <1>2, <1>3, <2>1, <2>2, StaysAlone DEF Tidy, Turns
<1>9. ASSUME op[o].pc \in {"record", "wait"}, service' = Killed(op[o].child)
      PROVE  \A p \in Process : ~Live(p)'
  <2>1. Become([q \in Process |-> IF q = op[o].child THEN "dead" ELSE service[q].state])
    BY <1>2, <1>9, KilledDies
  <2>2. Quieter /\ \A q \in Process : Live(q)' => q # op[o].child
    BY <1>2, <2>1, BecomesQuieter
  <2> QED
    BY <1>2, <1>9, <2>2 DEF Tidy, Quieter
<1>10. CASE RecordFails(o)
  <2>1. Turns(o, "idle", NoProcess, NoFile, NoAddr)
    BY <1>2, <1>10, SayTurns DEF RecordFails
  <2>2. \A p \in Process : ~Live(p)'
    BY <1>9, <1>10 DEF RecordFails
  <2> QED
    BY <1>2, <2>1, <2>2, StaysAlone DEF Tidy, Turns
<1>11. CASE Started(o)
  <2>1. Turns(o, "idle", NoProcess, NoFile, NoAddr)
    BY <1>2, <1>11, SayTurns DEF Started
  <2>2. service[op[o].child].state # "booting" /\ UNCHANGED <<service, pidFile>>
        /\ op[o].pc = "wait"
    BY <1>11 DEF Started, Mishap
  <2> QED
    BY <1>2, <1>3, <2>1, <2>2, StaysAlone DEF Tidy, Turns
<1>12. CASE TimeOut(o)
  <2>1. Turns(o, "clean", op[o].child, op[o].found, op[o].addr)
    BY <1>2, <1>12, GotoTurns DEF TimeOut, Place
  <2>2. \A p \in Process : ~Live(p)'
    BY <1>9, <1>12 DEF TimeOut
  <2> QED
    BY <1>2, <2>1, <2>2, StaysAlone DEF Tidy, Turns
<1>13. CASE Clean(o)
  <2>1. Turns(o, "idle", NoProcess, NoFile, NoAddr)
    BY <1>2, <1>13, SayTurns DEF Clean
  <2>2. \A p \in Process : ~Live(p)'
    BY <1>2, <1>3, <1>13 DEF Tidy, Clean
  <2> QED
    BY <1>2, <2>1, <2>2, StaysAlone DEF Tidy, Turns
<1>14. CASE Ask(o)
  <2>1. Turns(o, "remove", op[o].child, op[o].found, op[o].addr)
    BY <1>2, <1>14, AskDoes
  <2>2. PICK p : \E s \in {"told", "dead"} : Hits(p, s, o)
    BY <1>2, <1>14, AskDoes
  <2>3. Quieter /\ \A q \in Process : Live(q)' => q # p
    BY <1>2, <2>2, BecomesQuieter DEF Hits
  <2>4. \A q \in Process : Live(q) => q = op[o].found.process
    BY <1>2, <1>14 DEF Tidy, Ask
  <2>5. \A q \in Process : Live(q) => q = p
    BY <2>2, <2>4 DEF Hits, Live, Alive
  <2>6. \A q \in Process : ~Live(q)'
    BY <2>3, <2>5 DEF Quieter
  <2> QED
    BY <1>2, <2>1, <2>6, StaysAlone DEF Tidy, Turns
<1>15. CASE Remove(o)
  <2>1. \A p \in Process : ~Live(p)'
    BY <1>2, <1>3, <1>15 DEF Tidy, Remove
  <2>2. ASSUME NEW child, NEW found, NEW addr,
               \/ Turns(o, "idle", child, found, addr)
               \/ Turns(o, "read", child, found, addr)
        PROVE  Tidy(o)'
    BY <1>2, <2>1, <2>2, StaysAlone DEF Tidy, Turns
  <2> QED
    BY <1>2, <1>15, <2>2, RemoveDoes
<1> QED
  BY <1>5, <1>6, <1>7, <1>8, <1>10, <1>11, <1>12, <1>13, <1>14, <1>15 DEF Command

LEMMA InvStep == IInv /\ [Next]_vars => IInv'
<1> SUFFICES ASSUME IInv, [Next]_vars PROVE IInv'
  OBVIOUS
<1>1. Known'
  BY TypeStep, NumberedStep, DescribedStep, OneCommandStep DEF IInv, Known
<1>2. CASE Mishap'
  BY <1>1, <1>2 DEF IInv, Booting, Stages, NoOrphan
<1>3. CASE ~Mishap'
  <2>1. TypeOK /\ TypeOK' /\ Numbered
    BY <1>1 DEF IInv, Known
  <2>2. ASSUME ~Mishap, NEW o \in Operator, Running(o) PROVE Alone(o)
    BY <2>2 DEF IInv, Known, OneCommand, Alone, Mishap
  <2>3. ASSUME NEW o \in Operator, Tidy(o)' PROVE IInv'
    BY <1>1, <2>3, TidyIsInv DEF IInv
  <2>4. ASSUME NEW o \in Operator, NEW command \in {"start", "stop", "restart"},
               NEW a \in Addr \cup {NoAddr}, Give(o, command, a) PROVE IInv'
    <3>1. Alone(o) /\ ~Running(o) /\ ~Mishap
      BY <1>3, <2>4, Zenon DEF Give, Mishap, Alone
    <3>2. Tidy(o)
      BY <3>1, InvIsTidy
    <3>3. Turns(o, "read", NoProcess, NoFile, a) /\ UNCHANGED <<service, pidFile>>
      BY <2>1, <2>4, GiveDoes DEF Give
    <3>4. Tidy(o)'
      BY <3>1, <3>2, <3>3, StaysAlone DEF Tidy, Turns, Live, Running
    <3> QED
      BY <2>3, <3>4
  <2>5. ASSUME NEW o \in Operator, Command(o) PROVE IInv'
    <3>1. Running(o)
      BY <2>5 DEF Command, Read, Probe, Spawn, Record, RecordFails, Started, TimeOut, Clean, Ask,
                  Remove, Running
    <3>2. ~Mishap
      <4>1. UNCHANGED <<together, broken>>
        BY <2>5 DEF Command, Read, Probe, Spawn, Record, RecordFails, Started, TimeOut, Clean,
                    Ask, Remove
      <4>2. vouched => vouched'
        BY <2>5, Zenon DEF Command, Read, Probe, Spawn, Record, RecordFails, Started, TimeOut,
                           Clean, Ask, Remove
      <4> QED
        BY <1>3, <4>1, <4>2, Zenon DEF Mishap
    <3>3. Tidy(o)'
      BY <1>3, <2>1, <2>2, <2>5, <3>1, <3>2, TidyStep
    <3> QED
      BY <2>3, <3>3
  <2>6. ASSUME NEW o \in Operator, Interrupt(o) PROVE IInv'
    <3>1. ~Mishap /\ op[o].pc \notin {"record", "wait"} /\ Running(o)
      BY <1>3, <2>6, Zenon DEF Interrupt, Mishap
    <3>2. Tidy(o)
      BY <2>2, <3>1, InvIsTidy
    <3>3. Turns(o, "idle", NoProcess, NoFile, NoAddr) /\ UNCHANGED <<service, pidFile>>
      BY <2>1, <2>6, InterruptDoes DEF Interrupt
    <3>4. Tidy(o)'
      BY <3>1, <3>2, <3>3, StaysAlone DEF Tidy, Turns, Live
    <3> QED
      BY <2>3, <3>4
  <2>7. ASSUME UNCHANGED <<op, pidFile, together, broken, stale, vouched>>, Quieter PROVE IInv'
    <3>1. ~Mishap
      BY <1>3, <2>7, Zenon DEF Mishap
    <3>2. \A p \in Process : Starting(p)' <=> Starting(p)
      BY <2>7 DEF Starting
    <3>3. Booting'
      BY <2>7, <3>1, <3>2 DEF IInv, Booting, Quieter, Live
    <3>4. NoOrphan'
      BY <2>7, <3>1, <3>2 DEF IInv, NoOrphan, Quieter, Live
    <3>5. Stages'
      BY <2>7, <3>1 DEF IInv, Stages, Quieter
    <3> QED
      BY <1>1, <3>3, <3>4, <3>5 DEF IInv
  <2>8. ASSUME NEW a \in Addr, Foreground(a) PROVE IInv'
    <3>1. Quieter
      <4>1. /\ \A q \in Process \ {processes'} : service'[q] = service[q]
            /\ service'[processes'].tokened = FALSE
        BY <2>1, <2>8, NewServiceMakes DEF Foreground
      <4> QED
        BY <4>1 DEF Quieter, Live
    <3> QED
      BY <2>7, <2>8, <3>1 DEF Foreground
  <2>9. ASSUME NEW p \in Process, Listen(p) \/ CloseListener(p) \/ End(p) PROVE IInv'
    <3>1. Quieter
      <4>1. PICK s \in {"listening", "draining", "dead", "lost"} :
                Becomes(p, s) /\ (s = "listening" => service[p].state = "booting")
        BY <2>9 DEF Listen, CloseListener, End
      <4>2. Become([q \in Process |-> IF q = p THEN s ELSE service[q].state])
        BY <2>1, <4>1, BecomesState
      <4> QED
        BY <4>1, <4>2 DEF Become, Same, Quieter, Live
    <3> QED
      BY <2>7, <2>9, <3>1 DEF Listen, CloseListener, End
  <2>10. CASE UNCHANGED vars
    <3>1. Quieter
      BY <2>10 DEF vars, Quieter, Live
    <3> QED
      BY <2>7, <2>10, <3>1 DEF vars
  <2> QED
    BY <2>4, <2>5, <2>6, <2>8, <2>9, <2>10 DEF Next
<1> QED
  BY <1>2, <1>3

THEOREM Invariance == Spec => []IInv
BY InvInit, InvStep, PTL DEF Spec

\* The types of Daemon, for every number of terminals, services and commands.
THEOREM TypeCorrect == Spec => []TypeOK
BY Invariance, PTL DEF IInv, Known

\* A background service is named by the PID file, or is being started, unless there was a
\* mishap (cmdStart, cmdStop, waitForHealth).
THEOREM AlwaysFound == Spec => []NoOrphan
BY Invariance, PTL DEF IInv

----------------------------------------------------------------------------
\* A command that is running has said nothing yet, and has killed no other program before
\* it has come to cmdStop's removal of the PID file.
Quiet == \A o \in Operator : /\ Running(o) => op[o].said = "nothing"
                             /\ op[o].struck => op[o].pc = "remove"

LEMMA QuietInit == Init => Quiet
<1> SUFFICES ASSUME Init, NEW o \in Operator
             PROVE  op[o].pc = "idle" /\ ~op[o].struck
  BY DEF Quiet, Running
<1> QED
  BY DEF Init, NoOp

\* What a step of a command may report.
Reports(o) ==
    /\ \A q \in Operator \ {o} : op'[q] = op[q]
    /\ Running(o)' => op'[o].said = "nothing"
    /\ op'[o].struck => op'[o].pc = "remove"
    /\ op'[o].said = "started" => Started(o)

LEMMA CommandReports ==
    ASSUME TypeOK, Quiet, NEW o \in Operator, Command(o)
    PROVE  Reports(o)
<1>1. op \in [Operator -> Op] /\ op[o] \in Op
  BY DEF TypeOK
<1>2. op[o].said = "nothing" /\ (op[o].struck => op[o].pc = "remove")
  BY DEF Quiet, Running, Command, Read, Probe, Spawn, Record, RecordFails, Started, TimeOut,
         Clean, Ask, Remove
<1>3. ASSUME NEW place, Goto(o, place), op[o].pc # "remove" PROVE Reports(o)
  BY <1>1, <1>2, <1>3 DEF Goto, Reports, Op
<1>4. ASSUME NEW what, Say(o, what), what = "started" => Started(o) PROVE Reports(o)
  BY <1>1, <1>4 DEF Say, Reports, NoOp, Running
<1>5. CASE Read(o)
  <2>1. ASSUME NEW x, op' = [op EXCEPT ![o] = x], x.said = "nothing", ~x.struck PROVE Reports(o)
    BY <1>1, <2>1 DEF Reports
  <2>0. ~op[o].struck
    BY <1>2, <1>5 DEF Read
  <2>2. CASE op' = [op EXCEPT ![o].command = "start"]
    <3>1. op' = [op EXCEPT ![o] = [op[o] EXCEPT !.command = "start"]]
      BY <2>2
    <3>2. /\ [op[o] EXCEPT !.command = "start"].said = "nothing"
          /\ ~[op[o] EXCEPT !.command = "start"].struck
      BY <1>1, <1>2, <2>0 DEF Op
    <3> QED
      BY <2>1, <3>1, <3>2
  <2>3. CASE pidFile # NoFile
    <3> DEFINE x == [op[o] EXCEPT
                        !.found = pidFile,
                        !.pc = IF op[o].command = "start" THEN "probe" ELSE "ask"]
    <3>1. op' = [op EXCEPT ![o] = x]
      BY <1>5, <2>3 DEF Read
    <3>2. x.said = "nothing" /\ ~x.struck
      BY <1>1, <1>2, <2>0 DEF Op
    <3> HIDE DEF x
    <3> QED
      BY <2>1, <3>1, <3>2
  <2> QED
    BY <1>3, <1>4, <1>5, <2>2, <2>3 DEF Read
<1>6. CASE Spawn(o)
  <2> DEFINE x == [op[o] EXCEPT !.pc = "record", !.child = processes + 1]
  <2>1. op' = [op EXCEPT ![o] = x]
    BY <1>6 DEF Spawn
  <2>2. x.said = "nothing" /\ ~x.struck
    BY <1>1, <1>2, <1>6 DEF Op, Spawn
  <2> QED
    BY <1>1, <2>1, <2>2 DEF Reports
<1>7. CASE Remove(o)
  <2>1. CASE op[o].command = "stop"
    BY <1>4, <1>7, <2>1 DEF Remove
  <2>2. CASE op[o].command # "stop"
    <3> DEFINE x == [op[o] EXCEPT !.command = "start", !.pc = "read", !.struck = FALSE]
    <3>1. op' = [op EXCEPT ![o] = x]
      BY <1>7, <2>2 DEF Remove
    <3>2. x.said = "nothing" /\ ~x.struck
      BY <1>1, <1>2 DEF Op
    <3> QED
      BY <1>1, <3>1, <3>2 DEF Reports
  <2> QED
    BY <2>1, <2>2
<1>8. CASE Started(o)
  BY <1>4, <1>8 DEF Started
<1>9. CASE Probe(o) \/ RecordFails(o) \/ Clean(o)
  BY <1>3, <1>4, <1>9 DEF Probe, RecordFails, Clean
<1>10. CASE Record(o) \/ TimeOut(o)
  BY <1>3, <1>10 DEF Record, TimeOut
<1>11. CASE Ask(o)
  <2>1. CASE Goto(o, "remove")
    BY <1>3, <1>11, <2>1 DEF Ask
  <2>2. ASSUME NEW struck, op' = [op EXCEPT ![o].pc = "remove", ![o].struck = struck]
        PROVE  Reports(o)
    <3> DEFINE x == [op[o] EXCEPT !.pc = "remove", !.struck = struck]
    <3>1. op' = [op EXCEPT ![o] = x]
      BY <2>2
    <3>2. x.said = "nothing" /\ x.pc = "remove"
      BY <1>1, <1>2 DEF Op
    <3> HIDE DEF x
    <3> QED
      BY <1>1, <3>1, <3>2 DEF Reports
  <2> QED
    BY <1>11, <2>1, <2>2 DEF Ask, Kill
<1> QED
  BY <1>5, <1>6, <1>7, <1>8, <1>9, <1>10, <1>11 DEF Command

LEMMA QuietStep == TypeOK /\ Quiet /\ [Next]_vars => Quiet'
<1> SUFFICES ASSUME TypeOK, Quiet, [Next]_vars PROVE Quiet'
  OBVIOUS
<1>1. op \in [Operator -> Op]
  BY DEF TypeOK
<1>2. ASSUME NEW o \in Operator, Command(o) PROVE Quiet'
  BY <1>2, CommandReports DEF Reports, Quiet, Running
<1>3. ASSUME NEW o \in Operator, NEW command, NEW a, Give(o, command, a) PROVE Quiet'
  BY <1>1, <1>3 DEF Give, Quiet, Running, NoOp
<1>4. ASSUME NEW o \in Operator, Interrupt(o) PROVE Quiet'
  BY <1>1, <1>4 DEF Interrupt, Quiet, Running, NoOp
<1> QED
  BY <1>2, <1>3, <1>4 DEF Next, Foreground, Listen, CloseListener, End, vars, Quiet, Running

----------------------------------------------------------------------------
(* What stop hits: as long as one command runs at a time and none dies       *)
(* between ending a service and removing its PID file, the file names no     *)
(* process that a command has ended.                                         *)

Ended(p) == service[p].state \in {"none", "told", "draining", "dead"}

Fresh(o) ==
    /\ Alone(o)
    /\ op[o].pc \in {"probe", "ask"} => op[o].found = pidFile /\ pidFile # NoFile
    /\ op[o].pc \notin {"clean", "remove"} /\ pidFile # NoFile => ~Ended(pidFile.process)
    /\ op[o].pc \in {"record", "wait"} => ~Ended(op[o].child)
    /\ op[o].pc = "record" => pidFile.process # op[o].child

NeverStale == ~together /\ ~stale => \A o \in Operator : Alone(o) => Fresh(o)

LEMMA NeverStaleInit == Init => NeverStale
<1> SUFFICES ASSUME Init, NEW o \in Operator, Alone(o) PROVE Fresh(o)
  BY DEF NeverStale
<1>1. op[o].pc = "idle" /\ pidFile = NoFile
  BY DEF Init, NoOp
<1> QED
  BY <1>1 DEF Fresh

LEMMA FreshIsNeverStale ==
    ASSUME NEW o \in Operator, Fresh(o)'
    PROVE  NeverStale'
<1> SUFFICES ASSUME NEW q \in Operator, Alone(q)' PROVE Fresh(q)'
  BY DEF NeverStale
<1>1. CASE q = o
  BY <1>1
<1>2. CASE q # o
  <2>1. op'[o].pc = "idle" /\ op'[q].pc = "idle"
    BY <1>2 DEF Fresh, Alone, Running
  <2> QED
    BY <2>1 DEF Fresh
<1> QED
  BY <1>1, <1>2

\* Nothing is ended but processes that neither the PID file nor the command knows.
LEMMA FreshStays ==
    ASSUME NEW o \in Operator, Fresh(o), UNCHANGED pidFile, Alone(o)',
           \A q \in Process : ~Ended(q) => ~Ended(q)', Known,
           op'[o].pc \in {"probe", "ask"} => op'[o].found = pidFile /\ pidFile # NoFile,
           op[o].pc \notin {"clean", "remove"},
           op'[o].pc \in {"record", "wait"} =>
              op'[o].pc = op[o].pc /\ op'[o].child = op[o].child
    PROVE  Fresh(o)'
<1>1. pidFile # NoFile => pidFile.process \in Process
  BY DEF Known, Described, Made
<1>2. op[o].pc \in {"record", "wait"} => op[o].child \in Process
  BY DEF Known, Described, Made
<1> QED
  BY <1>1, <1>2 DEF Fresh

LEMMA FreshStep ==
    ASSUME Known, NEW o \in Operator, Alone(o), Fresh(o), Command(o)
    PROVE  Fresh(o)'
<1>1. TypeOK /\ Numbered /\ Described
  BY DEF Known
<1>2. ASSUME UNCHANGED service PROVE \A q \in Process : Ended(q)' <=> Ended(q)
  BY <1>2 DEF Ended
<1>3. /\ pidFile # NoFile => pidFile.process \in Process /\ pidFile.process <= processes
      /\ op[o].pc \in {"record", "wait"} => op[o].child \in Process
  BY <1>1 DEF Described, Made, Numbered
<1>4. ASSUME UNCHANGED <<service, pidFile>>, NEW pc \in {"idle", "read", "spawn", "probe", "ask"},
             NEW child, NEW found, NEW addr, Turns(o, pc, child, found, addr),
             pc \in {"probe", "ask"} => found = pidFile /\ pidFile # NoFile,
             op[o].pc \notin {"clean", "remove"}
      PROVE  Fresh(o)'
  <2>1. Alone(o)' /\ op'[o].pc = pc /\ op'[o].found = found
    BY <1>4, StaysAlone DEF Turns
  <2>2. \A q \in Process : ~Ended(q) => ~Ended(q)'
    BY <1>2, <1>4
  <2> QED
    BY <1>4, <2>1, <2>2, FreshStays
<1>5. CASE Read(o)
  <2>1. UNCHANGED <<service, pidFile>> /\ op[o].pc = "read"
    BY <1>5 DEF Read
  <2> QED
    BY <1>1, <1>4, <1>5, <2>1, ReadDoes
<1>6. CASE Probe(o)
  <2>1. UNCHANGED <<service, pidFile>> /\ op[o].pc = "probe"
    BY <1>6 DEF Probe
  <2> QED
    BY <1>1, <1>4, <1>6, <2>1, ProbeDoes
<1>7. CASE Spawn(o)
  <2>1. /\ Turns(o, "record", processes', op[o].found, op[o].addr)
        /\ processes' = processes + 1 /\ processes' \in Process
        /\ \A q \in Process \ {processes'} : service'[q] = service[q]
        /\ service'[processes'].state = "booting"
    BY <1>1, <1>7, SpawnDoes
  <2>2. UNCHANGED pidFile /\ op[o].pc = "spawn"
    BY <1>7 DEF Spawn
  <2>3. pidFile.process # processes'
    BY <1>1, <2>1, ConstantsAssumption DEF Numbered, TypeOK, State, Process, NoProcess
  <2>4. pidFile # NoFile => ~Ended(pidFile.process)'
    BY <1>3, <2>1, <2>2, <2>3 DEF Fresh, Ended
  <2>5. Alone(o)' /\ op'[o].pc = "record" /\ op'[o].child = processes'
    BY <2>1, StaysAlone DEF Turns
  <2> QED
    BY <2>1, <2>2, <2>3, <2>4, <2>5 DEF Fresh, Ended
<1>8. CASE Record(o)
  <2>1. Turns(o, "wait", op[o].child, op[o].found, op[o].addr)
    BY <1>1, <1>8, GotoTurns DEF Record, Place
  <2>2. UNCHANGED service /\ pidFile'.process = op[o].child /\ op[o].pc = "record"
    BY <1>8 DEF Record
  <2>3. ~Ended(op[o].child)
    BY <2>2 DEF Fresh
  <2> QED
    BY <2>1, <2>2, <2>3, StaysAlone DEF Turns, Fresh, Ended
<1>9. CASE RecordFails(o)
  <2>1. Turns(o, "idle", NoProcess, NoFile, NoAddr)
    BY <1>1, <1>9, SayTurns DEF RecordFails
  <2>2. UNCHANGED pidFile /\ op[o].pc = "record"
    BY <1>9 DEF RecordFails
  <2>3. Become([q \in Process |-> IF q = op[o].child THEN "dead" ELSE service[q].state])
    BY <1>1, <1>9, KilledDies DEF RecordFails
  <2>4. pidFile # NoFile => ~Ended(pidFile.process)'
    BY <1>3, <2>2, <2>3 DEF Fresh, Ended, Become
  <2> QED
    BY <2>1, <2>2, <2>4, StaysAlone DEF Turns, Fresh
<1>10. CASE Started(o)
  <2>1. Turns(o, "idle", NoProcess, NoFile, NoAddr)
    BY <1>1, <1>10, SayTurns DEF Started
  <2>2. UNCHANGED <<service, pidFile>> /\ op[o].pc = "wait"
    BY <1>10 DEF Started
  <2> QED
    BY <1>4, <2>1, <2>2
<1>11. CASE TimeOut(o)
  <2>1. Turns(o, "clean", op[o].child, op[o].found, op[o].addr)
    BY <1>1, <1>11, GotoTurns DEF TimeOut, Place
  <2> QED
    BY <2>1, StaysAlone DEF Turns, Fresh
<1>12. CASE Clean(o)
  <2>1. Turns(o, "idle", NoProcess, NoFile, NoAddr) /\ pidFile' = NoFile
    BY <1>1, <1>12, SayTurns DEF Clean
  <2> QED
    BY <2>1, StaysAlone DEF Turns, Fresh
<1>13. CASE Ask(o)
  <2>1. Turns(o, "remove", op[o].child, op[o].found, op[o].addr)
    BY <1>1, <1>13, AskDoes
  <2> QED
    BY <2>1, StaysAlone DEF Turns, Fresh
<1>14. CASE Remove(o)
  <2>1. pidFile' = NoFile
    BY <1>14 DEF Remove
  <2>2. ASSUME NEW pc \in {"idle", "read"}, NEW child, NEW found, NEW addr,
               Turns(o, pc, child, found, addr)
        PROVE  Fresh(o)'
    BY <2>1, <2>2, StaysAlone DEF Turns, Fresh
  <2> QED
    BY <1>1, <1>14, <2>2, RemoveDoes
<1> QED
  BY <1>5, <1>6, <1>7, <1>8, <1>9, <1>10, <1>11, <1>12, <1>13, <1>14 DEF Command

LEMMA NeverStaleStep == Known /\ NeverStale /\ [Next]_vars => NeverStale'
<1> SUFFICES ASSUME Known, NeverStale, [Next]_vars, ~together', ~stale' PROVE NeverStale'
  BY DEF NeverStale
<1>1. TypeOK /\ Numbered /\ Described
  BY DEF Known
<1>2. ~together /\ ~stale
  <2>1. ASSUME NEW o \in Operator, Command(o) PROVE together' = together /\ stale' = stale
    BY <2>1
    DEF Command, Read, Probe, Spawn, Record, RecordFails, Started, TimeOut, Clean, Ask, Remove
  <2>2. ASSUME NEW o \in Operator, NEW command, NEW a, Give(o, command, a)
        PROVE  ~together /\ ~stale
    BY <2>2, Zenon DEF Give
  <2>3. ASSUME NEW o \in Operator, Interrupt(o) PROVE ~together /\ ~stale
    BY <2>3, Zenon DEF Interrupt
  <2>4. ASSUME NEW p, Foreground(p) \/ Listen(p) \/ CloseListener(p) \/ End(p) \/ UNCHANGED vars
        PROVE  together' = together /\ stale' = stale
    BY <2>4 DEF Foreground, Listen, CloseListener, End, vars
  <2> QED
    BY <2>1, <2>2, <2>3, <2>4, Zenon DEF Next
<1>3. ASSUME NEW o \in Operator, Running(o) PROVE Alone(o) /\ Fresh(o)
  BY <1>2, <1>3 DEF Known, OneCommand, Alone, NeverStale
<1>4. ASSUME NEW o \in Operator, NEW command \in {"start", "stop", "restart"},
             NEW a \in Addr \cup {NoAddr}, Give(o, command, a) PROVE NeverStale'
  <2>1. Alone(o) /\ ~Running(o)
    BY <1>4, Zenon DEF Give, Alone
  <2>2. Fresh(o)
    BY <1>2, <2>1 DEF NeverStale
  <2>3. Turns(o, "read", NoProcess, NoFile, a) /\ UNCHANGED <<service, pidFile>>
    BY <1>1, <1>4, GiveDoes DEF Give
  <2>4. Fresh(o)'
    BY <2>1, <2>2, <2>3, StaysAlone DEF Turns, Fresh, Ended, Running
  <2> QED
    BY <2>4, FreshIsNeverStale
<1>5. ASSUME NEW o \in Operator, Command(o) PROVE NeverStale'
  <2>1. Running(o)
    BY <1>5 DEF Command, Read, Probe, Spawn, Record, RecordFails, Started, TimeOut, Clean, Ask,
                Remove, Running
  <2> QED
    BY <1>3, <1>5, <2>1, FreshStep, FreshIsNeverStale
<1>6. ASSUME NEW o \in Operator, Interrupt(o) PROVE NeverStale'
  <2>1. op[o].pc \notin {"clean", "remove"} /\ Running(o)
    BY <1>6, Zenon DEF Interrupt
  <2>2. Turns(o, "idle", NoProcess, NoFile, NoAddr) /\ UNCHANGED <<service, pidFile>>
    BY <1>1, <1>6, InterruptDoes DEF Interrupt
  <2>3. Fresh(o)'
    BY <1>3, <2>1, <2>2, StaysAlone DEF Turns, Fresh, Ended
  <2> QED
    BY <2>3, FreshIsNeverStale
<1>7. ASSUME UNCHANGED <<op, pidFile>>,
             \A q \in Process : q <= processes /\ ~Ended(q) => ~Ended(q)'
      PROVE  NeverStale'
  <2> SUFFICES ASSUME NEW o \in Operator, Alone(o)' PROVE Fresh(o)'
    BY DEF NeverStale
  <2>1. Alone(o) /\ Fresh(o)
    BY <1>2, <1>7 DEF NeverStale, Alone, Running
  <2>2. /\ pidFile # NoFile => pidFile.process \in Process /\ pidFile.process <= processes
        /\ op[o].pc \in {"record", "wait"} => op[o].child \in Process /\ op[o].child <= processes
    BY <1>1 DEF Described, Made, Numbered
  <2> QED
    BY <1>7, <2>1, <2>2 DEF Fresh
<1>8. ASSUME NEW a \in Addr, Foreground(a) PROVE NeverStale'
  <2>1. processes' = processes + 1 /\ \A q \in Process \ {processes'} : service'[q] = service[q]
    BY <1>1, <1>8, NewServiceMakes DEF Foreground
  <2>2. \A q \in Process : q <= processes /\ ~Ended(q) => ~Ended(q)'
    BY <1>1, <2>1, ConstantsAssumption DEF TypeOK, Ended, Process, NoProcess
  <2> QED
    BY <1>7, <1>8, <2>2 DEF Foreground
<1>9. ASSUME NEW p \in Process, Listen(p) \/ CloseListener(p) \/ End(p) PROVE NeverStale'
  <2>1. PICK s \in {"listening", "draining", "dead", "lost"} :
            Becomes(p, s) /\ (Ended(p) \/ s \in {"listening", "lost"})
    BY <1>9 DEF Listen, CloseListener, End, Ended
  <2>2. Become([q \in Process |-> IF q = p THEN s ELSE service[q].state])
    BY <1>1, <2>1, BecomesState
  <2>3. \A q \in Process : ~Ended(q) => ~Ended(q)'
    BY <2>1, <2>2 DEF Become, Ended
  <2> QED
    BY <1>7, <1>9, <2>3 DEF Listen, CloseListener, End
<1>10. CASE UNCHANGED vars
  <2>1. \A q \in Process : ~Ended(q) => ~Ended(q)'
    BY <1>10 DEF vars, Ended
  <2> QED
    BY <1>7, <1>10, <2>1 DEF vars
<1> QED
  BY <1>4, <1>5, <1>6, <1>8, <1>9, <1>10 DEF Next

\* stop and restart tell or kill the service for which the PID file was written and no
\* other process, unless that service was lost, a command died before it had removed the
\* PID file of a service it had ended, or commands ran at the same time (cmdStop, the
\* shutdown endpoint, proc.Kill).
THEOREM StopsItsOwn == Spec => StopHitsItsOwn
<1> DEFINE Own ==
        \A o \in Operator :
            op[o].pc = "ask" /\ op'[o].pc = "remove" =>
                \/ /\ \A p \in Process \ {op[o].found.process} : service'[p] = service[p]
                   /\ ~op'[o].struck
                \/ service[op[o].found.process].state = "lost" \/ stale \/ together
<1>1. IInv /\ Quiet /\ NeverStale /\ [Next]_vars => [Own]_vars
  <2> SUFFICES ASSUME IInv, Quiet, NeverStale, [Next]_vars, NEW o \in Operator,
                      op[o].pc = "ask", op'[o].pc = "remove",
                      service[op[o].found.process].state # "lost", ~stale, ~together
               PROVE  /\ \A p \in Process \ {op[o].found.process} : service'[p] = service[p]
                      /\ ~op'[o].struck
    OBVIOUS
  <2>1. TypeOK /\ Known /\ op[o] \in Op
    BY DEF IInv, Known, TypeOK
  <2>2. Ask(o)
    <3>1. ASSUME NEW q \in Operator, Command(q) PROVE Ask(o)
      <4>1. q = o
        BY <2>1, <3>1, CommandReports DEF Reports
      <4> QED
        BY <3>1, <4>1 DEF Command, Read, Probe, Spawn, Record, RecordFails, Started, TimeOut,
                          Clean, Remove
    <3>2. ASSUME NEW q \in Operator, NEW command, NEW a, Give(q, command, a) PROVE FALSE
      BY <2>1, <3>2 DEF Give, TypeOK, NoOp
    <3>3. ASSUME NEW q \in Operator, Interrupt(q) PROVE FALSE
      BY <2>1, <3>3 DEF Interrupt, TypeOK, NoOp
    <3> QED
      BY <2>1, <3>1, <3>2, <3>3 DEF Next, Foreground, Listen, CloseListener, End, vars
  <2>3. Fresh(o)
    BY DEF IInv, Known, OneCommand, Running, Alone, NeverStale
  <2> DEFINE v == op[o].found.process
  <2>4. v \in Process /\ Alive(v)
    <3>1. v \in Process /\ ~Ended(v)
      BY <2>1, <2>3 DEF Fresh, Known, Described, Made
    <3> QED
      BY <3>1 DEF Ended, Alive
  <2>5. PICK p : \E s \in {"told", "dead"} : Hits(p, s, o)
    BY <2>1, <2>2, AskDoes
  <2>6. p = v /\ op'[o].struck = op[o].struck
    BY <2>4, <2>5 DEF Hits
  <2>7. ~op'[o].struck
    BY <2>6 DEF Quiet
  <2>8. ASSUME NEW q \in Process \ {v} PROVE service'[q] = service[q]
    <3>1. service'[q] \in Service /\ Same(q) /\ service'[q].state = service[q].state
      BY <2>5, <2>6 DEF Hits, Become
    <3>2. service[q] \in Service
      BY <2>1 DEF TypeOK
    <3> QED
      BY <3>1, <3>2 DEF Service, Same
  <2> QED
    BY <2>7, <2>8
<1>2. IInv => Known /\ TypeOK
  BY DEF IInv, Known
<1> QED
  BY <1>1, <1>2, Invariance, QuietInit, QuietStep, NeverStaleInit, NeverStaleStep, PTL
  DEF Spec, StopHitsItsOwn

----------------------------------------------------------------------------
\* start reports success only when its child serves, or when the service that restart has
\* just stopped answered for it (waitForHealth; without a mishap and without `serve`).
THEOREM SuccessMeansServing == Spec => StartedMeansServing
<1> DEFINE Serves(o) ==
        \/ service[op[o].child].state \in {"listening", "told"}
        \/ \E q \in Process : Answers(q, op[o].addr) /\ service[q].state = "told"
<1> DEFINE Sound == \A o \in Operator :
        /\ Running(o) /\ op'[o].said = "started"
        /\ ~Mishap
        /\ \A p \in Process : service[p].state # "none" => service[p].tokened
        => Serves(o)
<1>1. IInv /\ Quiet /\ [Next]_vars => [Sound]_vars
  <2> SUFFICES ASSUME IInv, Quiet, [Next]_vars, ~UNCHANGED vars, NEW o \in Operator,
                      Running(o), op'[o].said = "started", ~Mishap,
                      \A p \in Process : service[p].state # "none" => service[p].tokened
               PROVE  Serves(o)
    OBVIOUS
  <2>1. TypeOK /\ op[o].said = "nothing"
    BY DEF IInv, Known, Quiet
  <2>2. Started(o)
    <3>1. ASSUME NEW q \in Operator, Command(q) PROVE Started(o)
      BY <2>1, <3>1, CommandReports DEF Reports
    <3>2. ASSUME NEW q \in Operator, NEW command, NEW a, Give(q, command, a) PROVE FALSE
      BY <2>1, <3>2 DEF Give, TypeOK, NoOp
    <3>3. ASSUME NEW q \in Operator, Interrupt(q) PROVE FALSE
      BY <2>1, <3>3 DEF Interrupt, TypeOK, NoOp
    <3> QED
      BY <2>1, <3>1, <3>2, <3>3 DEF Next, Foreground, Listen, CloseListener, End
  <2>3. PICK q \in Process : Answers(q, op[o].addr)
    BY <2>2 DEF Started, Healthy
  <2>4. CASE service[q].state = "listening"
    <3>1. Live(q)
      BY <2>4 DEF Live
    <3>2. q = op[o].child
      BY <2>2, <3>1 DEF Started, IInv, Stages
    <3> QED
      BY <2>4, <3>2
  <2>5. CASE service[q].state = "told"
    BY <2>3, <2>5
  <2> QED
    BY <2>3, <2>4, <2>5 DEF Answers
<1>2. IInv => TypeOK
  BY DEF IInv, Known
<1> QED
  BY <1>1, <1>2, Invariance, QuietInit, QuietStep, PTL DEF Spec, StartedMeansServing

=============================================================================
