-------------------------- MODULE ConfigStoreProofs --------------------------
(***************************************************************************)
(* The configuration file for any number of processes, starts, tokens and   *)
(* keys: it can be loaded unless two saves crossed, and as long as one      *)
(* process runs after the other no setting is undone, the key that was      *)
(* shown last works, and nothing old comes back.                            *)
(*                                                                         *)
(* Sound is the argument for the file: the temporary file belongs to the    *)
(* one process that is between opening and renaming it.  Kept is the one    *)
(* for its content: what the running process has in memory agrees with the  *)
(* file and with what the user wanted (Rest), and what it is about to save  *)
(* agrees with what the user will want (Saves).                             *)
(***************************************************************************)
EXTENDS ConfigStore, FiniteSetTheorems, TLAPS

Settings(c) == [authDisabled |-> c.authDisabled, model |-> c.model,
                listenAddr |-> c.listenAddr]

\* What the user wants of a service: its --addr instead of listen_addr.
Own(r) == IF r.addr = Nothing THEN want ELSE [want EXCEPT !.listenAddr = r.addr]

Booted == {"listen", "ready", "serving"}

Below(c) == c.tokens <= tokens /\ c.key <= keys

Apart == path # NoFile => path # tmp

Midway(p) == proc[p].pc \in {"write", "rename"}

Sound ==
    ~crossed =>
        /\ \A p, q \in Process : Midway(p) /\ Midway(q) => p = q
        /\ \A p \in Process :
              /\ At(p, "write") => /\ proc[p].fd = tmp /\ tmp # NoFile
                                   /\ content[tmp] = Empty
              /\ At(p, "rename") => tmp # NoFile /\ content[tmp] = proc[p].buf
        /\ Readable

\* Only serve goes beyond its first save, and only fallback asks for a choice.
Fits(r) ==
    /\ r.after \in {"off", "show", "choose", "ready", "serving"}
    /\ r.pc \in {"boot", "listen", "ready", "serving"} \/ r.after \in {"ready", "serving"} =>
          r.cmd = "serve"
    /\ r.pc = "choose" \/ r.after = "choose" => r.cmd = "fallback"

Commanded == \A p \in Process : Fits(proc[p])

\* What a process has in memory between two saves.
Rest(r) ==
    r.pc \notin {"off", "open", "write", "rename"} =>
        /\ r.cfg.key = Stored.key /\ Below(r.cfg)
        /\ r.pc \notin Booted => Settings(r.cfg) = want /\ Settings(r.svc) = want
        /\ r.pc \in Booted => Settings(r.svc) = Own(r)
        /\ r.pc \notin {"show", "boot"} =>
              r.svc.key = Stored.key /\ r.svc.tokens >= Stored.tokens /\ Below(r.svc)
        /\ r.pc \in {"act", "show", "boot"} => r.cfg.tokens >= Stored.tokens

\* What a process is saving.
Saves(r) ==
    r.pc \in {"open", "write", "rename"} =>
        /\ Settings(r.buf) = Wanted(r) /\ Below(r.buf)
        /\ r.buf.key >= Stored.key
        /\ r.buf.tokens >= Stored.tokens \/ r.cmd = "fallback"
        /\ r.after # "off" => r.buf.tokens >= Stored.tokens
        /\ r.after \in {"show", "choose"} =>
              Settings(r.cfg) = want /\ Settings(r.svc) = want /\ Wanted(r) = want
        /\ r.after \in {"ready", "serving"} => Wanted(r) = Own(r)
        /\ r.after = "show" => r.buf = r.cfg
        /\ r.after # "show" => r.buf.key = Stored.key
        /\ r.after \in {"choose", "ready", "serving"} =>
              r.cfg.key = Stored.key /\ Below(r.cfg) /\ r.svc = r.buf

Kept ==
    together = "nothing" =>
        /\ ~crossed
        /\ Settings(Stored) = want /\ Below(Stored)
        /\ \A p, q \in Process : ~At(p, "off") /\ ~At(q, "off") => p = q
        /\ \A p \in Process : Rest(proc[p]) /\ Saves(proc[p])
        /\ unseen \/ Stored.key = shown \/ \E p \in Process : At(p, "show")

----------------------------------------------------------------------------
(* What the steps do to a process *)

\* Process p is x afterwards, and the others are what they were.
Becomes(p, x) ==
    /\ proc' \in [Process -> Proc]
    /\ proc'[p] = x
    /\ \A q \in Process \ {p} : proc'[q] = proc[q]

LEMMA Constants ==
    /\ Default \in Config /\ Gone \in Proc
    /\ 0 \in 0..MaxTokens /\ 0 \in 0..MaxKeys
    /\ NoFile \notin File
<1>1. 0 \in 0..MaxTokens /\ 0 \in 0..MaxKeys
  BY ConstantsAssumption
<1>2. Default \in Config
  BY <1>1, ConstantsAssumption DEF Default, Config
<1>3. Gone \in Proc
  BY <1>1, <1>2 DEF Gone, Proc, Place, NoFile
<1>4. NoFile \notin File
  BY DEF NoFile, File
<1> QED
  BY <1>1, <1>2, <1>3, <1>4

LEMMA Becoming ==
    ASSUME TypeOK, NEW p \in Process, NEW x \in Proc, proc' = [proc EXCEPT ![p] = x]
    PROVE  Becomes(p, x)
BY DEF TypeOK, Becomes

LEMMA Changing ==
    ASSUME NEW x \in Proc, NEW place \in Place, NEW c \in Config, NEW f \in File \cup {NoFile}
    PROVE  /\ [x EXCEPT !.pc = place] \in Proc
           /\ [x EXCEPT !.pc = place, !.fd = f] \in Proc
           /\ [x EXCEPT !.svc = c, !.pc = place] \in Proc
           /\ Saving([x EXCEPT !.cfg = c], c, place) \in Proc
           /\ Saving([x EXCEPT !.svc = c], c, place) \in Proc
<1>1. [x EXCEPT !.pc = place] \in Proc
  BY DEF Proc
<1>2. [x EXCEPT !.pc = place, !.fd = f] \in Proc
  BY DEF Proc
<1>3. [x EXCEPT !.svc = c, !.pc = place] \in Proc
  BY DEF Proc
<1>4. "open" \in Place
  BY DEF Place
<1>5. Saving([x EXCEPT !.cfg = c], c, place) \in Proc
  BY <1>4 DEF Proc, Saving
<1>6. Saving([x EXCEPT !.svc = c], c, place) \in Proc
  BY <1>4 DEF Proc, Saving
<1> QED
  BY <1>1, <1>2, <1>3, <1>5, <1>6

LEMMA GotoBecomes ==
    ASSUME TypeOK, NEW p \in Process, NEW place \in Place, Goto(p, place)
    PROVE  Becomes(p, [proc[p] EXCEPT !.pc = place])
<1> DEFINE x == [proc[p] EXCEPT !.pc = place]
<1>1. proc[p] \in Proc /\ NoFile \in File \cup {NoFile}
  BY DEF TypeOK
<1>2. x \in Proc
  BY <1>1, Constants, Changing
<1>3. proc' = [proc EXCEPT ![p] = x]
  BY DEF Goto
<1> QED
  BY <1>2, <1>3, Becoming

LEMMA ExitBecomes ==
    ASSUME TypeOK, NEW p \in Process, Exit(p)
    PROVE  Becomes(p, Gone)
BY Constants, Becoming DEF Exit

LEMMA SaveCommandBecomes ==
    ASSUME TypeOK, NEW p \in Process, NEW c \in Config, NEW place \in Place,
           SaveCommand(p, c, place)
    PROVE  Becomes(p, Saving([proc[p] EXCEPT !.cfg = c], c, place))
<1> DEFINE x == Saving([proc[p] EXCEPT !.cfg = c], c, place)
<1>1. proc[p] \in Proc /\ NoFile \in File \cup {NoFile}
  BY DEF TypeOK
<1>2. x \in Proc
  BY <1>1, Constants, Changing
<1>3. proc' = [proc EXCEPT ![p] = x]
  BY DEF SaveCommand
<1> QED
  BY <1>2, <1>3, Becoming

LEMMA SaveServiceBecomes ==
    ASSUME TypeOK, NEW p \in Process, NEW c \in Config, NEW place \in Place,
           SaveService(p, c, place)
    PROVE  Becomes(p, Saving([proc[p] EXCEPT !.svc = c], c, place))
<1> DEFINE x == Saving([proc[p] EXCEPT !.svc = c], c, place)
<1>1. proc[p] \in Proc /\ NoFile \in File \cup {NoFile}
  BY DEF TypeOK
<1>2. x \in Proc
  BY <1>1, Constants, Changing
<1>3. proc' = [proc EXCEPT ![p] = x]
  BY DEF SaveService
<1> QED
  BY <1>2, <1>3, Becoming

\* There is always a name for one more file.
LEMMA FreeFileIsFree ==
    ASSUME TypeOK, tmp = NoFile
    PROVE  FreeFile \in File /\ FreeFile # path
<1> DEFINE fds == {proc[p].fd : p \in Process}
           g == [p \in Process |-> proc[p].fd]
           taken == fds \cup {path}
<1>1. g \in Surjection(Process, fds)
  BY DEF Surjection
<1>2. IsFiniteSet(fds) /\ Cardinality(fds) <= Cardinality(Process)
  BY <1>1, FS_Surjection, ConstantsAssumption
<1>3. /\ IsFiniteSet(taken)
      /\ Cardinality(taken) = IF path \in fds THEN Cardinality(fds) ELSE Cardinality(fds) + 1
  BY <1>2, FS_AddElement
<1>4. Cardinality(Process) \in Nat /\ Cardinality(fds) \in Nat
  BY <1>2, FS_CardinalityType, ConstantsAssumption
<1>5. Cardinality(taken) <= Cardinality(Process) + 1
  BY <1>2, <1>3, <1>4
<1>6. Cardinality(File) = Cardinality(Process) + 2
  BY <1>4, FS_Interval DEF File
<1>7. ~(File \subseteq taken)
  <2>1. SUFFICES ASSUME File \subseteq taken PROVE FALSE
    OBVIOUS
  <2>2. Cardinality(File) <= Cardinality(taken)
    BY <1>3, <2>1, FS_Subset
  <2>3. Cardinality(taken) \in Nat
    BY <1>3, FS_CardinalityType
  <2> QED
    BY <1>4, <1>5, <1>6, <2>2, <2>3
<1>8. PICK f \in File : f \notin taken
  BY <1>7
<1>9. f \notin {path, tmp} \cup fds
  BY <1>8, Constants
<1> QED
  BY <1>9 DEF FreeFile
----------------------------------------------------------------------------
(* Types *)

\* A step of p that touches neither of the files.
Quiet(p) ==
    /\ UNCHANGED <<path, tmp, content, crossed>>
    /\ Becomes(p, proc'[p])
    /\ proc'[p].pc \notin {"write", "rename"}

\* The variables other than the files and the processes.
Typed ==
    /\ tokens \in 0..MaxTokens /\ aged \subseteq 1..MaxTokens /\ keys \in 0..MaxKeys
    /\ shown \in 0..MaxKeys /\ unseen \in BOOLEAN
    /\ want \in [authDisabled : BOOLEAN, model : Model \cup {Nothing}, listenAddr : Addr]
    /\ starts \in 0..MaxStarts /\ together \in {"nothing", "service", "any"}
    /\ crossed \in BOOLEAN

Known == TypeOK /\ Commanded

LEMMA QuietStep ==
    ASSUME Known, NEW p \in Process, NEW x, Becomes(p, x), Fits(x),
           x.pc \notin {"write", "rename"},
           UNCHANGED <<path, tmp, content, crossed>>, Typed'
    PROVE  Known' /\ Quiet(p)
<1>1. TypeOK'
  BY DEF Known, TypeOK, Typed, Becomes
<1>2. Commanded'
  BY DEF Known, Commanded, Becomes
<1> QED
  BY <1>1, <1>2 DEF Known, Quiet, Becomes

LEMMA Stay ==
    ASSUME TypeOK, UNCHANGED <<world, user, past>>
    PROVE  Typed'
BY DEF TypeOK, Typed, world, user, past

LEMMA Copies ==
    ASSUME TypeOK, NEW p \in Process
    PROVE  /\ proc[p] \in Proc /\ proc[p].cfg \in Config /\ proc[p].svc \in Config
           /\ proc[p].buf \in Config
BY DEF TypeOK, Proc

LEMMA PlacesToGoOn == {"off", "show", "choose", "ready", "serving"} \subseteq Place
BY DEF Place

LEMMA GoneFits == Fits(Gone) /\ Gone.pc = "off"
BY DEF Fits, Gone

\* A process that ends, or goes on to a place.
LEMMA ExitQuiet ==
    ASSUME Known, NEW p \in Process, Exit(p),
           UNCHANGED <<path, tmp, content, crossed>>, Typed'
    PROVE  Known' /\ Quiet(p)
<1>1. Becomes(p, Gone)
  BY ExitBecomes DEF Known
<1> QED
  BY <1>1, GoneFits, QuietStep

LEMMA GotoQuiet ==
    ASSUME Known, NEW p \in Process, NEW place \in Place, Goto(p, place),
           place \notin {"write", "rename"},
           place \in {"boot", "listen", "ready", "serving"} => proc[p].cmd = "serve",
           place = "choose" => proc[p].cmd = "fallback",
           UNCHANGED <<path, tmp, content, crossed>>, Typed'
    PROVE  Known' /\ Quiet(p)
<1> DEFINE x == [proc[p] EXCEPT !.pc = place]
<1>1. Becomes(p, x)
  BY GotoBecomes DEF Known
<1>2. proc[p] \in Proc /\ Fits(proc[p])
  BY DEF Known, TypeOK, Commanded
<1>3. x.pc = place /\ x.cmd = proc[p].cmd /\ x.after = proc[p].after
  BY <1>2 DEF Proc
<1>4. Fits(x)
  BY <1>2, <1>3 DEF Fits
<1> QED
  BY <1>1, <1>3, <1>4, QuietStep

LEMMA SaveQuiet ==
    ASSUME Known, NEW p \in Process, NEW c \in Config,
           NEW place \in {"off", "show", "choose", "ready", "serving"},
           SaveCommand(p, c, place) \/ SaveService(p, c, place),
           place \in {"ready", "serving"} => proc[p].cmd = "serve",
           place = "choose" => proc[p].cmd = "fallback",
           UNCHANGED <<path, tmp, content, crossed>>, Typed'
    PROVE  Known' /\ Quiet(p)
<1> DEFINE x == Saving([proc[p] EXCEPT !.cfg = c], c, place)
           y == Saving([proc[p] EXCEPT !.svc = c], c, place)
<1>1. Becomes(p, x) \/ Becomes(p, y)
  BY PlacesToGoOn, SaveCommandBecomes, SaveServiceBecomes DEF Known
<1>2. proc[p] \in Proc
  BY DEF Known, TypeOK
<1>3. /\ x.pc = "open" /\ x.cmd = proc[p].cmd /\ x.after = place
      /\ y.pc = "open" /\ y.cmd = proc[p].cmd /\ y.after = place
  BY <1>2 DEF Proc, Saving
<1>4. Fits(x) /\ Fits(y)
  BY <1>3 DEF Fits
<1> HIDE DEF x, y
<1> QED
  BY <1>1, <1>3, <1>4, QuietStep

LEMMA LoadQuiet ==
    ASSUME Known, NEW p \in Process, NEW c \in Command, NEW addr \in Addr \cup {Nothing},
           Load(p, c, addr)
    PROVE  Known' /\ Quiet(p)
<1> DEFINE x == [Gone EXCEPT !.pc = "act", !.cmd = c, !.cfg = Stored, !.svc = Stored,
                             !.since = shown, !.addr = addr]
           others == {q \in Process : ~At(q, "off")}
<1>1. Stored \in Config
  BY Constants DEF Load, Readable, Stored, Known, TypeOK
<1>2. shown \in 0..MaxKeys
  BY DEF Known, TypeOK
<1>3. x \in Proc
  BY <1>1, <1>2, Constants DEF Proc, Place
<1>4. proc' = [proc EXCEPT ![p] = x]
  BY DEF Load
<1>5. Becomes(p, x)
  BY <1>3, <1>4, Becoming DEF Known
<1>6. x.pc = "act" /\ x.cmd = c /\ x.after = "off"
  BY DEF Gone
<1>7. Fits(x)
  BY <1>6 DEF Fits
<1>8. together' \in {"nothing", "service", "any"}
  BY DEF Load, Known, TypeOK
<1>9. starts' \in 0..MaxStarts
  BY ConstantsAssumption DEF Load, Known, TypeOK
<1>10. UNCHANGED <<path, tmp, content, crossed>> /\ UNCHANGED <<world, user>>
  BY DEF Load
<1>11. Typed'
  BY <1>8, <1>9, <1>10 DEF Known, TypeOK, Typed, world, user
<1> HIDE DEF x
<1> QED
  BY <1>5, <1>6, <1>7, <1>10, <1>11, QuietStep

LEMMA NewKeyQuiet ==
    ASSUME Known, NEW p \in Process, NewKey(p)
    PROVE  Known' /\ Quiet(p)
<1>1. [proc[p].cfg EXCEPT !.key = keys + 1] \in Config
  BY Copies, ConstantsAssumption DEF NewKey, Known, TypeOK, Config
<1>2. UNCHANGED <<path, tmp, content, crossed>>
  BY DEF NewKey, past
<1>3. Typed'
  BY ConstantsAssumption DEF NewKey, Known, TypeOK, Typed, user, past
<1> QED
  BY <1>1, <1>2, <1>3, SaveQuiet DEF NewKey

LEMMA EnsureFreshTokenQuiet ==
    ASSUME Known, NEW p \in Process, NEW place \in {"off", "choose", "ready", "serving"},
           EnsureFreshToken(p, place),
           place \in {"ready", "serving"} => proc[p].cmd = "serve",
           place = "choose" => proc[p].cmd = "fallback"
    PROVE  Known' /\ Quiet(p)
<1>1. place \in Place
  BY DEF Place
<1>2. CASE Refresh(p, place)
  <2>1. [proc[p].svc EXCEPT !.tokens = tokens + 1] \in Config
    BY <1>2, Copies, ConstantsAssumption DEF Refresh, Known, TypeOK, Config
  <2>2. UNCHANGED <<path, tmp, content, crossed>>
    BY <1>2 DEF Refresh, past
  <2>3. Typed'
    BY <1>2, ConstantsAssumption DEF Refresh, Known, TypeOK, Typed, user, past
  <2> QED
    BY <1>2, <2>1, <2>2, <2>3, SaveQuiet DEF Refresh
<1>3. CASE NoRefresh(p, place)
  <2>1. UNCHANGED <<path, tmp, content, crossed>> /\ Typed'
    BY <1>3, Stay DEF NoRefresh, past, Known
  <2> QED
    BY <1>1, <1>3, <2>1, ExitQuiet, GotoQuiet DEF NoRefresh
<1> QED
  BY <1>2, <1>3 DEF EnsureFreshToken

\* A step of p with a command, in the order of Next.
Commands(p) ==
    \/ Login(p) \/ KeyReset(p) \/ Show(p) \/ ClearFallback(p)
    \/ \E disabled \in BOOLEAN : SetAuth(p, disabled)
    \/ Query(p) \/ Fallback(p) \/ \E m \in Model : Choose(p, m)
    \/ EnsureKey(p) \/ HaveKey(p) \/ Boot(p) \/ Listen(p) \/ Serve(p)
    \/ Die(p)

LEMMA CommandsQuiet ==
    ASSUME Known, NEW p \in Process, SaveFails(p) \/ Commands(p)
    PROVE  Known' /\ Quiet(p)
<1>1. /\ proc[p] \in Proc /\ Fits(proc[p])
      /\ {"off", "choose", "boot", "listen", "ready", "serving"} \subseteq Place
  BY DEF Known, TypeOK, Commanded, Place
<1>2. CASE SaveFails(p)
  <2>1. UNCHANGED <<path, tmp, content, crossed>> /\ Typed'
    BY <1>2, Stay DEF SaveFails, past, Known
  <2>2. CASE proc[p].after = "serving"
    <3> DEFINE x == [proc[p] EXCEPT !.pc = "serving", !.fd = NoFile]
    <3>1. "serving" \in Place /\ NoFile \in File \cup {NoFile}
      BY <1>1
    <3>2. x \in Proc
      BY <1>1, <3>1, Constants, Changing
    <3>3. proc' = [proc EXCEPT ![p] = x]
      BY <1>2, <2>2 DEF SaveFails
    <3>4. Becomes(p, x)
      BY <3>2, <3>3, Becoming DEF Known
    <3>5. x.pc = "serving" /\ x.cmd = proc[p].cmd /\ x.after = proc[p].after
      BY <1>1 DEF Proc
    <3>6. Fits(x)
      BY <1>1, <2>2, <3>5 DEF Fits
    <3> HIDE DEF x
    <3> QED
      BY <2>1, <3>4, <3>5, <3>6, QuietStep
  <2>3. CASE proc[p].after # "serving"
    BY <1>2, <2>1, <2>3, ExitQuiet DEF SaveFails
  <2> QED
    BY <2>2, <2>3
<1>3. CASE Login(p)
  <2>1. [proc[p].cfg EXCEPT !.tokens = tokens + 1] \in Config
    BY <1>3, Copies, ConstantsAssumption DEF Login, Known, TypeOK, Config
  <2>2. UNCHANGED <<path, tmp, content, crossed>>
    BY <1>3 DEF Login, past
  <2>3. Typed'
    BY <1>3, ConstantsAssumption DEF Login, Known, TypeOK, Typed, user, past
  <2> QED
    BY <1>1, <1>3, <2>1, <2>2, <2>3, SaveQuiet DEF Login
<1>4. CASE KeyReset(p) \/ EnsureKey(p)
  BY <1>4, NewKeyQuiet DEF KeyReset, EnsureKey
<1>5. CASE Show(p)
  <2>1. UNCHANGED <<path, tmp, content, crossed>>
    BY <1>5 DEF Show, past
  <2>2. Typed'
    BY <1>1, <1>5, Constants DEF Show, Known, TypeOK, Typed, world, past, Proc, Config
  <2> QED
    BY <1>1, <1>5, <2>1, <2>2, ExitQuiet, GotoQuiet DEF Show
<1>6. CASE ClearFallback(p)
  <2>1. [proc[p].cfg EXCEPT !.model = Nothing] \in Config
    BY Copies DEF Known, Config
  <2>2. UNCHANGED <<path, tmp, content, crossed>> /\ Typed'
    BY <1>6, Stay DEF ClearFallback, past, Known
  <2> QED
    BY <1>1, <1>6, <2>1, <2>2, SaveQuiet DEF ClearFallback
<1>7. CASE \E disabled \in BOOLEAN : SetAuth(p, disabled)
  <2>1. PICK disabled \in BOOLEAN : SetAuth(p, disabled)
    BY <1>7
  <2>2. [proc[p].cfg EXCEPT !.authDisabled = disabled] \in Config
    BY Copies DEF Known, Config
  <2>3. UNCHANGED <<path, tmp, content, crossed>> /\ Typed'
    BY <2>1, Stay DEF SetAuth, past, Known
  <2> QED
    BY <1>1, <2>1, <2>2, <2>3, ExitQuiet, SaveQuiet DEF SetAuth
<1>8. CASE Query(p) \/ Fallback(p) \/ Serve(p)
  <2>1. CASE Query(p)
    BY <2>1, EnsureFreshTokenQuiet DEF Query
  <2>2. CASE Fallback(p)
    BY <2>2, EnsureFreshTokenQuiet DEF Fallback, Running
  <2>3. CASE Serve(p)
    BY <1>1, <2>3, EnsureFreshTokenQuiet DEF Serve, EnsureFreshToken, At, Fits
  <2> QED
    BY <1>8, <2>1, <2>2, <2>3
<1>9. CASE \E m \in Model : Choose(p, m)
  <2>1. PICK m \in Model : Choose(p, m)
    BY <1>9
  <2>2. [proc[p].cfg EXCEPT !.model = m] \in Config
    BY Copies DEF Known, Config
  <2>3. UNCHANGED <<path, tmp, content, crossed>> /\ Typed'
    BY <2>1, Stay DEF Choose, past, Known
  <2> QED
    BY <1>1, <2>1, <2>2, <2>3, SaveQuiet DEF Choose
<1>10. CASE HaveKey(p)
  <2>1. UNCHANGED <<path, tmp, content, crossed>> /\ Typed'
    BY <1>10, Stay DEF HaveKey, past, Known
  <2> QED
    BY <1>1, <1>10, <2>1, ExitQuiet, GotoQuiet DEF HaveKey
<1>11. CASE Boot(p)
  <2> DEFINE addr == IF proc[p].addr = Nothing THEN proc[p].cfg.listenAddr ELSE proc[p].addr
             c == [proc[p].cfg EXCEPT !.listenAddr = addr]
             x == [proc[p] EXCEPT !.svc = c, !.pc = "listen"]
  <2>1. UNCHANGED <<path, tmp, content, crossed>> /\ Typed'
    BY <1>11, Stay DEF Boot, past, Known
  <2>2. x \in Proc
    <3>1. "listen" \in Place /\ proc[p].cfg \in Config /\ NoFile \in File \cup {NoFile}
      BY <1>1, Copies DEF Known
    <3>2. addr \in Addr
      BY <1>1, <3>1 DEF Proc, Config
    <3>3. c \in Config
      BY <3>1, <3>2 DEF Config
    <3> HIDE DEF c
    <3> QED
      BY <1>1, <3>1, <3>3, Changing
  <2>3. proc' = [proc EXCEPT ![p] = x]
    BY <1>11 DEF Boot
  <2>4. Becomes(p, x)
    BY <2>2, <2>3, Becoming DEF Known
  <2>5. x.pc = "listen" /\ x.cmd = proc[p].cmd /\ x.after = proc[p].after
    BY <1>1 DEF Proc
  <2>6. Fits(x)
    BY <1>1, <1>11, <2>5 DEF Fits, Boot, At
  <2> HIDE DEF x
  <2> QED
    BY <2>1, <2>4, <2>5, <2>6, QuietStep
<1>12. CASE Listen(p)
  <2>1. proc[p].cmd = "serve"
    BY <1>1, <1>12 DEF Listen, At, Fits
  <2>2. CASE At(p, "listen") /\ EnsureFreshToken(p, "ready")
    BY <2>1, <2>2, EnsureFreshTokenQuiet
  <2>3. CASE /\ At(p, "ready") /\ Goto(p, "serving")
             /\ UNCHANGED <<path, tmp, content, world, user, past>>
    <3>1. UNCHANGED <<path, tmp, content, crossed>> /\ Typed'
      BY <2>3, Stay DEF past, Known
    <3> QED
      BY <1>1, <2>1, <2>3, <3>1, GotoQuiet
  <2> QED
    BY <1>12, <2>2, <2>3 DEF Listen
<1>13. CASE Die(p)
  <2>1. UNCHANGED <<path, tmp, content, crossed>>
    BY <1>13 DEF Die, past
  <2>2. unseen' \in BOOLEAN
    BY <1>13, Zenon DEF Die
  <2>3. Typed'
    BY <1>13, <2>2 DEF Die, Known, TypeOK, Typed, world, past
  <2> QED
    BY <1>13, <2>1, <2>3, ExitQuiet DEF Die
<1> QED
  BY <1>2, <1>3, <1>4, <1>5, <1>6, <1>7, <1>8, <1>9, <1>10, <1>11, <1>12, <1>13 DEF Commands
LEMMA OpenTmpKnown ==
    ASSUME Known, Apart, NEW p \in Process, OpenTmp(p)
    PROVE  /\ Known' /\ Apart'
           /\ Becomes(p, [proc[p] EXCEPT !.pc = "write", !.fd = tmp'])
           /\ tmp' \in File /\ tmp' # path /\ path' = path
           /\ content' = [content EXCEPT ![tmp'] = Empty] /\ Stored' = Stored
<1> DEFINE x == [proc[p] EXCEPT !.pc = "write", !.fd = tmp']
<1>1. tmp' = IF tmp = NoFile THEN FreeFile ELSE tmp
  BY DEF OpenTmp
<1>2. tmp' \in File /\ tmp' # path /\ path' = path
  BY <1>1, FreeFileIsFree DEF OpenTmp, Known, TypeOK, Apart, NoFile
<1>3. content' = [content EXCEPT ![tmp'] = Empty]
  BY DEF OpenTmp
<1>4. Stored' = Stored
  BY <1>2, <1>3 DEF Known, TypeOK, Stored
<1>5. proc[p] \in Proc /\ Fits(proc[p]) /\ "write" \in Place /\ tmp' \in File \cup {NoFile}
  BY <1>2 DEF Known, TypeOK, Commanded, Place
<1>6. x \in Proc
  BY <1>5, Constants, Changing
<1>7. proc' = [proc EXCEPT ![p] = x]
  BY DEF OpenTmp
<1>8. Becomes(p, x)
  BY <1>6, <1>7, Becoming DEF Known
<1>9. x.pc = "write" /\ x.cmd = proc[p].cmd /\ x.after = proc[p].after
  BY <1>5 DEF Proc
<1>10. Fits(x)
  BY <1>5, <1>9 DEF Fits
<1>11. content' \in [File -> Config \cup {Empty, Mixed}]
  BY <1>2, <1>3 DEF Known, TypeOK
<1>12. crossed' \in BOOLEAN
  BY Zenon DEF OpenTmp
<1> HIDE DEF x
<1>13. TypeOK'
  BY <1>2, <1>8, <1>11, <1>12 DEF Becomes, OpenTmp, Known, TypeOK, world, user
<1>14. Commanded'
  BY <1>8, <1>10 DEF Becomes, Known, Commanded
<1>15. Apart'
  BY <1>2 DEF Apart
<1> QED
  BY <1>2, <1>3, <1>4, <1>8, <1>13, <1>14, <1>15 DEF Known, x

LEMMA WriteTmpKnown ==
    ASSUME Known, Apart, NEW p \in Process, WriteTmp(p)
    PROVE  /\ Known' /\ Apart'
           /\ Becomes(p, [proc[p] EXCEPT !.pc = "rename", !.fd = NoFile])
<1> DEFINE x == [proc[p] EXCEPT !.pc = "rename", !.fd = NoFile]
<1>1. proc[p] \in Proc /\ Fits(proc[p]) /\ "rename" \in Place /\ NoFile \in File \cup {NoFile}
  BY DEF Known, TypeOK, Commanded, Place
<1>2. x \in Proc
  BY <1>1, Constants, Changing
<1>3. proc' = [proc EXCEPT ![p] = x]
  BY DEF WriteTmp
<1>4. Becomes(p, x)
  BY <1>2, <1>3, Becoming DEF Known
<1>5. x.pc = "rename" /\ x.cmd = proc[p].cmd /\ x.after = proc[p].after
  BY <1>1 DEF Proc
<1>6. Fits(x)
  BY <1>1, <1>5 DEF Fits
<1>7. content' \in [File -> Config \cup {Empty, Mixed}]
  BY Copies DEF WriteTmp, Known, TypeOK
<1>8. path' = path /\ tmp' = tmp /\ UNCHANGED <<world, user, past>>
  BY DEF WriteTmp
<1> HIDE DEF x
<1>9. TypeOK'
  BY <1>4, <1>7, <1>8 DEF Becomes, Known, TypeOK, world, user, past
<1>10. Commanded'
  BY <1>4, <1>6 DEF Becomes, Known, Commanded
<1> QED
  BY <1>4, <1>8, <1>9, <1>10 DEF Known, Apart, x

LEMMA RenameKnown ==
    ASSUME Known, Apart, NEW p \in Process, Rename(p)
    PROVE  /\ Known' /\ Apart'
           /\ Becomes(p, IF proc[p].after = "off" THEN Gone
                         ELSE [proc[p] EXCEPT !.pc = proc[p].after])
           /\ tmp # NoFile /\ Stored' = content[tmp]
<1> DEFINE y == [proc[p] EXCEPT !.pc = proc[p].after]
           x == IF proc[p].after = "off" THEN Gone ELSE y
<1>1. proc[p] \in Proc /\ Fits(proc[p]) /\ proc[p].after \in Place
  BY DEF Known, TypeOK, Commanded, Proc
<1>2. y.pc = proc[p].after /\ y.cmd = proc[p].cmd /\ y.after = proc[p].after
  BY <1>1 DEF Proc
<1>3. Fits(y)
  BY <1>1, <1>2 DEF Fits
<1>4. Becomes(p, x) /\ Fits(x)
  <2>1. CASE proc[p].after = "off"
    <3>1. Exit(p) /\ x = Gone
      BY <2>1 DEF Rename
    <3> QED
      BY <3>1, ExitBecomes, GoneFits DEF Known
  <2>2. CASE proc[p].after # "off"
    <3>1. Goto(p, proc[p].after) /\ x = y
      BY <2>2 DEF Rename
    <3>2. Becomes(p, y)
      BY <1>1, <3>1, GotoBecomes DEF Known
    <3> HIDE DEF x, y
    <3> QED
      BY <1>3, <3>1, <3>2
  <2> QED
    BY <2>1, <2>2
<1>5. content' \in [File -> Config \cup {Empty, Mixed}]
  BY DEF Rename, Known, TypeOK
<1>6. /\ path' = tmp /\ tmp # NoFile /\ tmp' = NoFile
      /\ UNCHANGED <<world, shown, unseen, past>>
  BY DEF Rename
<1>7. want' \in [authDisabled : BOOLEAN, model : Model \cup {Nothing}, listenAddr : Addr]
  <2>1. want \in [authDisabled : BOOLEAN, model : Model \cup {Nothing}, listenAddr : Addr]
    BY DEF Known, TypeOK
  <2>2. /\ proc[p].cfg.authDisabled \in BOOLEAN /\ proc[p].cfg.model \in Model \cup {Nothing}
        /\ proc[p].addr \in Addr \cup {Nothing}
    BY <1>1, Copies DEF Known, Config, Proc
  <2>3. want' = Wanted(proc[p])
    BY DEF Rename
  <2> QED
    BY <2>1, <2>2, <2>3 DEF Wanted
<1>8. Stored' = content[tmp]
  BY <1>6 DEF Stored, Rename, Known, TypeOK, Apart
<1> HIDE DEF x
<1>9. TypeOK'
  BY <1>4, <1>5, <1>6, <1>7 DEF Becomes, Known, TypeOK, world, past
<1>10. Commanded'
  BY <1>4 DEF Becomes, Known, Commanded
<1> QED
  BY <1>4, <1>6, <1>8, <1>9, <1>10 DEF Known, Apart, x

LEMMA AgeKnown ==
    ASSUME Known, NEW g \in 1..MaxTokens, Age(g)
    PROVE  Known'
<1>1. TypeOK'
  BY DEF Age, Known, TypeOK, user, past
<1>2. Commanded'
  BY DEF Age, Known, Commanded
<1> QED
  BY <1>1, <1>2 DEF Known

LEMMA EditKnown ==
    ASSUME Known, NEW addr \in Addr, Edit(addr)
    PROVE  /\ Known'
           /\ Stored \in Config /\ Stored' \in Config
           /\ Stored' = [Stored EXCEPT !.listenAddr = addr]
<1>1. /\ path # NoFile /\ path' = path /\ tmp' = tmp /\ proc' = proc
      /\ content' = [content EXCEPT ![path].listenAddr = addr]
  BY DEF Edit
<1>2. path \in File /\ content \in [File -> Config \cup {Empty, Mixed}]
  BY <1>1 DEF Known, TypeOK
<1>3. content[path] \in Config
  BY <1>1, <1>2 DEF Edit, Readable, Stored
<1>4. Stored' = [Stored EXCEPT !.listenAddr = addr]
  BY <1>1, <1>2 DEF Stored
<1>5. [content[path] EXCEPT !.listenAddr = addr] \in Config
  BY <1>3 DEF Config
<1>6. content' \in [File -> Config \cup {Empty, Mixed}]
  BY <1>1, <1>2, <1>5
<1>7. want' \in [authDisabled : BOOLEAN, model : Model \cup {Nothing}, listenAddr : Addr]
  <2>1. want \in [authDisabled : BOOLEAN, model : Model \cup {Nothing}, listenAddr : Addr]
    BY DEF Known, TypeOK
  <2> QED
    BY <2>1 DEF Edit
<1>8. UNCHANGED <<world, past>> /\ shown' = shown /\ unseen' = unseen
  BY DEF Edit
<1>9. TypeOK'
  BY <1>1, <1>6, <1>7, <1>8 DEF Known, TypeOK, world, past
<1>10. Commanded'
  BY <1>1 DEF Known, Commanded
<1> QED
  BY <1>1, <1>3, <1>4, <1>5, <1>9, <1>10 DEF Known, Stored

LEMMA Steps ==
    ASSUME Next
    PROVE  \/ \E p \in Process, c \in Command, addr \in Addr \cup {Nothing} : Load(p, c, addr)
           \/ \E p \in Process : OpenTmp(p)
           \/ \E p \in Process : WriteTmp(p)
           \/ \E p \in Process : Rename(p)
           \/ \E p \in Process : SaveFails(p)
           \/ \E p \in Process : Commands(p)
           \/ \E g \in 1..MaxTokens : Age(g)
           \/ \E addr \in Addr : Edit(addr)
BY Zenon DEF Next, Commands

----------------------------------------------------------------------------
(* The file can be loaded *)

\* A step that leaves the files alone keeps them sound.
LEMMA SoundQuiet ==
    ASSUME Sound, NEW p \in Process, Quiet(p)
    PROVE  Sound'
<1>1. UNCHANGED <<path, tmp, content, crossed>> /\ (Readable' <=> Readable)
  BY DEF Quiet, Readable, Stored
<1>2. \A q \in Process : Midway(q)' => q # p /\ proc'[q] = proc[q]
  BY DEF Quiet, Becomes, Midway
<1>3. SUFFICES ASSUME ~crossed
               PROVE  /\ \A q, r \in Process : Midway(q)' /\ Midway(r)' => q = r
                      /\ \A q \in Process :
                            /\ proc'[q].pc = "write" => /\ proc'[q].fd = tmp /\ tmp # NoFile
                                                        /\ content[tmp] = Empty
                            /\ proc'[q].pc = "rename" =>
                                  tmp # NoFile /\ content[tmp] = proc'[q].buf
                      /\ Readable
  BY <1>1 DEF Sound, At
<1> QED
  BY <1>2, <1>3 DEF Sound, Midway, At

LEMMA SoundOpen ==
    ASSUME Known, Apart, Sound, NEW p \in Process, OpenTmp(p)
    PROVE  Sound'
<1>1. SUFFICES ASSUME ~crossed'
               PROVE  Sound'
  BY DEF Sound
<1>2. ~crossed /\ \A q \in Process : ~At(q, "write") /\ ~At(q, "rename")
  BY <1>1, Zenon DEF OpenTmp
<1> DEFINE x == [proc[p] EXCEPT !.pc = "write", !.fd = tmp']
<1>3. /\ Becomes(p, x) /\ Stored' = Stored /\ tmp' \in File
      /\ content' = [content EXCEPT ![tmp'] = Empty]
  BY OpenTmpKnown
<1>4. x.pc = "write" /\ x.fd = tmp'
  BY DEF Known, TypeOK, Proc
<1>5. content'[tmp'] = Empty /\ tmp' # NoFile
  BY <1>3, Constants DEF Known, TypeOK
<1> HIDE DEF x
<1>6. \A q \in Process : Midway(q)' => q = p
  BY <1>2, <1>3 DEF Midway, Becomes, At
<1>7. Readable'
  BY <1>2, <1>3 DEF Sound, Readable
<1>8. proc'[p].pc = "write" /\ proc'[p].fd = tmp'
  BY <1>3, <1>4 DEF Becomes
<1> QED
  BY <1>5, <1>6, <1>7, <1>8 DEF Sound, At, Midway

LEMMA SoundWrite ==
    ASSUME Known, Apart, Sound, NEW p \in Process, WriteTmp(p)
    PROVE  /\ Sound'
           /\ ~crossed => Stored' = Stored
<1>1. crossed' = crossed /\ path' = path /\ tmp' = tmp
  BY DEF WriteTmp, past
<1>2. SUFFICES ASSUME ~crossed
               PROVE  Sound' /\ Stored' = Stored
  BY <1>1 DEF Sound
<1> DEFINE x == [proc[p] EXCEPT !.pc = "rename", !.fd = NoFile]
<1>3. Becomes(p, x)
  BY WriteTmpKnown
<1>4. x.pc = "rename" /\ x.buf = proc[p].buf
  BY DEF Known, TypeOK, Proc
<1> HIDE DEF x
<1>5. Midway(p) /\ proc[p].fd = tmp /\ tmp # NoFile /\ content[tmp] = Empty
  BY <1>2 DEF WriteTmp, Sound, At, Midway
<1>6. content' = [content EXCEPT ![tmp] = proc[p].buf]
  BY <1>5 DEF WriteTmp
<1>7. tmp \in File /\ path # tmp
  BY <1>5 DEF Known, TypeOK, Apart
<1>8. Stored' = Stored
  BY <1>1, <1>6, <1>7 DEF Stored, Known, TypeOK
<1>9. content'[tmp] = proc[p].buf
  BY <1>6, <1>7 DEF Known, TypeOK
<1>10. \A q \in Process : Midway(q)' => q = p
  BY <1>2, <1>3, <1>5 DEF Sound, Midway, Becomes
<1>11. Readable'
  BY <1>2, <1>8 DEF Sound, Readable
<1>12. proc'[p].pc = "rename" /\ proc'[p].buf = proc[p].buf
  BY <1>3, <1>4 DEF Becomes
<1>13. Sound'
  BY <1>1, <1>5, <1>9, <1>10, <1>11, <1>12 DEF Sound, At, Midway
<1> QED
  BY <1>8, <1>13

LEMMA SoundRename ==
    ASSUME Known, Apart, Sound, NEW p \in Process, Rename(p)
    PROVE  /\ Sound'
           /\ ~crossed => Stored' = proc[p].buf
<1>1. crossed' = crossed
  BY DEF Rename, past
<1>2. SUFFICES ASSUME ~crossed
               PROVE  Sound' /\ Stored' = proc[p].buf
  BY <1>1 DEF Sound
<1> DEFINE x == IF proc[p].after = "off" THEN Gone ELSE [proc[p] EXCEPT !.pc = proc[p].after]
<1>3. Becomes(p, x) /\ Stored' = content[tmp]
  BY RenameKnown
<1>4. Midway(p) /\ content[tmp] = proc[p].buf
  BY <1>2 DEF Rename, Sound, At, Midway
<1>5. Readable'
  BY <1>3, <1>4, Copies, FilesAssumption DEF Known, Readable
<1>6. x.pc = proc[p].after
  BY GoneFits DEF Known, TypeOK, Proc
<1> HIDE DEF x
<1>7. proc'[p].pc = proc[p].after
  BY <1>3, <1>6 DEF Becomes
<1>8. proc'[p].pc \notin {"write", "rename"}
  BY <1>7 DEF Known, Commanded, Fits
<1>9. \A q \in Process : ~Midway(q)'
  BY <1>2, <1>3, <1>4, <1>8 DEF Sound, Midway, Becomes
<1>10. Sound'
  BY <1>5, <1>9 DEF Sound, At, Midway
<1> QED
  BY <1>3, <1>4, <1>10

\* DamageNeedsCrossedSaves and the types, of any number of processes.
SoundInv == Known /\ Apart /\ Sound

LEMMA SoundInit == Init => SoundInv
<1> SUFFICES ASSUME Init PROVE SoundInv
  OBVIOUS
<1>1. Gone \in Proc /\ Fits(Gone) /\ Gone.pc = "off"
  BY Constants, GoneFits
<1>2. TypeOK
  <2>1. want \in [authDisabled : BOOLEAN, model : Model \cup {Nothing}, listenAddr : Addr]
    BY ConstantsAssumption DEF Init
  <2>2. unseen \in BOOLEAN /\ crossed \in BOOLEAN
    BY Zenon DEF Init
  <2> QED
    BY <1>1, <2>1, <2>2, Constants, ConstantsAssumption DEF Init, TypeOK
<1>3. Commanded
  BY <1>1 DEF Init, Commanded
<1>4. Apart /\ Readable
  BY Constants, FilesAssumption DEF Init, Apart, Readable, Stored
<1>5. Sound
  BY <1>1, <1>4 DEF Init, Sound, Midway, At
<1> QED
  BY <1>2, <1>3, <1>4, <1>5 DEF SoundInv, Known

LEMMA SoundStep == SoundInv /\ [Next]_vars => SoundInv'
<1> SUFFICES ASSUME SoundInv, [Next]_vars PROVE SoundInv'
  OBVIOUS
<1>1. Known /\ Apart /\ Sound
  BY DEF SoundInv
<1>2. ASSUME NEW p \in Process, Known', Quiet(p)
      PROVE  SoundInv'
  BY <1>1, <1>2, SoundQuiet DEF SoundInv, Apart, Quiet
<1>3. ASSUME NEW p \in Process, NEW c \in Command, NEW addr \in Addr \cup {Nothing},
             Load(p, c, addr)
      PROVE  SoundInv'
  BY <1>1, <1>2, <1>3, LoadQuiet
<1>4. ASSUME NEW p \in Process, SaveFails(p) \/ Commands(p)
      PROVE  SoundInv'
  BY <1>1, <1>2, <1>4, CommandsQuiet
<1>5. ASSUME NEW p \in Process, OpenTmp(p)
      PROVE  SoundInv'
  BY <1>1, <1>5, OpenTmpKnown, SoundOpen DEF SoundInv
<1>6. ASSUME NEW p \in Process, WriteTmp(p)
      PROVE  SoundInv'
  BY <1>1, <1>6, WriteTmpKnown, SoundWrite DEF SoundInv
<1>7. ASSUME NEW p \in Process, Rename(p)
      PROVE  SoundInv'
  BY <1>1, <1>7, RenameKnown, SoundRename DEF SoundInv
<1>8. ASSUME NEW g \in 1..MaxTokens, Age(g)
      PROVE  SoundInv'
  <2>1. UNCHANGED <<path, tmp, content, proc, crossed>>
    BY <1>8 DEF Age, past
  <2>2. Apart' /\ Sound'
    BY <1>1, <2>1 DEF Apart, Sound, Midway, At, Readable, Stored
  <2> QED
    BY <1>1, <1>8, <2>2, AgeKnown DEF SoundInv
<1>9. CASE UNCHANGED vars
  <2>1. /\ UNCHANGED <<path, tmp, content, proc, tokens, aged, keys>>
        /\ UNCHANGED <<shown, unseen, want, starts, together, crossed>>
    BY <1>9 DEF vars, world, user, past
  <2>2. Known'
    BY <1>1, <2>1 DEF Known, TypeOK, Commanded
  <2>3. Apart' /\ Sound'
    BY <1>1, <2>1 DEF Apart, Sound, Midway, At, Readable, Stored
  <2> QED
    BY <2>2, <2>3 DEF SoundInv
<1>10. ASSUME NEW addr \in Addr, Edit(addr)
       PROVE  SoundInv'
  <2>1. Known' /\ Stored' \in Config
    BY <1>1, <1>10, EditKnown
  <2>2. Readable'
    BY <2>1, FilesAssumption DEF Readable
  <2>3. path' = path /\ tmp' = tmp /\ proc' = proc /\ \A p \in Process : At(p, "off")
    BY <1>10 DEF Edit
  <2>4. Apart' /\ Sound'
    BY <1>1, <2>2, <2>3 DEF Apart, Sound, Midway, At
  <2> QED
    BY <2>1, <2>4 DEF SoundInv
<1> QED
  BY <1>3, <1>4, <1>5, <1>6, <1>7, <1>8, <1>9, <1>10, Steps

LEMMA SoundInvariant == Spec => []SoundInv
BY SoundInit, SoundStep, PTL DEF Spec

\* Every variable keeps its type: the files, the processes, what was issued and what the
\* user was shown and set.
THEOREM TypeCorrect == Spec => []TypeOK
<1>1. SoundInv => TypeOK
  BY DEF SoundInv, Known
<1> QED
  BY <1>1, SoundInvariant, PTL

\* Save's temporary file and rename: whichever of any number of processes dies at
\* whatever step, the configuration can be loaded, unless two were saving at once.
THEOREM LoadableUnlessCrossed == Spec => []DamageNeedsCrossedSaves
<1>1. SoundInv => DamageNeedsCrossedSaves
  BY DEF SoundInv, Sound, DamageNeedsCrossedSaves
<1> QED
  BY <1>1, SoundInvariant, PTL

----------------------------------------------------------------------------
(* One process after the other *)

LEMMA Numbers ==
    ASSUME TypeOK, NEW c \in Config
    PROVE  /\ tokens \in Nat /\ keys \in Nat /\ shown \in Nat
           /\ c.tokens \in Nat /\ c.key \in Nat
BY ConstantsAssumption DEF TypeOK, Config

\* The running process has the file for itself.
Alone(p) ==
    /\ \A q \in Process \ {p} : At(q, "off")
    /\ ~crossed /\ Stored \in Config
    /\ Settings(Stored) = want /\ Below(Stored)
    /\ Rest(proc[p]) /\ Saves(proc[p])
    /\ unseen \/ Stored.key = shown \/ At(p, "show")

LEMMA Lone ==
    ASSUME SoundInv, Kept, together = "nothing", NEW p \in Process, ~At(p, "off")
    PROVE  Alone(p)
<1>1. ~crossed /\ Settings(Stored) = want /\ Below(Stored)
  BY DEF Kept
<1>2. \A q \in Process \ {p} : At(q, "off")
  BY DEF Kept
<1>3. Stored \in Config
  BY <1>1, Constants DEF SoundInv, Known, TypeOK, Sound, Readable, Stored
<1>4. Rest(proc[p]) /\ Saves(proc[p])
  BY DEF Kept
<1>5. unseen \/ Stored.key = shown \/ At(p, "show")
  <2>1. unseen \/ Stored.key = shown \/ \E q \in Process : At(q, "show")
    BY Zenon DEF Kept
  <2>2. ASSUME NEW q \in Process, At(q, "show") PROVE At(p, "show")
    <3>1. ~At(q, "off")
      BY <2>2 DEF At
    <3>2. q = p
      BY <1>2, <3>1
    <3> QED
      BY <2>2, <3>2
  <2> QED
    BY <2>1, <2>2, Zenon
<1> QED
  BY <1>1, <1>2, <1>3, <1>4, <1>5, Zenon DEF Alone

LEMMA StayAlone ==
    ASSUME NEW p \in Process, Becomes(p, proc'[p]), \A q \in Process \ {p} : At(q, "off"),
           ~crossed', Settings(Stored)' = want', Below(Stored)',
           Rest(proc[p])', Saves(proc[p])',
           unseen' \/ Stored'.key = shown' \/ proc'[p].pc = "show"
    PROVE  Kept'
<1>1. \A q \in Process \ {p} : proc'[q].pc = "off"
  BY DEF Becomes, At
<1>2. \A q, r \in Process : ~At(q, "off")' /\ ~At(r, "off")' => q = r
  BY <1>1 DEF At
<1>3. ASSUME NEW q \in Process PROVE Rest(proc[q])' /\ Saves(proc[q])'
  <2>1. CASE q = p
    BY <2>1
  <2>2. CASE q # p
    BY <1>1, <2>2 DEF Rest, Saves
  <2> QED
    BY <2>1, <2>2
<1>4. unseen' \/ Stored'.key = shown' \/ \E q \in Process : At(q, "show")'
  BY Zenon DEF At
<1> QED
  BY <1>2, <1>3, <1>4, Zenon DEF Kept

\* A quiet step that keeps what the user set.
LEMMA QuietAlone ==
    ASSUME SoundInv, NEW p \in Process, Alone(p), Quiet(p), want' = want,
           tokens' \in Nat, tokens <= tokens', keys' \in Nat, keys <= keys',
           Rest(proc[p])', Saves(proc[p])',
           unseen' \/ Stored.key = shown' \/ proc'[p].pc = "show"
    PROVE  Kept'
<1>1. Stored' = Stored /\ crossed' = crossed
  BY DEF Quiet, Stored
<1>2. Settings(Stored)' = want'
  BY <1>1 DEF Settings, Alone
<1>3. Below(Stored)'
  BY <1>1, Numbers DEF Below, Alone, SoundInv, Known
<1>4. unseen' \/ Stored'.key = shown' \/ proc'[p].pc = "show"
  BY <1>1, Zenon
<1>5. Becomes(p, proc'[p]) /\ ~crossed' /\ \A q \in Process \ {p} : At(q, "off")
  BY <1>1 DEF Quiet, Alone
<1> QED
  BY <1>2, <1>3, <1>4, <1>5, StayAlone

LEMMA ExitFields ==
    ASSUME TypeOK, NEW p \in Process, Exit(p)
    PROVE  proc'[p].pc = "off"
BY ExitBecomes, GoneFits DEF Becomes

LEMMA GotoFields ==
    ASSUME TypeOK, NEW p \in Process, NEW place \in Place, Goto(p, place)
    PROVE  /\ proc'[p].pc = place
           /\ proc'[p].cmd = proc[p].cmd /\ proc'[p].after = proc[p].after
           /\ proc'[p].cfg = proc[p].cfg /\ proc'[p].svc = proc[p].svc
           /\ proc'[p].buf = proc[p].buf /\ proc'[p].addr = proc[p].addr
BY Copies DEF Goto, TypeOK, Proc

LEMMA SaveCommandFields ==
    ASSUME TypeOK, NEW p \in Process, NEW c, NEW place, SaveCommand(p, c, place)
    PROVE  /\ proc'[p].pc = "open"
           /\ proc'[p].cmd = proc[p].cmd /\ proc'[p].after = place
           /\ proc'[p].cfg = c /\ proc'[p].svc = proc[p].svc /\ proc'[p].buf = c
           /\ proc'[p].addr = proc[p].addr
BY Copies DEF SaveCommand, Saving, TypeOK, Proc

LEMMA SaveServiceFields ==
    ASSUME TypeOK, NEW p \in Process, NEW c, NEW place, SaveService(p, c, place)
    PROVE  /\ proc'[p].pc = "open"
           /\ proc'[p].cmd = proc[p].cmd /\ proc'[p].after = place
           /\ proc'[p].cfg = proc[p].cfg /\ proc'[p].svc = c /\ proc'[p].buf = c
           /\ proc'[p].addr = proc[p].addr
BY Copies DEF SaveService, Saving, TypeOK, Proc

\* The process ends.
LEMMA ExitAlone ==
    ASSUME SoundInv, NEW p \in Process, Alone(p), Quiet(p), Exit(p), UNCHANGED world,
           want' = want, unseen' \/ Stored.key = shown'
    PROVE  Kept'
<1>1. proc'[p].pc = "off"
  BY ExitFields DEF SoundInv, Known
<1>2. Rest(proc[p])' /\ Saves(proc[p])'
  BY <1>1 DEF Rest, Saves
<1>3. /\ tokens' \in Nat /\ tokens <= tokens' /\ keys' \in Nat /\ keys <= keys'
  BY Numbers, Constants DEF world, SoundInv, Known
<1>4. unseen' \/ Stored.key = shown' \/ proc'[p].pc = "show"
  BY Zenon
<1> QED
  BY <1>2, <1>3, <1>4, QuietAlone

\* A save begins: what is saved is what the user set, with what is new.
LEMMA SaveAlone ==
    ASSUME SoundInv, NEW p \in Process, Alone(p), Quiet(p), ~At(p, "show"),
           proc'[p].pc = "open", Saves(proc[p])', UNCHANGED user,
           tokens' \in Nat, tokens <= tokens', keys' \in Nat, keys <= keys'
    PROVE  Kept'
<1>1. Rest(proc[p])'
  BY DEF Rest
<1>2. want' = want
  BY DEF user
<1>3. unseen' \/ Stored.key = shown' \/ proc'[p].pc = "show"
  BY Zenon DEF user, Alone
<1> QED
  BY <1>1, <1>2, <1>3, QuietAlone

LEMMA LoginAlone ==
    ASSUME SoundInv, NEW p \in Process, Alone(p), Quiet(p), Login(p)
    PROVE  Kept'
<1> DEFINE c == [proc[p].cfg EXCEPT !.tokens = tokens + 1]
<1>1. /\ tokens \in Nat /\ tokens' = tokens + 1 /\ keys' = keys /\ keys \in Nat
      /\ UNCHANGED user
  BY Numbers, Constants DEF Login, SoundInv, Known
<1>2. proc[p].cfg \in Config /\ proc[p].pc = "act" /\ proc[p].cmd = "login"
  BY Copies DEF Login, Running, At, SoundInv, Known
<1>3. /\ proc'[p].pc = "open" /\ proc'[p].cmd = "login" /\ proc'[p].after = "off"
      /\ proc'[p].buf = c
  BY <1>2, SaveCommandFields DEF Login, SoundInv, Known
<1>4. c.tokens = tokens + 1 /\ c.key = proc[p].cfg.key /\ Settings(c) = Settings(proc[p].cfg)
  BY <1>2 DEF Config, Settings
<1> HIDE DEF c
<1>5. /\ proc[p].cfg.key = Stored.key /\ proc[p].cfg.key <= keys
      /\ Settings(proc[p].cfg) = want
  BY <1>2 DEF Alone, Rest, Below, Booted
<1>6. Stored' = Stored /\ want' = want
  BY <1>1 DEF Quiet, Stored, user
<1>7. Wanted(proc[p])' = want
  BY <1>3, <1>6 DEF Wanted
<1>8. Stored.tokens \in Nat /\ Stored.key \in Nat /\ Stored.tokens <= tokens
  BY Numbers DEF Alone, Below, SoundInv, Known
<1>9. Settings(proc[p].buf)' = want
  BY <1>3, <1>4, <1>5 DEF Settings
<1>10. Below(proc[p].buf)'
  BY <1>1, <1>3, <1>4, <1>5 DEF Below
<1>11. proc'[p].buf.key >= Stored.key /\ proc'[p].buf.tokens >= Stored.tokens
  BY <1>1, <1>3, <1>4, <1>5, <1>8
<1>12. Saves(proc[p])'
  BY <1>3, <1>4, <1>5, <1>6, <1>7, <1>9, <1>10, <1>11 DEF Saves
<1>13. /\ ~At(p, "show")
       /\ tokens' \in Nat /\ tokens <= tokens' /\ keys' \in Nat /\ keys <= keys'
  BY <1>1, <1>2 DEF At
<1> QED
  BY <1>1, <1>3, <1>12, <1>13, SaveAlone

LEMMA NewKeyAlone ==
    ASSUME SoundInv, NEW p \in Process, Alone(p), Quiet(p),
           KeyReset(p) \/ EnsureKey(p)
    PROVE  Kept'
<1> DEFINE c == [proc[p].cfg EXCEPT !.key = keys + 1]
<1>1. /\ tokens \in Nat /\ tokens' = tokens /\ keys' = keys + 1 /\ keys \in Nat
      /\ UNCHANGED user
  BY Numbers, Constants DEF KeyReset, EnsureKey, NewKey, SoundInv, Known
<1>2. /\ proc[p].cfg \in Config /\ proc[p].pc = "act"
      /\ proc[p].cmd \in {"key reset", "start", "serve"}
  BY Copies DEF KeyReset, EnsureKey, Running, At, SoundInv, Known
<1>3. SaveCommand(p, c, "show")
  BY DEF KeyReset, EnsureKey, NewKey
<1>4. c.key = keys + 1 /\ c.tokens = proc[p].cfg.tokens /\ Settings(c) = Settings(proc[p].cfg)
  BY <1>2 DEF Config, Settings
<1> HIDE DEF c
<1>5. /\ proc'[p].pc = "open" /\ proc'[p].cmd = proc[p].cmd /\ proc'[p].after = "show"
      /\ proc'[p].cfg = c /\ proc'[p].svc = proc[p].svc /\ proc'[p].buf = c
  BY <1>3, SaveCommandFields DEF SoundInv, Known
<1>6. /\ proc[p].cfg.tokens >= Stored.tokens /\ proc[p].cfg.tokens <= tokens
      /\ Settings(proc[p].cfg) = want /\ Settings(proc[p].svc) = want
  BY <1>2 DEF Alone, Rest, Below, Booted
<1>7. Stored' = Stored /\ want' = want
  BY <1>1 DEF Quiet, Stored, user
<1>8. Wanted(proc[p])' = want
  BY <1>2, <1>5, <1>7 DEF Wanted
<1>9. /\ Stored.tokens \in Nat /\ Stored.key \in Nat /\ Stored.key <= keys
      /\ proc[p].cfg.tokens \in Nat
  BY <1>2, Numbers DEF Alone, Below, SoundInv, Known
<1>10. /\ Settings(proc[p].buf)' = want /\ Settings(proc[p].cfg)' = want
       /\ Settings(proc[p].svc)' = want
  BY <1>4, <1>5, <1>6 DEF Settings
<1>11. Below(proc[p].buf)'
  BY <1>1, <1>4, <1>5, <1>6, <1>9 DEF Below
<1>12. proc'[p].buf.key >= Stored.key /\ proc'[p].buf.tokens >= Stored.tokens
  BY <1>1, <1>4, <1>5, <1>6, <1>9
<1>13. Saves(proc[p])'
  BY <1>5, <1>7, <1>8, <1>10, <1>11, <1>12 DEF Saves
<1>14. ~At(p, "show")
  BY <1>2 DEF At
<1>15. tokens' \in Nat /\ tokens <= tokens' /\ keys' \in Nat /\ keys <= keys'
  BY <1>1
<1> QED
  BY <1>1, <1>5, <1>13, <1>14, <1>15, SaveAlone

\* auth disable, auth enable, fallback --clear and the choice of a fallback: one setting
\* is changed, the one the command is for.
Changed(r, c) ==
    /\ r.pc = "act" \/ (r.pc = "choose" /\ r.cmd = "fallback")
    /\ c.tokens = r.cfg.tokens /\ c.key = r.cfg.key
    /\ \/ /\ r.cmd \in {"auth disable", "auth enable"}
          /\ Settings(c) = [Settings(r.cfg) EXCEPT !.authDisabled = c.authDisabled]
       \/ /\ r.cmd \in {"fallback --clear", "fallback"}
          /\ Settings(c) = [Settings(r.cfg) EXCEPT !.model = c.model]

LEMMA SettingAlone ==
    ASSUME SoundInv, NEW p \in Process, Alone(p), Quiet(p), NEW c \in Config,
           SaveCommand(p, c, "off"), Changed(proc[p], c),
           UNCHANGED <<world, user>>
    PROVE  Kept'
<1>1. tokens \in Nat /\ tokens' = tokens /\ keys' = keys /\ keys \in Nat /\ UNCHANGED user
  BY Numbers, Constants DEF world, SoundInv, Known
<1>2. /\ proc'[p].pc = "open" /\ proc'[p].cmd = proc[p].cmd /\ proc'[p].after = "off"
      /\ proc'[p].cfg = c /\ proc'[p].buf = c
  BY SaveCommandFields DEF SoundInv, Known
<1>3. /\ proc[p].pc = "act" \/ (proc[p].pc = "choose" /\ proc[p].cmd = "fallback")
      /\ c.tokens = proc[p].cfg.tokens /\ c.key = proc[p].cfg.key
  BY DEF Changed
<1>4. /\ proc[p].cfg.key = Stored.key /\ Below(proc[p].cfg)
      /\ Settings(proc[p].cfg) = want
      /\ proc[p].pc = "act" => proc[p].cfg.tokens >= Stored.tokens
  BY <1>3 DEF Alone, Rest, Booted
<1>5. Stored' = Stored /\ want' = want
  BY <1>1 DEF Quiet, Stored, user
<1>6. Wanted(proc[p])' = Settings(c)
  BY <1>2, <1>5, <1>4 DEF Changed, Wanted
<1>7. Settings(proc[p].buf)' = Settings(c)
  BY <1>2 DEF Settings
<1>8. Below(proc[p].buf)'
  BY <1>1, <1>2, <1>3, <1>4 DEF Below
<1>9. Stored.key \in Nat
  BY Numbers DEF Alone, SoundInv, Known
<1>10. /\ proc'[p].buf.key = Stored.key /\ proc'[p].buf.key >= Stored.key
       /\ proc'[p].buf.tokens >= Stored.tokens \/ proc'[p].cmd = "fallback"
  BY <1>2, <1>3, <1>4, <1>9
<1>11. Saves(proc[p])'
  BY <1>2, <1>5, <1>6, <1>7, <1>8, <1>10 DEF Saves
<1>12. ~At(p, "show")
  BY <1>3 DEF At
<1>13. tokens' \in Nat /\ tokens <= tokens' /\ keys' \in Nat /\ keys <= keys'
  BY <1>1
<1> QED
  BY <1>1, <1>2, <1>11, <1>12, <1>13, SaveAlone

\* Who asks EnsureFreshToken for a token, and where it goes on with it.
Asks(r, place) ==
    \/ r.pc = "act" /\ r.cmd = "query" /\ place = "off"
    \/ r.pc = "act" /\ r.cmd = "fallback" /\ place = "choose"
    \/ r.pc \in {"listen", "serving"} /\ r.cmd = "serve" /\ place \in {"ready", "serving"}

LEMMA RefreshAlone ==
    ASSUME SoundInv, NEW p \in Process, Alone(p), Quiet(p),
           NEW place \in {"off", "choose", "ready", "serving"}, Refresh(p, place),
           Asks(proc[p], place)
    PROVE  Kept'
<1> DEFINE c == [proc[p].svc EXCEPT !.tokens = tokens + 1]
<1>1. /\ tokens \in Nat /\ tokens' = tokens + 1 /\ keys' = keys /\ keys \in Nat
      /\ UNCHANGED user
  BY Numbers, Constants DEF Refresh, SoundInv, Known
<1>2. proc[p].svc \in Config /\ proc[p].cfg \in Config
  BY Copies DEF SoundInv, Known
<1>3. SaveService(p, c, place)
  BY DEF Refresh
<1>4. c.tokens = tokens + 1 /\ c.key = proc[p].svc.key /\ Settings(c) = Settings(proc[p].svc)
  BY <1>2 DEF Config, Settings
<1> HIDE DEF c
<1>5. /\ proc'[p].pc = "open" /\ proc'[p].cmd = proc[p].cmd /\ proc'[p].after = place
      /\ proc'[p].cfg = proc[p].cfg /\ proc'[p].svc = c /\ proc'[p].buf = c
  BY <1>3, SaveServiceFields DEF SoundInv, Known
<1>6. /\ proc[p].cfg.key = Stored.key /\ Below(proc[p].cfg)
      /\ proc[p].svc.key = Stored.key /\ Below(proc[p].svc)
      /\ proc[p].pc = "act" => Settings(proc[p].cfg) = want /\ Settings(proc[p].svc) = want
      /\ proc[p].pc # "act" => Settings(proc[p].svc) = Own(proc[p])
  BY DEF Alone, Rest, Asks, Booted
<1>7. Stored' = Stored /\ want' = want /\ Own(proc[p])' = Own(proc[p])
  <2>1. Stored' = Stored /\ want' = want
    BY <1>1 DEF Quiet, Stored, user
  <2>2. proc'[p].addr = proc[p].addr
    BY <1>3, SaveServiceFields DEF SoundInv, Known
  <2> QED
    BY <2>1, <2>2 DEF Own
<1>8. Wanted(proc[p])' = IF proc[p].pc = "act" THEN want ELSE Own(proc[p])
  BY <1>5, <1>7 DEF Wanted, Own, Asks
<1>9. /\ Stored.tokens \in Nat /\ Stored.key \in Nat /\ Stored.tokens <= tokens
      /\ proc[p].cfg.tokens \in Nat /\ proc[p].cfg.key \in Nat
  BY <1>2, Numbers DEF Alone, Below, SoundInv, Known
<1>10. /\ Settings(proc[p].buf)' = Wanted(proc[p])'
       /\ proc[p].pc = "act" => Settings(proc[p].cfg)' = want /\ Settings(proc[p].svc)' = want
  BY <1>4, <1>5, <1>6, <1>8 DEF Settings
<1>11. Below(proc[p].buf)' /\ Below(proc[p].cfg)'
  BY <1>1, <1>4, <1>5, <1>6, <1>9 DEF Below
<1>12. /\ proc'[p].buf.key = Stored.key /\ proc'[p].buf.key >= Stored.key
       /\ proc'[p].buf.tokens >= Stored.tokens
  BY <1>1, <1>4, <1>5, <1>6, <1>9
<1>13. Saves(proc[p])'
  BY <1>5, <1>6, <1>7, <1>8, <1>10, <1>11, <1>12 DEF Saves, Asks
<1>14. ~At(p, "show")
  BY DEF At, Asks
<1>15. tokens' \in Nat /\ tokens <= tokens' /\ keys' \in Nat /\ keys <= keys'
  BY <1>1
<1> QED
  BY <1>1, <1>5, <1>13, <1>14, <1>15, SaveAlone

\* The process goes on: what it has in memory is as good at the next place.
LEMMA GotoAlone ==
    ASSUME SoundInv, NEW p \in Process, Alone(p), Quiet(p),
           NEW place \in {"choose", "boot", "ready", "serving"}, Goto(p, place),
           proc[p].pc \in {"act", "show", "listen", "ready"},
           proc[p].pc \in {"act", "show"} \/ place # "boot",
           proc[p].pc = "show" => place = "boot",
           proc[p].pc \in Booted <=> place \in Booted,
           UNCHANGED world, want' = want, unseen' \/ Stored.key = shown'
    PROVE  Kept'
<1>1. /\ tokens' = tokens /\ keys' = keys /\ tokens' \in Nat /\ tokens <= tokens'
      /\ keys' \in Nat /\ keys <= keys'
  BY Numbers, Constants DEF world, SoundInv, Known
<1>2. place \in Place
  BY DEF Place
<1>3. /\ proc'[p].pc = place
      /\ proc'[p].cfg = proc[p].cfg /\ proc'[p].svc = proc[p].svc
      /\ proc'[p].addr = proc[p].addr
  BY <1>2, GotoFields DEF SoundInv, Known
<1>4. Stored' = Stored /\ Own(proc[p])' = Own(proc[p])
  BY <1>3 DEF Quiet, Stored, Own
<1>5. Rest(proc[p])
  BY DEF Alone
<1>6. Rest(proc[p])'
  BY <1>1, <1>3, <1>4, <1>5 DEF Rest, Below, Settings, Booted
<1>7. Saves(proc[p])'
  BY <1>3 DEF Saves
<1>8. unseen' \/ Stored.key = shown' \/ proc'[p].pc = "show"
  BY Zenon
<1> QED
  BY <1>1, <1>6, <1>7, <1>8, QuietAlone

LEMMA EnsureFreshTokenAlone ==
    ASSUME SoundInv, NEW p \in Process, Alone(p), Quiet(p),
           NEW place \in {"off", "choose", "ready", "serving"}, EnsureFreshToken(p, place),
           Asks(proc[p], place), ~At(p, "serving")
    PROVE  Kept'
<1>1. CASE Refresh(p, place)
  BY <1>1, RefreshAlone
<1>2. CASE NoRefresh(p, place)
  <2>1. UNCHANGED world /\ want' = want /\ unseen' = unseen /\ shown' = shown
    BY <1>2 DEF NoRefresh, user
  <2>2. unseen \/ Stored.key = shown
    <3>1. ~At(p, "show")
      BY DEF At, Asks
    <3> QED
      BY <3>1, Zenon DEF Alone
  <2>3. unseen' \/ Stored.key = shown'
    BY <2>1, <2>2
  <2>4. CASE place = "off"
    BY <1>2, <2>1, <2>3, <2>4, ExitAlone DEF NoRefresh
  <2>5. CASE place # "off"
    <3>1. Goto(p, place)
      BY <1>2, <2>5 DEF NoRefresh
    <3>2. /\ place \in {"choose", "boot", "ready", "serving"}
          /\ proc[p].pc \in {"act", "show", "listen", "ready"}
          /\ proc[p].pc \in {"act", "show"} \/ place # "boot"
          /\ proc[p].pc = "show" => place = "boot"
          /\ proc[p].pc \in Booted <=> place \in Booted
      BY <2>5 DEF Asks, At, Booted
    <3> QED
      BY <2>1, <2>3, <3>1, <3>2, GotoAlone
  <2> QED
    BY <2>4, <2>5
<1> QED
  BY <1>1, <1>2 DEF EnsureFreshToken

LEMMA BootAlone ==
    ASSUME SoundInv, NEW p \in Process, Alone(p), Quiet(p), Boot(p)
    PROVE  Kept'
<1>1. /\ tokens' = tokens /\ keys' = keys /\ tokens' \in Nat /\ tokens <= tokens'
      /\ keys' \in Nat /\ keys <= keys' /\ UNCHANGED user
  BY Numbers, Constants DEF Boot, world, SoundInv, Known
<1>2. proc[p] \in Proc /\ proc[p].pc = "boot"
  BY DEF Boot, At, SoundInv, Known, TypeOK
<1> DEFINE c == proc[p].cfg
           addr == IF proc[p].addr = Nothing THEN c.listenAddr ELSE proc[p].addr
           d == [c EXCEPT !.listenAddr = addr]
<1>3. /\ proc'[p].pc = "listen" /\ proc'[p].cfg = c /\ proc'[p].svc = d
      /\ proc'[p].addr = proc[p].addr
  BY <1>2 DEF Boot, SoundInv, Known, TypeOK, Proc
<1>4. Stored' = Stored /\ want' = want /\ Own(proc[p])' = Own(proc[p])
  BY <1>1, <1>3 DEF Quiet, Stored, user, Own
<1>5. Rest(proc[p])
  BY DEF Alone
<1>6. c.key = Stored.key /\ Below(c) /\ Settings(c) = want /\ c.tokens >= Stored.tokens
  BY <1>2, <1>5 DEF Rest, Booted
<1>7. d.key = c.key /\ d.tokens = c.tokens /\ Settings(d) = Own(proc[p])
  <2>1. c \in Config
    BY <1>2, Copies DEF SoundInv, Known
  <2>2. /\ d.key = c.key /\ d.tokens = c.tokens /\ d.authDisabled = c.authDisabled
        /\ d.model = c.model /\ d.listenAddr = addr
    BY <2>1 DEF Config
  <2>3. Settings(d) = [Settings(c) EXCEPT !.listenAddr = addr]
    BY <2>2 DEF Settings
  <2>4. Settings(c) = [Settings(c) EXCEPT !.listenAddr = c.listenAddr]
    BY DEF Settings
  <2> HIDE DEF c, d
  <2> QED
    BY <1>6, <2>2, <2>3, <2>4 DEF Own
<1> HIDE DEF c, d
<1>8. Rest(proc[p])'
  BY <1>1, <1>3, <1>4, <1>6, <1>7 DEF Rest, Below, Booted, Settings
<1>9. Saves(proc[p])'
  BY <1>3 DEF Saves
<1>10. ~At(p, "show")
  BY <1>2 DEF At
<1>11. unseen' \/ Stored.key = shown' \/ proc'[p].pc = "show"
  BY <1>1, <1>10, Zenon DEF user, Alone
<1> QED
  BY <1>1, <1>4, <1>8, <1>9, <1>11, QuietAlone

LEMMA SaveFailsAlone ==
    ASSUME SoundInv, NEW p \in Process, Alone(p), Quiet(p), SaveFails(p)
    PROVE  Kept'
<1>1. /\ tokens' = tokens /\ keys' = keys /\ tokens' \in Nat /\ tokens <= tokens'
      /\ keys' \in Nat /\ keys <= keys' /\ UNCHANGED user /\ UNCHANGED world
  BY Numbers, Constants DEF SaveFails, world, SoundInv, Known
<1>2. proc[p] \in Proc /\ proc[p].pc \in {"write", "rename"}
  BY DEF SaveFails, At, SoundInv, Known, TypeOK
<1>3. Stored' = Stored /\ want' = want /\ unseen' = unseen /\ shown' = shown
  BY <1>1 DEF Quiet, Stored, user
<1>4. ~At(p, "show")
  BY <1>2 DEF At
<1>5. unseen' \/ Stored.key = shown'
  BY <1>3, <1>4, Zenon DEF Alone
<1>6. CASE proc[p].after = "serving"
  <2>1. /\ proc'[p].pc = "serving" /\ proc'[p].cfg = proc[p].cfg
        /\ proc'[p].svc = proc[p].svc /\ proc'[p].addr = proc[p].addr
    BY <1>2, <1>6 DEF SaveFails, SoundInv, Known, TypeOK, Proc
  <2>2. Saves(proc[p])
    BY DEF Alone
  <2>3. Rest(proc[p])'
    BY <1>1, <1>2, <1>3, <1>6, <2>1, <2>2 DEF Rest, Saves, Below, Settings, Booted, Own
  <2>4. Saves(proc[p])'
    BY <2>1 DEF Saves
  <2>5. unseen' \/ Stored.key = shown' \/ proc'[p].pc = "show"
    BY <1>5, Zenon
  <2> QED
    BY <1>1, <1>3, <2>3, <2>4, <2>5, QuietAlone
<1>7. CASE proc[p].after # "serving"
  <2>1. Exit(p)
    BY <1>7 DEF SaveFails
  <2> QED
    BY <1>1, <1>3, <1>5, <2>1, ExitAlone
<1> QED
  BY <1>6, <1>7

LEMMA ShowAlone ==
    ASSUME SoundInv, NEW p \in Process, Alone(p), Quiet(p), Show(p)
    PROVE  Kept'
<1>1. UNCHANGED world /\ want' = want /\ shown' = proc[p].cfg.key /\ proc[p].pc = "show"
  BY DEF Show, At
<1>2. proc[p].cfg.key = Stored.key
  BY <1>1 DEF Alone, Rest
<1>3. unseen' \/ Stored.key = shown'
  BY <1>1, <1>2, Zenon
<1>4. CASE proc[p].cmd = "serve"
  <2>1. Goto(p, "boot") /\ (proc[p].pc \in Booted <=> "boot" \in Booted)
    BY <1>1, <1>4 DEF Show, Booted
  <2> QED
    BY <1>1, <1>3, <2>1, GotoAlone
<1>5. CASE proc[p].cmd # "serve"
  <2>1. Exit(p)
    BY <1>5 DEF Show
  <2> QED
    BY <1>1, <1>3, <2>1, ExitAlone
<1> QED
  BY <1>4, <1>5

LEMMA SettingsAlone ==
    ASSUME SoundInv, NEW p \in Process, Alone(p), Quiet(p),
           \/ ClearFallback(p)
           \/ \E disabled \in BOOLEAN : SetAuth(p, disabled)
           \/ \E m \in Model : Choose(p, m)
    PROVE  Kept'
<1>1. proc[p] \in Proc /\ proc[p].cfg \in Config /\ Fits(proc[p])
  BY Copies DEF SoundInv, Known, TypeOK, Commanded
<1>2. CASE ClearFallback(p)
  <2> DEFINE c == [proc[p].cfg EXCEPT !.model = Nothing]
  <2>1. SaveCommand(p, c, "off") /\ UNCHANGED <<world, user>>
    BY <1>2 DEF ClearFallback
  <2>2. c \in Config
    BY <1>1 DEF Config
  <2>3. proc[p].pc = "act" /\ proc[p].cmd = "fallback --clear"
    BY <1>2 DEF ClearFallback, Running, At
  <2>4. /\ c.tokens = proc[p].cfg.tokens /\ c.key = proc[p].cfg.key
        /\ Settings(c) = [Settings(proc[p].cfg) EXCEPT !.model = c.model]
    BY <1>1 DEF Settings, Config
  <2> HIDE DEF c
  <2>5. Changed(proc[p], c)
    BY <2>3, <2>4 DEF Changed
  <2> QED
    BY <2>1, <2>2, <2>5, SettingAlone
<1>3. CASE \E disabled \in BOOLEAN : SetAuth(p, disabled)
  <2>1. PICK disabled \in BOOLEAN : SetAuth(p, disabled)
    BY <1>3
  <2>2. /\ UNCHANGED <<world, user>>
        /\ proc[p].pc = "act" /\ proc[p].cmd \in {"auth disable", "auth enable"}
    BY <2>1 DEF SetAuth, Running, At
  <2>3. CASE proc[p].cfg.authDisabled = disabled
    <3>1. Exit(p)
      BY <2>1, <2>3 DEF SetAuth
    <3>2. want' = want /\ unseen' = unseen /\ shown' = shown /\ UNCHANGED world
      BY <2>2 DEF user
    <3>3. ~At(p, "show")
      BY <2>2 DEF At
    <3>4. unseen' \/ Stored.key = shown'
      BY <3>2, <3>3, Zenon DEF Alone
    <3> QED
      BY <3>1, <3>2, <3>4, ExitAlone
  <2>4. CASE proc[p].cfg.authDisabled # disabled
    <3> DEFINE c == [proc[p].cfg EXCEPT !.authDisabled = disabled]
    <3>1. SaveCommand(p, c, "off")
      BY <2>1, <2>4 DEF SetAuth
    <3>2. c \in Config
      BY <1>1 DEF Config
    <3>3. /\ c.tokens = proc[p].cfg.tokens /\ c.key = proc[p].cfg.key
          /\ Settings(c) = [Settings(proc[p].cfg) EXCEPT !.authDisabled = c.authDisabled]
      BY <1>1 DEF Settings, Config
    <3> HIDE DEF c
    <3>4. Changed(proc[p], c)
      BY <2>2, <3>3 DEF Changed
    <3> QED
      BY <2>2, <3>1, <3>2, <3>4, SettingAlone
  <2> QED
    BY <2>3, <2>4
<1>4. CASE \E m \in Model : Choose(p, m)
  <2>1. PICK m \in Model : Choose(p, m)
    BY <1>4
  <2> DEFINE c == [proc[p].cfg EXCEPT !.model = m]
  <2>2. SaveCommand(p, c, "off") /\ UNCHANGED <<world, user>>
    BY <2>1 DEF Choose
  <2>3. c \in Config
    BY <1>1 DEF Config
  <2>4. proc[p].pc = "choose" /\ proc[p].cmd = "fallback"
    BY <1>1, <2>1 DEF Choose, At, Fits
  <2>5. Changed(proc[p], c)
    BY <1>1, <2>4 DEF Changed, Settings, Config
  <2> HIDE DEF c
  <2> QED
    BY <2>2, <2>3, <2>5, SettingAlone
<1> QED
  BY <1>2, <1>3, <1>4

LEMMA CommandsAlone ==
    ASSUME SoundInv, NEW p \in Process, Alone(p), Quiet(p), Commands(p)
    PROVE  Kept'
<1>1. Fits(proc[p])
  BY DEF SoundInv, Known, Commanded
<1>2. CASE Login(p)
  BY <1>2, LoginAlone
<1>3. CASE KeyReset(p) \/ EnsureKey(p)
  BY <1>3, NewKeyAlone
<1>4. CASE Show(p)
  BY <1>4, ShowAlone
<1>5. CASE \/ ClearFallback(p) \/ \E disabled \in BOOLEAN : SetAuth(p, disabled)
           \/ \E m \in Model : Choose(p, m)
  BY <1>5, SettingsAlone
<1>6. CASE Query(p)
  <2>1. /\ Asks(proc[p], "off") /\ ~At(p, "serving")
        /\ EnsureFreshToken(p, "off")
    BY <1>6 DEF Query, Running, At, Asks
  <2> QED
    BY <2>1, EnsureFreshTokenAlone
<1>7. CASE Fallback(p)
  <2>1. /\ Asks(proc[p], "choose") /\ ~At(p, "serving")
        /\ EnsureFreshToken(p, "choose")
    BY <1>7 DEF Fallback, Running, At, Asks
  <2> QED
    BY <2>1, EnsureFreshTokenAlone
<1>8. CASE HaveKey(p)
  <2>1. proc[p].pc = "act" /\ UNCHANGED <<world, user>>
    BY <1>8 DEF HaveKey, Running, At
  <2>2. want' = want /\ unseen' = unseen /\ shown' = shown /\ UNCHANGED world
    BY <2>1 DEF user
  <2>3. ~At(p, "show")
    BY <2>1 DEF At
  <2>4. unseen' \/ Stored.key = shown'
    BY <2>2, <2>3, Zenon DEF Alone
  <2>5. CASE Goto(p, "boot")
    <3>1. proc[p].pc \in Booted <=> "boot" \in Booted
      BY <2>1 DEF Booted
    <3> QED
      BY <2>1, <2>2, <2>4, <2>5, <3>1, GotoAlone
  <2>6. CASE Exit(p)
    BY <2>2, <2>4, <2>6, ExitAlone
  <2> QED
    BY <1>8, <2>5, <2>6 DEF HaveKey
<1>9. CASE Boot(p)
  BY <1>9, BootAlone
<1>10. CASE Listen(p)
  <2>1. CASE At(p, "listen") /\ EnsureFreshToken(p, "ready")
    <3>1. Asks(proc[p], "ready") /\ ~At(p, "serving")
      BY <1>1, <2>1 DEF At, Fits, Asks
    <3> QED
      BY <2>1, <3>1, EnsureFreshTokenAlone
  <2>2. CASE /\ At(p, "ready") /\ Goto(p, "serving")
             /\ UNCHANGED <<path, tmp, content, world, user, past>>
    <3>1. proc[p].pc = "ready" /\ UNCHANGED <<world, user>>
      BY <2>2 DEF At
    <3>2. want' = want /\ unseen' = unseen /\ shown' = shown /\ UNCHANGED world
      BY <3>1 DEF user
    <3>3. ~At(p, "show")
      BY <3>1 DEF At
    <3>4. unseen' \/ Stored.key = shown'
      BY <3>2, <3>3, Zenon DEF Alone
    <3>5. proc[p].pc \in Booted <=> "serving" \in Booted
      BY <3>1 DEF Booted
    <3> QED
      BY <2>2, <3>1, <3>2, <3>4, <3>5, GotoAlone
  <2> QED
    BY <1>10, <2>1, <2>2 DEF Listen
<1>11. CASE Serve(p)
  <2>1. Asks(proc[p], "serving") /\ Refresh(p, "serving")
    BY <1>1, <1>11 DEF Serve, At, Fits, Asks
  <2> QED
    BY <2>1, RefreshAlone
<1>12. CASE Die(p)
  <2>1. want' = want /\ shown' = shown /\ UNCHANGED world /\ Exit(p)
    BY <1>12 DEF Die
  <2>2. unseen \/ At(p, "show") => unseen'
    BY <1>12, Zenon DEF Die
  <2>3. unseen' \/ Stored.key = shown'
    BY <2>1, <2>2, Zenon DEF Alone
  <2> QED
    BY <2>1, <2>3, ExitAlone
<1> QED
  BY <1>2, <1>3, <1>4, <1>5, <1>6, <1>7, <1>8, <1>9, <1>10, <1>11, <1>12 DEF Commands

LEMMA CommandsTogether ==
    ASSUME NEW p \in Process, SaveFails(p) \/ Commands(p)
    PROVE  together' = together /\ ~At(p, "off")
<1>1. CASE SaveFails(p)
  BY <1>1 DEF SaveFails, At, past
<1>2. CASE Login(p) \/ KeyReset(p) \/ EnsureKey(p) \/ HaveKey(p) \/ ClearFallback(p)
  BY <1>2 DEF Login, KeyReset, EnsureKey, HaveKey, ClearFallback, NewKey, Running, At, past
<1>3. CASE Show(p) \/ Boot(p) \/ Die(p) \/ \E m \in Model : Choose(p, m)
  BY <1>3 DEF Show, Boot, Die, Choose, At, past
<1>4. CASE \E disabled \in BOOLEAN : SetAuth(p, disabled)
  BY <1>4 DEF SetAuth, Running, At, past
<1>5. CASE Query(p) \/ Fallback(p) \/ Listen(p) \/ Serve(p)
  BY <1>5 DEF Query, Fallback, Listen, Serve, EnsureFreshToken, Refresh, NoRefresh, Running,
              At, past
<1> QED
  BY <1>1, <1>2, <1>3, <1>4, <1>5 DEF Commands

LEMMA LoadKept ==
    ASSUME SoundInv, Kept, NEW p \in Process, NEW c \in Command,
           NEW addr \in Addr \cup {Nothing}, Load(p, c, addr), Quiet(p),
           together' = "nothing"
    PROVE  Kept'
<1> DEFINE x == [Gone EXCEPT !.pc = "act", !.cmd = c, !.cfg = Stored, !.svc = Stored,
                             !.since = shown, !.addr = addr]
<1>1. together = "nothing" /\ \A q \in Process : At(q, "off")
  BY DEF Load
<1>2. UNCHANGED <<world, user>> /\ proc' = [proc EXCEPT ![p] = x]
  BY DEF Load
<1>3. x.pc = "act" /\ x.cfg = Stored /\ x.svc = Stored
  BY DEF Gone
<1> HIDE DEF x
<1>4. proc'[p].pc = "act" /\ proc'[p].cfg = Stored /\ proc'[p].svc = Stored
  BY <1>2, <1>3 DEF SoundInv, Known, TypeOK
<1>5. Stored' = Stored /\ crossed' = crossed /\ Becomes(p, proc'[p])
  BY DEF Quiet, Stored
<1>6. /\ want' = want /\ tokens' = tokens /\ keys' = keys
      /\ unseen' = unseen /\ shown' = shown
  BY <1>2 DEF world, user
<1>7. ~crossed /\ Settings(Stored) = want /\ Below(Stored)
  BY <1>1 DEF Kept
<1>8. Stored \in Config
  BY Constants DEF Load, Readable, Stored, SoundInv, Known, TypeOK
<1>9. Stored.tokens \in Nat /\ Stored.key \in Nat
  BY <1>8, Numbers DEF SoundInv, Known
<1>10. Settings(Stored)' = want' /\ Below(Stored)'
  BY <1>5, <1>6, <1>7 DEF Settings, Below
<1>11. Rest(proc[p])'
  BY <1>4, <1>5, <1>6, <1>7, <1>9 DEF Rest, Settings, Below, Booted
<1>12. Saves(proc[p])'
  BY <1>4 DEF Saves
<1>13. \A q \in Process : ~At(q, "show")
  BY <1>1 DEF At
<1>14. unseen \/ Stored.key = shown
  BY <1>1, <1>13, Zenon DEF Kept
<1>15. unseen' \/ Stored'.key = shown' \/ proc'[p].pc = "show"
  BY <1>5, <1>6, <1>14, Zenon
<1> QED
  BY <1>1, <1>5, <1>7, <1>10, <1>11, <1>12, <1>15, StayAlone

\* Between opening and renaming the file that has the name is as it was.
LEMMA WritingAlone ==
    ASSUME SoundInv, NEW p \in Process, Alone(p), OpenTmp(p) \/ WriteTmp(p)
    PROVE  Kept'
<1>1. Known /\ Apart /\ Sound /\ ~crossed
  BY DEF SoundInv, Alone
<1>2. UNCHANGED <<world, user>>
  BY DEF OpenTmp, WriteTmp
<1>3. proc[p] \in Proc /\ proc[p].pc \in {"open", "write"}
  BY <1>1 DEF OpenTmp, WriteTmp, At, Known, TypeOK
<1>4. /\ Becomes(p, proc'[p]) /\ Stored' = Stored
      /\ proc'[p].pc \in {"write", "rename"}
      /\ proc'[p].cfg = proc[p].cfg /\ proc'[p].svc = proc[p].svc
      /\ proc'[p].buf = proc[p].buf /\ proc'[p].cmd = proc[p].cmd
      /\ proc'[p].after = proc[p].after /\ proc'[p].addr = proc[p].addr
  <2>1. CASE OpenTmp(p)
    <3>1. /\ Becomes(p, [proc[p] EXCEPT !.pc = "write", !.fd = tmp'])
          /\ Stored' = Stored
      BY <1>1, <2>1, OpenTmpKnown
    <3> QED
      BY <1>3, <3>1 DEF Becomes, Proc
  <2>2. CASE WriteTmp(p)
    <3>1. /\ Becomes(p, [proc[p] EXCEPT !.pc = "rename", !.fd = NoFile])
          /\ Stored' = Stored
      BY <1>1, <2>2, WriteTmpKnown, SoundWrite
    <3> QED
      BY <1>3, <3>1 DEF Becomes, Proc
  <2> QED
    BY <2>1, <2>2
<1>5. ~crossed'
  <2>1. \A q \in Process : q # p => ~At(q, "write") /\ ~At(q, "rename")
    BY DEF Alone, At
  <2>2. CASE OpenTmp(p)
    <3>1. At(p, "open") /\ ~At(p, "write") /\ ~At(p, "rename")
      BY <2>2 DEF OpenTmp, At
    <3> QED
      BY <1>1, <2>1, <2>2, <3>1, Zenon DEF OpenTmp
  <2>3. CASE WriteTmp(p)
    BY <1>1, <2>3 DEF WriteTmp, past
  <2> QED
    BY <2>2, <2>3
<1>6. /\ want' = want /\ tokens' = tokens /\ keys' = keys
      /\ unseen' = unseen /\ shown' = shown
  BY <1>2 DEF world, user
<1>7. /\ \A q \in Process \ {p} : At(q, "off")
      /\ Settings(Stored) = want /\ Below(Stored) /\ Saves(proc[p])
  BY DEF Alone
<1>8. Settings(Stored)' = want' /\ Below(Stored)'
  BY <1>4, <1>6, <1>7 DEF Settings, Below
<1>9. Rest(proc[p])'
  BY <1>4 DEF Rest
<1>10. Wanted(proc[p])' = Wanted(proc[p]) /\ Own(proc[p])' = Own(proc[p])
  BY <1>4, <1>6 DEF Wanted, Own
<1>11. Saves(proc[p])'
  BY <1>3, <1>4, <1>6, <1>7, <1>10 DEF Saves, Settings, Below
<1>12. ~At(p, "show")
  BY <1>3 DEF At
<1>13. unseen \/ Stored.key = shown
  BY <1>12, Zenon DEF Alone
<1>14. unseen' \/ Stored'.key = shown' \/ proc'[p].pc = "show"
  BY <1>4, <1>6, <1>13, Zenon
<1> QED
  BY <1>4, <1>5, <1>7, <1>8, <1>9, <1>11, <1>14, StayAlone

\* The file becomes what was saved, and what the user set is what was saved.
LEMMA RenameAlone ==
    ASSUME SoundInv, NEW p \in Process, Alone(p), Rename(p)
    PROVE  /\ Kept'
           /\ Stored'.key >= Stored.key
           /\ Stored'.tokens >= Stored.tokens \/ proc[p].cmd = "fallback"
<1>1. Known /\ Apart /\ Sound /\ ~crossed
  BY DEF SoundInv, Alone
<1>2. proc[p] \in Proc /\ proc[p].pc = "rename" /\ proc[p].buf \in Config /\ Fits(proc[p])
  BY <1>1, Copies DEF Rename, At, Known, TypeOK, Commanded
<1>3. Stored' = proc[p].buf
  BY <1>1, SoundRename
<1>4. Saves(proc[p]) /\ \A q \in Process \ {p} : At(q, "off")
  BY DEF Alone
<1>5. /\ want' = Wanted(proc[p]) /\ UNCHANGED <<world, past>>
      /\ unseen' = unseen /\ shown' = shown
  BY DEF Rename
<1>6. tokens' = tokens /\ keys' = keys /\ ~crossed'
  BY <1>1, <1>5 DEF world, past
<1>7. Settings(Stored)' = want' /\ Below(Stored)'
  BY <1>2, <1>3, <1>4, <1>5, <1>6 DEF Saves, Settings, Below
<1>8. /\ Stored'.key >= Stored.key
      /\ Stored'.tokens >= Stored.tokens \/ proc[p].cmd = "fallback"
  BY <1>2, <1>3, <1>4 DEF Saves
<1>9. /\ Becomes(p, proc'[p]) /\ proc'[p].pc = proc[p].after
      /\ proc[p].after # "off" => /\ proc'[p].cfg = proc[p].cfg /\ proc'[p].svc = proc[p].svc
                                 /\ proc'[p].addr = proc[p].addr
  <2>1. Becomes(p, IF proc[p].after = "off" THEN Gone
                   ELSE [proc[p] EXCEPT !.pc = proc[p].after])
    BY <1>1, RenameKnown
  <2>2. Becomes(p, proc'[p])
    BY <2>1 DEF Becomes
  <2>3. CASE proc[p].after = "off"
    <3>1. proc'[p] = Gone
      BY <2>1, <2>3 DEF Becomes
    <3> QED
      BY <2>2, <2>3, <3>1, GoneFits
  <2>4. CASE proc[p].after # "off"
    <3>1. proc'[p] = [proc[p] EXCEPT !.pc = proc[p].after]
      BY <2>1, <2>4 DEF Becomes
    <3>2. /\ proc'[p].pc = proc[p].after
          /\ proc'[p].cfg = proc[p].cfg /\ proc'[p].svc = proc[p].svc
          /\ proc'[p].addr = proc[p].addr
      BY <1>2, <3>1 DEF Proc
    <3> QED
      BY <2>2, <3>2
  <2> QED
    BY <2>3, <2>4
<1>10. proc[p].after \in {"off", "show", "choose", "ready", "serving"}
  BY <1>2 DEF Fits
<1>11. /\ proc[p].buf.tokens \in Nat /\ proc[p].buf.key \in Nat
       /\ proc[p].cfg.tokens \in Nat /\ proc[p].cfg.key \in Nat
  BY <1>1, <1>2, Numbers, Copies DEF Known
<1>12. Rest(proc[p])'
  <2>1. CASE proc[p].after = "off"
    BY <1>9, <2>1 DEF Rest
  <2>2. CASE proc[p].after = "show"
    BY <1>2, <1>3, <1>4, <1>5, <1>6, <1>9, <1>11, <2>2 DEF Saves, Rest, Settings, Below, Booted
  <2>3. CASE proc[p].after = "choose"
    BY <1>2, <1>3, <1>4, <1>5, <1>6, <1>9, <1>11, <2>3 DEF Saves, Rest, Settings, Below, Booted
  <2>4. CASE proc[p].after \in {"ready", "serving"}
    <3>1. Settings(proc[p].svc) = want' /\ want' = Own(proc[p])
      BY <1>2, <1>4, <1>5, <2>4 DEF Saves
    <3>2. Own(proc[p])' = want'
      BY <1>9, <2>4, <3>1 DEF Own
    <3> QED
      BY <1>2, <1>3, <1>4, <1>6, <1>9, <1>11, <2>4, <3>1, <3>2
      DEF Saves, Rest, Settings, Below, Booted
  <2> QED
    BY <1>10, <2>1, <2>2, <2>3, <2>4
<1>13. Saves(proc[p])'
  BY <1>9, <1>10 DEF Saves
<1>14. unseen' \/ Stored'.key = shown' \/ proc'[p].pc = "show"
  <2>1. CASE proc[p].after = "show"
    BY <1>9, <2>1, Zenon
  <2>2. CASE proc[p].after # "show"
    <3>1. Stored'.key = Stored.key
      BY <1>2, <1>3, <1>4, <2>2 DEF Saves
    <3>2. ~At(p, "show")
      BY <1>2 DEF At
    <3>3. unseen \/ Stored.key = shown
      BY <3>2, Zenon DEF Alone
    <3> QED
      BY <1>5, <3>1, <3>3, Zenon
  <2> QED
    BY <2>1, <2>2
<1>15. Kept'
  BY <1>4, <1>6, <1>7, <1>9, <1>12, <1>13, <1>14, StayAlone
<1> QED
  BY <1>8, <1>15

\* The user edits the file while nothing runs.
LEMMA EditKept ==
    ASSUME SoundInv, Kept, NEW addr \in Addr, Edit(addr)
    PROVE  Kept'
<1>1. SUFFICES ASSUME together = "nothing" PROVE Kept'
  BY DEF Edit, Kept, past
<1>2. ~crossed /\ Settings(Stored) = want /\ Below(Stored)
  BY <1>1 DEF Kept
<1>3. Stored \in Config /\ Stored' = [Stored EXCEPT !.listenAddr = addr]
  BY EditKnown DEF SoundInv
<1>4. /\ Stored'.authDisabled = Stored.authDisabled /\ Stored'.model = Stored.model
      /\ Stored'.listenAddr = addr
      /\ Stored'.key = Stored.key /\ Stored'.tokens = Stored.tokens
  BY <1>3 DEF Config
<1>5. /\ want' = [want EXCEPT !.listenAddr = addr] /\ shown' = shown /\ unseen' = unseen
      /\ tokens' = tokens /\ keys' = keys /\ crossed' = crossed /\ proc' = proc
  BY DEF Edit, world, past
<1>6. \A p \in Process : proc[p].pc = "off"
  BY DEF Edit, At
<1>7. Settings(Stored)' = want'
  <2>1. Settings(Stored)' = [Settings(Stored) EXCEPT !.listenAddr = addr]
    BY <1>4 DEF Settings
  <2> QED
    BY <1>2, <1>5, <2>1
<1>8. Below(Stored)'
  BY <1>2, <1>4, <1>5 DEF Below
<1>9. \A p \in Process : Rest(proc[p])' /\ Saves(proc[p])'
  BY <1>5, <1>6 DEF Rest, Saves
<1>10. unseen' \/ Stored'.key = shown'
  <2>1. \A p \in Process : ~At(p, "show")
    BY <1>6 DEF At
  <2>2. unseen \/ Stored.key = shown
    BY <1>1, <2>1, Zenon DEF Kept
  <2> QED
    BY <1>4, <1>5, <2>2
<1>11. \A p, q \in Process : ~At(p, "off")' /\ ~At(q, "off")' => p = q
  BY <1>5, <1>6 DEF At
<1> QED
  BY <1>2, <1>5, <1>7, <1>8, <1>9, <1>10, <1>11, Zenon DEF Kept

IInv == SoundInv /\ Kept

LEMMA KeptInit == Init => Kept
<1> SUFFICES ASSUME Init PROVE Kept
  OBVIOUS
<1>1. Stored = Default /\ want = Settings(Default) /\ shown = 0
  BY DEF Init, Stored, Settings, Default
<1>2. \A p \in Process : At(p, "off")
  BY GoneFits DEF Init, At
<1>3. ~crossed
  BY Zenon DEF Init
<1>4. Below(Stored)
  BY <1>1, ConstantsAssumption DEF Below, Default, Init
<1>5. \A p \in Process : Rest(proc[p]) /\ Saves(proc[p])
  BY <1>2 DEF At, Rest, Saves
<1>6. Stored.key = shown
  BY <1>1 DEF Default
<1>7. \A p, q \in Process : ~At(p, "off") /\ ~At(q, "off") => p = q
  BY <1>2
<1> QED
  BY <1>1, <1>3, <1>4, <1>5, <1>6, <1>7, Zenon DEF Kept

\* The place where Stored changes while one process runs after the other.
LEMMA KeptStep ==
    ASSUME IInv, [Next]_vars
    PROVE  /\ Kept'
           /\ together = "nothing" =>
                 \/ Stored' = Stored
                 \/ \E addr \in Addr : Edit(addr)
                 \/ \E p \in Process : Alone(p) /\ Rename(p)
<1>1. SoundInv /\ Known /\ Kept
  BY DEF IInv, SoundInv
<1> DEFINE Wrote == \E p \in Process : Alone(p) /\ Rename(p)
           Edited == \E addr \in Addr : Edit(addr)
           Goal == Kept' /\ (together = "nothing" => Stored' = Stored \/ Edited \/ Wrote)
<1>2. ASSUME NEW p \in Process, SaveFails(p) \/ Commands(p) PROVE Goal
  <2>1. Quiet(p) /\ together' = together /\ ~At(p, "off")
    BY <1>1, <1>2, CommandsQuiet, CommandsTogether
  <2>2. Stored' = Stored
    BY <2>1 DEF Quiet, Stored
  <2>3. CASE together = "nothing"
    BY <1>1, <1>2, <2>1, <2>2, <2>3, Lone, SaveFailsAlone, CommandsAlone
  <2>4. CASE together # "nothing"
    BY <2>1, <2>4 DEF Kept
  <2> QED
    BY <2>2, <2>3, <2>4
<1>3. ASSUME NEW p \in Process, NEW c \in Command, NEW addr \in Addr \cup {Nothing},
             Load(p, c, addr)
      PROVE  Goal
  <2>1. Quiet(p)
    BY <1>1, <1>3, LoadQuiet
  <2>2. Stored' = Stored
    BY <2>1 DEF Quiet, Stored
  <2>3. CASE together' = "nothing"
    BY <1>1, <1>3, <2>1, <2>2, <2>3, LoadKept
  <2>4. CASE together' # "nothing"
    BY <2>2, <2>4 DEF Kept
  <2> QED
    BY <2>3, <2>4
<1>4. ASSUME NEW p \in Process, OpenTmp(p) \/ WriteTmp(p) PROVE Goal
  <2>1. together' = together /\ ~At(p, "off")
    BY <1>4 DEF OpenTmp, WriteTmp, At, past
  <2>2. CASE together = "nothing"
    <3>1. Alone(p)
      BY <1>1, <2>1, <2>2, Lone
    <3>2. Stored' = Stored
      BY <1>1, <1>4, <3>1, OpenTmpKnown, SoundWrite DEF SoundInv, Alone
    <3> QED
      BY <1>1, <1>4, <3>1, <3>2, WritingAlone
  <2>3. CASE together # "nothing"
    BY <2>1, <2>3 DEF Kept
  <2> QED
    BY <2>2, <2>3
<1>5. ASSUME NEW p \in Process, Rename(p) PROVE Goal
  <2>1. together' = together /\ ~At(p, "off")
    BY <1>5 DEF Rename, At, past
  <2>2. CASE together = "nothing"
    BY <1>1, <1>5, <2>1, <2>2, Lone, RenameAlone
  <2>3. CASE together # "nothing"
    BY <2>1, <2>3 DEF Kept
  <2> QED
    BY <2>2, <2>3
<1>6. ASSUME UNCHANGED <<path, tmp, content, proc, tokens, keys, user, past>> PROVE Goal
  <2>1. Stored' = Stored /\ proc' = proc /\ tokens' = tokens /\ keys' = keys
    BY <1>6 DEF Stored
  <2>2. /\ shown' = shown /\ unseen' = unseen /\ want' = want /\ together' = together
        /\ crossed' = crossed
    BY <1>6 DEF user, past
  <2>3. \A p \in Process : Rest(proc[p])' = Rest(proc[p]) /\ Saves(proc[p])' = Saves(proc[p])
    BY <2>1, <2>2 DEF Rest, Saves, Wanted, Own, Settings, Below
  <2>4. Kept'
    BY <1>1, <2>1, <2>2, <2>3 DEF Kept, Settings, Below, At
  <2> QED
    BY <2>1, <2>4
<1>7. ASSUME NEW g \in 1..MaxTokens, Age(g) PROVE Goal
  BY <1>6, <1>7 DEF Age
<1>8. CASE UNCHANGED vars
  BY <1>6, <1>8 DEF vars, world
<1>9. ASSUME NEW addr \in Addr, Edit(addr) PROVE Goal
  BY <1>1, <1>9, EditKept
<1>10. Goal
  BY <1>2, <1>3, <1>4, <1>5, <1>7, <1>8, <1>9, Steps
<1> QED
  BY <1>10

LEMMA Invariance == Spec => []IInv
<1>1. Init => IInv
  BY SoundInit, KeptInit DEF IInv
<1>2. IInv /\ [Next]_vars => IInv'
  BY SoundStep, KeptStep DEF IInv
<1> QED
  BY <1>1, <1>2, PTL DEF Spec

\* As long as one process runs after the other, no command, refresh or restart undoes a
\* setting that was made: every save writes back what its Load found, with its own change.
THEOREM NoSettingUndone == Spec => []SettingsSurvive
<1>1. IInv => SettingsSurvive
  <2> SUFFICES ASSUME IInv, together = "nothing"
               PROVE  /\ Stored.authDisabled = want.authDisabled
                      /\ Stored.model = want.model
                      /\ Stored.listenAddr = want.listenAddr
    BY DEF SettingsSurvive
  <2>1. Settings(Stored) = want
    BY DEF IInv, Kept
  <2> QED
    BY <2>1 DEF Settings
<1> QED
  BY <1>1, Invariance, PTL

\* The service that runs alone accepts the key that was printed last, unless a process
\* died between saving a key and printing it.
THEOREM ServesTheShownKey == Spec => []ShownKeyWorks
<1>1. IInv => ShownKeyWorks
  <2> SUFFICES ASSUME IInv, NEW p \in Process, At(p, "serving"), together = "nothing"
               PROVE  proc[p].svc.key = shown \/ unseen
    BY Zenon DEF ShownKeyWorks
  <2>1. ~At(p, "off") /\ ~At(p, "show") /\ proc[p].pc = "serving"
    BY DEF At
  <2>2. Alone(p)
    BY <2>1, Lone DEF IInv
  <2>3. proc[p].svc.key = Stored.key
    BY <2>1, <2>2 DEF Alone, Rest
  <2>4. unseen \/ Stored.key = shown
    BY <2>1, <2>2, Zenon DEF Alone
  <2> QED
    BY <2>3, <2>4, Zenon
<1> QED
  BY <1>1, Invariance, PTL

\* No save of a process that runs alone puts an older key back, and none but the fallback
\* command's an older token pair.
THEOREM NoOldKeyOrToken == Spec => NothingOldComesBack
<1> DEFINE Newer == together = "nothing" =>
                       /\ Stored'.key >= Stored.key
                       /\ \/ Stored'.tokens >= Stored.tokens
                          \/ \E p \in Process : proc[p].cmd = "fallback"
<1>1. IInv /\ [Next]_vars => [Newer]_vars
  <2> SUFFICES ASSUME IInv, [Next]_vars, together = "nothing"
               PROVE  /\ Stored'.key >= Stored.key
                      /\ \/ Stored'.tokens >= Stored.tokens
                         \/ \E p \in Process : proc[p].cmd = "fallback"
    OBVIOUS
  <2>1. \/ Stored' = Stored
        \/ \E addr \in Addr : Edit(addr)
        \/ \E p \in Process : Alone(p) /\ Rename(p)
    BY KeptStep
  <2>2. CASE Stored' = Stored \/ \E addr \in Addr : Edit(addr)
    <3>1. ~crossed
      BY DEF IInv, Kept
    <3>2. Stored \in Config
      BY <3>1, Constants DEF IInv, SoundInv, Known, TypeOK, Sound, Readable, Stored
    <3>3. Stored.key \in Nat /\ Stored.tokens \in Nat
      BY <3>2, Numbers DEF IInv, SoundInv, Known
    <3>4. Stored'.key = Stored.key /\ Stored'.tokens = Stored.tokens
      BY <2>2, <3>2, EditKnown DEF IInv, SoundInv, Config
    <3> QED
      BY <3>3, <3>4
  <2>3. CASE \E p \in Process : Alone(p) /\ Rename(p)
    BY <2>3, RenameAlone DEF IInv
  <2> QED
    BY <2>1, <2>2, <2>3
<1> QED
  BY <1>1, Invariance, PTL DEF Spec, NothingOldComesBack

=============================================================================
