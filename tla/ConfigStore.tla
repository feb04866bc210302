----------------------------- MODULE ConfigStore -----------------------------
(***************************************************************************)
(* The configuration file and the processes that share it: the service,    *)
(* which keeps a copy in memory and saves it whole at every token refresh   *)
(* (internal/server/server.go), and the commands, which load the file,      *)
(* change a field and save it whole (cmd/costrict-router/main.go).  Save    *)
(* (internal/config/config.go) truncates and writes one temporary file,     *)
(* the same for every process, and renames it.  A process may die at any    *)
(* step.                                                                    *)
(*                                                                         *)
(* Token pairs and local API keys are numbered in the order of their        *)
(* creation; 0 is none.  TokenService has the inside of a refresh.          *)
(***************************************************************************)
EXTENDS Integers, FiniteSets

CONSTANTS
    Process,
    Model,     \* names a fallback can have
    Addr,      \* addresses to listen on
    DefaultAddr,
    Nothing,
    Empty,     \* a file that was just truncated
    Mixed,     \* one of two writers: the longer text's tail after the shorter text
    MaxStarts, \* bound on the processes that are started, one after or beside the other
    MaxTokens, \* bound on token pairs
    MaxKeys    \* bound on local API keys

ASSUME ConstantsAssumption ==
    /\ IsFiniteSet(Process)
    /\ Nothing \notin Model /\ Nothing \notin Addr /\ DefaultAddr \in Addr
    /\ MaxStarts \in Nat /\ MaxTokens \in Nat /\ MaxKeys \in Nat

VARIABLES
    path, tmp,           \* the files at the two names
    content,             \* of every file
    proc,                \* every process
    starts,              \* how many there have been
    tokens, aged, keys,  \* token pairs issued, those near expiry; keys generated
    shown,               \* the key that was shown to the user last
    unseen,              \* a later key was saved and its process died before showing it
    want,                \* what the user set: authentication, fallback model, address
    together,            \* what ran at the same time: a command beside a service that
                         \* serves (docs/configuration.md:47 advises to stop it first),
                         \* or any two processes
    crossed              \* two processes were between opening and renaming the file

world == <<tokens, aged, keys>>
user == <<shown, unseen, want>>
past == <<starts, together, crossed>>
vars == <<path, tmp, content, proc, world, user, past>>

Config == [tokens : 0..MaxTokens, key : 0..MaxKeys, authDisabled : BOOLEAN,
           model : Model \cup {Nothing}, listenAddr : Addr]

\* Neither can be parsed.
ASSUME FilesAssumption == Empty \notin Config /\ Mixed \notin Config

Default == [tokens |-> 0, key |-> 0, authDisabled |-> FALSE, model |-> Nothing,
            listenAddr |-> DefaultAddr]

NoFile == 0

File == 1..(Cardinality(Process) + 2)

Command == {"login", "key reset", "auth disable", "auth enable", "fallback --clear",
            "fallback", "query", "start", "serve"}

Place == {"off", "act", "open", "write", "rename", "show", "choose", "boot", "listen",
          "ready", "serving"}

\* cfg is what the command loaded, svc is Service.cfg, buf what a Save writes to the
\* file fd, after the place where the process goes on, since the value of `shown`
\* when it loaded the file; addr is the --addr of a service.
Proc == [pc : Place, cmd : Command \cup {"none"}, cfg : Config, svc : Config,
         buf : Config, fd : File \cup {NoFile}, after : Place, since : 0..MaxKeys,
         addr : Addr \cup {Nothing}]

Gone == [pc |-> "off", cmd |-> "none", cfg |-> Default, svc |-> Default,
         buf |-> Default, fd |-> NoFile, after |-> "off", since |-> 0, addr |-> Nothing]

Init ==
    /\ path = NoFile /\ tmp = NoFile
    /\ content = [f \in File |-> Empty]
    /\ proc = [p \in Process |-> Gone]
    /\ tokens = 0 /\ aged = {} /\ keys = 0
    /\ shown = 0 /\ unseen = FALSE
    /\ want = [authDisabled |-> FALSE, model |-> Nothing, listenAddr |-> DefaultAddr]
    /\ starts = 0 /\ together = "nothing" /\ crossed = FALSE

----------------------------------------------------------------------------
(* Load and Save *)

Stored == IF path = NoFile THEN Default ELSE content[path]

Readable == Stored \notin {Empty, Mixed}

At(p, place) == proc[p].pc = place

Goto(p, place) == proc' = [proc EXCEPT ![p].pc = place]

Exit(p) == proc' = [proc EXCEPT ![p] = Gone]

Serving(p) == proc[p].cmd = "serve" /\ (At(p, "serving") \/ proc[p].after = "serving")

\* A file that cannot be parsed makes the command fail at once.  A service that start has
\* made always has an --addr: its own, or the one of the configuration.
Load(p, c, addr) ==
    /\ At(p, "off")
    /\ Readable
    /\ addr # Nothing => c = "serve"
    /\ starts < MaxStarts
    /\ starts' = starts + 1
    /\ proc' = [proc EXCEPT ![p] = [Gone EXCEPT !.pc = "act", !.cmd = c, !.cfg = Stored,
                                                !.svc = Stored, !.since = shown, !.addr = addr]]
    /\ LET others == {q \in Process : ~At(q, "off")} IN
       together' = CASE others = {} \/ together = "any" -> together
                     [] others # {} /\ together # "any" ->
                           IF c # "serve" /\ \A q \in others : Serving(q) THEN "service"
                           ELSE "any"
    /\ UNCHANGED <<path, tmp, content, world, user, crossed>>

Saving(r, c, place) == [r EXCEPT !.pc = "open", !.buf = c, !.after = place]

\* Mutant of SaveCommand: the change is made to a copy, which is saved and forgotten.
SaveCopy(p, c, place) == proc' = [proc EXCEPT ![p] = Saving(@, c, place)]

\* The command saves its own copy of the configuration, or its service saves its copy.
SaveCommand(p, c, place) ==
    proc' = [proc EXCEPT ![p] = Saving([@ EXCEPT !.cfg = c], c, place)]

SaveService(p, c, place) ==
    proc' = [proc EXCEPT ![p] = Saving([@ EXCEPT !.svc = c], c, place)]

FreeFile == CHOOSE f \in File : f \notin {path, tmp} \cup {proc[p].fd : p \in Process}

\* Mutant of OpenTmp: the configuration file itself is truncated.
OpenInPlace(p) ==
    /\ At(p, "open")
    /\ LET f == IF path = NoFile THEN FreeFile ELSE path IN
        /\ tmp' = f
        /\ content' = [content EXCEPT ![f] = Empty]
        /\ proc' = [proc EXCEPT ![p].pc = "write", ![p].fd = f]
    /\ crossed' = (crossed \/ \E q \in Process : At(q, "write") \/ At(q, "rename"))
    /\ UNCHANGED <<path, world, user, starts, together>>

\* os.WriteFile opens the temporary file, which may be there already, and truncates it.
OpenTmp(p) ==
    /\ At(p, "open")
    /\ LET f == IF tmp = NoFile THEN FreeFile ELSE tmp IN
        /\ tmp' = f
        /\ content' = [content EXCEPT ![f] = Empty]
        /\ proc' = [proc EXCEPT ![p].pc = "write", ![p].fd = f]
    /\ crossed' = (crossed \/ \E q \in Process : At(q, "write") \/ At(q, "rename"))
    /\ UNCHANGED <<path, world, user, starts, together>>

WriteTmp(p) ==
    /\ At(p, "write")
    /\ LET f == proc[p].fd IN
       \E c \in {proc[p].buf} \cup (IF content[f] = Empty THEN {} ELSE {Mixed}) :
            content' = [content EXCEPT ![f] = c]
    /\ proc' = [proc EXCEPT ![p].pc = "rename", ![p].fd = NoFile]
    /\ UNCHANGED <<path, tmp, world, user, past>>

\* The setting the command was run for is now in the file; a refresh of a service puts its
\* --addr there.
Wanted(r) ==
    CASE r.cmd \in {"auth disable", "auth enable"} ->
            [want EXCEPT !.authDisabled = r.cfg.authDisabled]
      [] r.cmd \in {"fallback --clear", "fallback"} /\ r.after = "off" ->
            [want EXCEPT !.model = r.cfg.model]
      [] r.after \in {"ready", "serving"} /\ r.addr # Nothing ->
            [want EXCEPT !.listenAddr = r.addr]
      [] OTHER -> want

\* The file that had the name is gone.
Rename(p) ==
    /\ At(p, "rename")
    /\ tmp # NoFile
    /\ path' = tmp
    /\ tmp' = NoFile
    /\ want' = Wanted(proc[p])
    /\ content' = [f \in File |-> IF f = path THEN Empty ELSE content[f]]
    /\ IF proc[p].after = "off" THEN Exit(p) ELSE Goto(p, proc[p].after)
    /\ UNCHANGED <<world, shown, unseen, past>>

\* Writing fails, or another process has renamed the file.  A refresh of the serving
\* service fails without harm to it; every other process ends with the error.
SaveFails(p) ==
    /\ At(p, "write") \/ (At(p, "rename") /\ tmp = NoFile)
    /\ IF proc[p].after = "serving" THEN proc' = [proc EXCEPT ![p].pc = "serving",
                                                              ![p].fd = NoFile]
                                    ELSE Exit(p)
    /\ UNCHANGED <<path, tmp, content, world, user, past>>

----------------------------------------------------------------------------
(* Commands *)

Running(p, c) == At(p, "act") /\ proc[p].cmd = c

\* Mutant of Login: the tokens are put into a new configuration.
LoginFromDefault(p) ==
    /\ Running(p, "login")
    /\ tokens < MaxTokens
    /\ tokens' = tokens + 1
    /\ SaveCommand(p, [Default EXCEPT !.tokens = tokens + 1], "off")
    /\ UNCHANGED <<path, tmp, content, aged, keys, user, past>>

\* cmdLogin: minutes may pass between its Load and its Save.
Login(p) ==
    /\ Running(p, "login")
    /\ tokens < MaxTokens
    /\ tokens' = tokens + 1
    /\ SaveCommand(p, [proc[p].cfg EXCEPT !.tokens = tokens + 1], "off")
    /\ UNCHANGED <<path, tmp, content, aged, keys, user, past>>

\* resetLocalAPIKey
NewKey(p) ==
    /\ keys < MaxKeys
    /\ keys' = keys + 1
    /\ SaveCommand(p, [proc[p].cfg EXCEPT !.key = keys + 1], "show")
    /\ UNCHANGED <<path, tmp, content, tokens, aged, user, past>>

KeyReset(p) == Running(p, "key reset") /\ NewKey(p)

\* The key is printed once it is saved; a service goes on to start.
Show(p) ==
    /\ At(p, "show")
    /\ shown' = proc[p].cfg.key
    /\ unseen' = FALSE
    /\ IF proc[p].cmd = "serve" THEN Goto(p, "boot") ELSE Exit(p)
    /\ UNCHANGED <<path, tmp, content, world, want, past>>

\* cmdAuthDisable, cmdAuthEnable
SetAuth(p, disabled) ==
    /\ Running(p, IF disabled THEN "auth disable" ELSE "auth enable")
    /\ IF proc[p].cfg.authDisabled = disabled THEN Exit(p)
       ELSE SaveCommand(p, [proc[p].cfg EXCEPT !.authDisabled = disabled], "off")
    /\ UNCHANGED <<path, tmp, content, world, user, past>>

\* Mutant of ClearFallback: the wrong field is cleared.
ClearWrongField(p) ==
    /\ Running(p, "fallback --clear")
    /\ SaveCommand(p, [proc[p].cfg EXCEPT !.authDisabled = Nothing], "off")
    /\ UNCHANGED <<path, tmp, content, world, user, past>>

ClearFallback(p) ==
    /\ Running(p, "fallback --clear")
    /\ SaveCommand(p, [proc[p].cfg EXCEPT !.model = Nothing], "off")
    /\ UNCHANGED <<path, tmp, content, world, user, past>>

\* EnsureFreshToken of the process's service: what it does when the pair is near its
\* expiry, and when there is nothing to do or the refresh fails.
Refresh(p, place) ==
    /\ proc[p].svc.tokens \in aged
    /\ tokens < MaxTokens
    /\ tokens' = tokens + 1
    /\ SaveService(p, [proc[p].svc EXCEPT !.tokens = tokens + 1], place)
    /\ UNCHANGED <<path, tmp, content, aged, keys, user, past>>

NoRefresh(p, place) ==
    /\ proc[p].svc.tokens # 0
    /\ IF place = "off" THEN Exit(p) ELSE Goto(p, place)
    /\ UNCHANGED <<path, tmp, content, world, user, past>>

EnsureFreshToken(p, place) == Refresh(p, place) \/ NoRefresh(p, place)

\* models, test and codex-catalog only read, and refresh the token for it.
Query(p) == Running(p, "query") /\ EnsureFreshToken(p, "off")

Fallback(p) == Running(p, "fallback") /\ EnsureFreshToken(p, "choose")

\* saveFallback: the configuration that is saved is the command's, not the service's.
Choose(p, m) ==
    /\ At(p, "choose")
    /\ SaveCommand(p, [proc[p].cfg EXCEPT !.model = m], "off")
    /\ UNCHANGED <<path, tmp, content, world, user, past>>

\* cmdStart and cmdServe: ensureLocalAPIKey; then start leaves the rest to a process of
\* its own, and serve goes on to Run with the configuration as it is now.
EnsureKey(p) ==
    /\ Running(p, "start") \/ Running(p, "serve")
    /\ ~proc[p].cfg.authDisabled /\ proc[p].cfg.key = 0
    /\ NewKey(p)

HaveKey(p) ==
    /\ Running(p, "start") \/ Running(p, "serve")
    /\ proc[p].cfg.authDisabled \/ proc[p].cfg.key # 0
    /\ IF proc[p].cmd = "serve" THEN Goto(p, "boot") ELSE Exit(p)
    /\ UNCHANGED <<path, tmp, content, world, user, past>>

\* Mutant of Boot: Run is given the configuration as it was loaded.
BootAsLoaded(p) ==
    /\ At(p, "boot")
    /\ Goto(p, "listen")
    /\ UNCHANGED <<path, tmp, content, world, user, past>>

\* Run, whose --addr replaces the listen_addr of the configuration in memory, and with the
\* next refresh in the file.
Boot(p) ==
    /\ At(p, "boot")
    /\ LET addr == IF proc[p].addr = Nothing THEN proc[p].cfg.listenAddr ELSE proc[p].addr IN
       proc' = [proc EXCEPT ![p].svc = [proc[p].cfg EXCEPT !.listenAddr = addr],
                            ![p].pc = "listen"]
    /\ UNCHANGED <<path, tmp, content, world, user, past>>

Listen(p) ==
    \/ At(p, "listen") /\ EnsureFreshToken(p, "ready")
    \/ /\ At(p, "ready")
       /\ Goto(p, "serving")
       /\ UNCHANGED <<path, tmp, content, world, user, past>>

Serve(p) == At(p, "serving") /\ Refresh(p, "serving")

\* A command ends with an error (not logged in, no models, the user keeps the setting,
\* a refresh refused), a process is killed or crashes, a service is stopped.
Die(p) ==
    /\ ~At(p, "off")
    /\ Exit(p)
    /\ unseen' = (unseen \/ At(p, "show"))
    /\ UNCHANGED <<path, tmp, content, world, shown, want, past>>

Age(g) ==
    /\ g \in 1..tokens
    /\ aged' = aged \cup {g}
    /\ UNCHANGED <<path, tmp, content, proc, tokens, keys, user, past>>

\* The user edits listen_addr, with nothing running (docs/configuration.md:47).
Edit(addr) ==
    /\ \A p \in Process : At(p, "off")
    /\ path # NoFile /\ Readable
    /\ content' = [content EXCEPT ![path].listenAddr = addr]
    /\ want' = [want EXCEPT !.listenAddr = addr]
    /\ UNCHANGED <<path, tmp, proc, world, shown, unseen, past>>

Next ==
    \/ \E p \in Process :
        \/ \E c \in Command, addr \in Addr \cup {Nothing} : Load(p, c, addr)
        \/ OpenTmp(p) \/ WriteTmp(p) \/ Rename(p) \/ SaveFails(p)
        \/ Login(p) \/ KeyReset(p) \/ Show(p) \/ ClearFallback(p)
        \/ \E disabled \in BOOLEAN : SetAuth(p, disabled)
        \/ Query(p) \/ Fallback(p) \/ \E m \in Model : Choose(p, m)
        \/ EnsureKey(p) \/ HaveKey(p) \/ Boot(p) \/ Listen(p) \/ Serve(p)
        \/ Die(p)
    \/ \E g \in 1..MaxTokens : Age(g)
    \/ \E addr \in Addr : Edit(addr)

Spec == Init /\ [][Next]_vars

----------------------------------------------------------------------------
(* Properties *)

TypeOK ==
    /\ path \in File \cup {NoFile} /\ tmp \in File \cup {NoFile}
    /\ content \in [File -> Config \cup {Empty, Mixed}]
    /\ proc \in [Process -> Proc]
    /\ tokens \in 0..MaxTokens /\ aged \subseteq 1..MaxTokens /\ keys \in 0..MaxKeys
    /\ shown \in 0..MaxKeys /\ unseen \in BOOLEAN
    /\ want \in [authDisabled : BOOLEAN, model : Model \cup {Nothing}, listenAddr : Addr]
    /\ starts \in 0..MaxStarts /\ together \in {"nothing", "service", "any"} /\ crossed \in BOOLEAN

\* Save writes a temporary file and renames it so that an interruption does not damage
\* the configuration: whoever dies at whatever step, the file can be loaded, unless two
\* processes were saving at the same moment.
DamageNeedsCrossedSaves == ~Readable => crossed

\* A configuration that was loaded, changed and saved by one process after the other
\* keeps the settings that were made: a refresh, a login or a new key undoes none.  Only
\* listen_addr is not safe from a service that was started with another --addr: that, and
\* not what the user wrote into the file, is there after the service's next refresh.
SettingsSurvive ==
    together = "nothing" =>
        /\ Stored.authDisabled = want.authDisabled /\ Stored.model = want.model
        /\ Stored.listenAddr = want.listenAddr

\* A service that asks for a key accepts the one the user was shown last: the only
\* exception is a process that died between saving a key and printing it.
ShownKeyWorks ==
    \A p \in Process :
        At(p, "serving") /\ ~proc[p].svc.authDisabled /\ together = "nothing" =>
            proc[p].svc.key = shown \/ unseen

\* A key that was replaced never works again, and, except by the fallback command, a
\* token pair that was exchanged is never put back.
NothingOldComesBack ==
    [][together = "nothing" => /\ Stored'.key >= Stored.key
                    /\ \/ Stored'.tokens >= Stored.tokens
                       \/ \E p \in Process : proc[p].cmd = "fallback"]_vars

\* The token in the file is the newest: EnsureFreshToken writes the new pair back to the
\* configuration file, and nothing puts an older one there.
TokensNotRolledBack ==
    [][together = "nothing" => Stored'.tokens >= Stored.tokens]_vars

\* docs/advanced-usage.md says that a new key replaces the old one at once and that a
\* running service loads it when it is restarted: no service serves with a key older than
\* the one that had been shown when it was started, whatever ran beside the command that
\* made the key, as long as it was not another command.
RestartLoadsNewKey ==
    \A p \in Process :
        At(p, "serving") /\ ~proc[p].svc.authDisabled /\ ~crossed /\ together # "any" =>
            proc[p].svc.key >= proc[p].since

=============================================================================
