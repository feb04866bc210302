---------------------------- MODULE TokenService ----------------------------
(***************************************************************************)
(* server.Service (internal/server/server.go): the tokens of a running      *)
(* router.  Every request and the refresh loop call EnsureFreshToken, which *)
(* holds the lock while it asks the CoStrict server for a new pair and      *)
(* while it writes the configuration file.  The process may stop at any     *)
(* step and be started again from the file.                                 *)
(*                                                                         *)
(* A token pair (access and refresh token) is the number of its issue; 0 is *)
(* "not logged in".  The CoStrict server is not part of the repository: it  *)
(* may or may not revoke a refresh token that was used.                     *)
(***************************************************************************)
EXTENDS Integers

CONSTANTS
    Request,   \* goroutines that serve requests
    Main,      \* the goroutine of Run, before it serves
    Loop,      \* the goroutine of StartRefreshLoop
    NoOne,
    MaxPairs   \* bound on the pairs issued

Caller == Request \cup {Main, Loop}

ASSUME ConstantsAssumption ==
    /\ Main # Loop /\ Main \notin Request /\ Loop \notin Request
    /\ NoOne \notin Caller
    /\ MaxPairs \in Nat \ {0}

VARIABLES
    phase,   \* of the process
    pc,      \* of every caller
    mu,      \* who holds Service.mu for writing
    mem,     \* the pair in Service.cfg
    disk,    \* the pair in the configuration file
    asked,   \* the pair whose refresh token a caller presents
    got,     \* the pair in the reply to it
    issued,  \* number of pairs issued so far
    age,     \* of every pair, judged by the expiry of its access token
    valid,   \* pairs whose refresh token the server accepts
    retired, \* pairs that were exchanged for one that reached the service
    mishap   \* since the last login a reply was lost, a save failed or the
             \* process stopped between the two

server == <<issued, age, valid>>
vars == <<phase, pc, mu, mem, disk, asked, got, server, retired, mishap>>

Pair == 0..MaxPairs

\* More than 24 hours left, less, none.  A token without a readable expiry counts as
\* expired from the start.
Age == {"fresh", "near", "expired"}

Place == {"idle", "lock", "check", "refreshing", "answered", "save", "failed",
          "ready", "refused"}

Exchanging == {"answered", "save"}

Init ==
    /\ phase = "down"
    /\ pc = [c \in Caller |-> "idle"]
    /\ mu = NoOne
    /\ mem = 0
    /\ disk = 0
    /\ asked = [c \in Caller |-> 0]
    /\ got = [c \in Caller |-> 0]
    /\ issued = 0
    /\ age = [p \in Pair |-> "expired"]
    /\ valid = {}
    /\ retired = {}
    /\ mishap = FALSE

----------------------------------------------------------------------------
(* EnsureFreshToken *)

Goto(c, place) == pc' = [pc EXCEPT ![c] = place]

Call(c) ==
    /\ phase = IF c = Main THEN "booting" ELSE "serving"
    /\ pc[c] = "idle"
    /\ Goto(c, "lock")
    /\ UNCHANGED <<phase, mu, mem, disk, asked, got, server, retired, mishap>>

\* Mutant of Lock: the read lock that Config takes, instead of the lock.
LockShared(c) ==
    /\ pc[c] = "lock"
    /\ mu' = c
    /\ Goto(c, "check")
    /\ UNCHANGED <<phase, mem, disk, asked, got, server, retired, mishap>>

Lock(c) ==
    /\ pc[c] = "lock"
    /\ mu = NoOne
    /\ mu' = c
    /\ Goto(c, "check")
    /\ UNCHANGED <<phase, mem, disk, asked, got, server, retired, mishap>>

\* The deferred unlock; the locals of the call are gone.
Return(c, place) ==
    /\ Goto(c, place)
    /\ mu' = NoOne
    /\ asked' = [asked EXCEPT ![c] = 0]
    /\ got' = [got EXCEPT ![c] = 0]

\* Mutant of Check: a refresh only when the token has expired, not a day before.
CheckExpired(c) ==
    /\ pc[c] = "check"
    /\ \/ mem = 0 /\ Return(c, "refused")
       \/ mem # 0 /\ age[mem] # "expired" /\ Return(c, "ready")
       \/ /\ mem # 0 /\ age[mem] = "expired"
          /\ asked' = [asked EXCEPT ![c] = mem]
          /\ Goto(c, "refreshing")
          /\ UNCHANGED <<mu, got>>
    /\ UNCHANGED <<phase, mem, disk, server, retired, mishap>>

Check(c) ==
    /\ pc[c] = "check"
    /\ \/ mem = 0 /\ Return(c, "refused")
       \/ mem # 0 /\ age[mem] = "fresh" /\ Return(c, "ready")
       \/ /\ mem # 0 /\ age[mem] # "fresh"
          /\ asked' = [asked EXCEPT ![c] = mem]
          /\ Goto(c, "refreshing")
          /\ UNCHANGED <<mu, got>>
    /\ UNCHANGED <<phase, mem, disk, server, retired, mishap>>

\* ApplyTokens: the new pair is in memory before it is in the file.
Apply(c) ==
    /\ pc[c] = "answered"
    /\ mem' = got[c]
    /\ retired' = retired \cup {asked[c]}
    /\ Goto(c, "save")
    /\ UNCHANGED <<phase, mu, disk, asked, got, server, mishap>>

\* A reply without one of the tokens: the caller gets the error, even while the token it
\* has is good for hours.
ApplyFails(c) ==
    /\ pc[c] \in {"refreshing", "answered"}
    /\ mishap' = (mishap \/ pc[c] = "answered")
    /\ Return(c, "refused")
    /\ UNCHANGED <<phase, mem, disk, server, retired>>

\* Mutants of Save: the file is not written; the file gets the pair loaded before the
\* exchange.
SaveInMemory(c) ==
    /\ pc[c] = "save"
    /\ Return(c, "ready")
    /\ UNCHANGED <<phase, mem, disk, server, retired, mishap>>

SaveStale(c) ==
    /\ pc[c] = "save"
    /\ disk' = asked[c]
    /\ Return(c, "ready")
    /\ UNCHANGED <<phase, mem, server, retired, mishap>>

Save(c) ==
    /\ pc[c] = "save"
    /\ disk' = mem
    /\ Return(c, "ready")
    /\ UNCHANGED <<phase, mem, server, retired, mishap>>

\* Mutant of SaveFails: the return on the error path skips the unlock.
SaveFailsLocked(c) ==
    /\ pc[c] = "save"
    /\ mishap' = TRUE
    /\ Goto(c, "refused")
    /\ UNCHANGED <<phase, mu, mem, disk, asked, got, server, retired>>

\* The caller gets the error; the new pair stays in memory.
SaveFails(c) ==
    /\ pc[c] = "save"
    /\ mishap' = TRUE
    /\ Return(c, "refused")
    /\ UNCHANGED <<phase, mem, disk, server, retired>>

\* The old token is used as long as it has not expired.
RefreshFailed(c) ==
    /\ pc[c] = "failed"
    /\ Return(c, IF age[mem] = "expired" THEN "refused" ELSE "ready")
    /\ UNCHANGED <<phase, mem, disk, server, retired, mishap>>

----------------------------------------------------------------------------
(* The callers: Run serves once its own call succeeded and stops otherwise; a      *)
(* request reads the configuration and goes upstream or answers 401; the loop      *)
(* ignores the result.                                                              *)

\* Mutant of Resume: Run goes on with the result of its call as the state of the process.
ResumeUnmapped(c) ==
    /\ pc[c] \in {"ready", "refused"}
    /\ mu = NoOne
    /\ Goto(c, "idle")
    /\ phase' = IF c = Main THEN pc[c] ELSE phase
    /\ UNCHANGED <<mu, mem, disk, asked, got, server, retired, mishap>>

Resume(c) ==
    /\ pc[c] \in {"ready", "refused"}
    /\ mu = NoOne
    /\ Goto(c, "idle")
    /\ phase' = CASE c = Main /\ pc[c] = "ready" -> "serving"
                  [] c = Main /\ pc[c] = "refused" -> "down"
                  [] c # Main -> phase
    /\ mem' = IF phase' = "down" THEN 0 ELSE mem
    /\ UNCHANGED <<mu, disk, asked, got, server, retired, mishap>>

Start ==
    /\ phase = "down"
    /\ phase' = "booting"
    /\ mem' = disk
    /\ pc' = [pc EXCEPT ![Main] = "lock"]
    /\ UNCHANGED <<mu, disk, asked, got, server, retired, mishap>>

\* A crash, a signal, or the end of the grace period of a shutdown.
Stop ==
    /\ phase # "down"
    /\ phase' = "down"
    /\ pc' = [c \in Caller |-> "idle"]
    /\ mu' = NoOne
    /\ mem' = 0
    /\ asked' = [c \in Caller |-> 0]
    /\ got' = [c \in Caller |-> 0]
    /\ mishap' = (mishap \/ \E c \in Caller : pc[c] \in Exchanging)
    /\ UNCHANGED <<disk, server, retired>>

\* costrict-router login, with the service stopped.
Login ==
    /\ phase = "down"
    /\ issued < MaxPairs
    /\ issued' = issued + 1
    /\ age' = [age EXCEPT ![issued + 1] = "fresh"]
    /\ valid' = valid \cup {issued + 1}
    /\ disk' = issued + 1
    /\ mishap' = FALSE
    /\ UNCHANGED <<phase, pc, mu, mem, asked, got, retired>>

----------------------------------------------------------------------------
(* The CoStrict server and time *)

\* A new pair of any age, in exchange for a refresh token that is still accepted.
Issue(c, revokes, a) ==
    /\ pc[c] = "refreshing"
    /\ asked[c] \in valid
    /\ issued < MaxPairs
    /\ issued' = issued + 1
    /\ age' = [age EXCEPT ![issued + 1] = a]
    /\ valid' = (IF revokes THEN valid \ {asked[c]} ELSE valid) \cup {issued + 1}
    /\ got' = [got EXCEPT ![c] = issued + 1]
    /\ Goto(c, "answered")
    /\ UNCHANGED <<phase, mu, mem, disk, asked, retired, mishap>>

\* An HTTP error, no connection, a timeout or a cancelled request.
Reject(c) ==
    /\ pc[c] = "refreshing"
    /\ Goto(c, "failed")
    /\ UNCHANGED <<phase, mu, mem, disk, asked, got, server, retired, mishap>>

\* The same, after the server has issued a pair.
LoseReply(c) ==
    /\ pc[c] = "answered"
    /\ mishap' = TRUE
    /\ Goto(c, "failed")
    /\ UNCHANGED <<phase, mu, mem, disk, asked, got, server, retired>>

\* Time passes, for the pairs that anybody still holds.
Tick(p) ==
    /\ p \in {mem, disk} \cup {got[c] : c \in Caller}
    /\ age[p] # "expired"
    /\ age' = [age EXCEPT ![p] = IF @ = "fresh" THEN "near" ELSE "expired"]
    /\ UNCHANGED <<phase, pc, mu, mem, disk, asked, got, issued, valid, retired, mishap>>

----------------------------------------------------------------------------

Exchange(c) == \/ \E revokes \in BOOLEAN, a \in Age : Issue(c, revokes, a)
               \/ Reject(c)

Next == \/ \E c \in Caller : \/ Call(c) \/ Lock(c) \/ Check(c) \/ Exchange(c)
                             \/ LoseReply(c) \/ Apply(c) \/ ApplyFails(c)
                             \/ Save(c) \/ SaveFails(c)
                             \/ RefreshFailed(c) \/ Resume(c)
        \/ Start \/ Stop \/ Login
        \/ \E p \in Pair : Tick(p)

Spec == Init /\ [][Next]_vars

\* A goroutine runs, the lock of Go's RWMutex starves nobody, the HTTP client of the
\* refresh gives up after 15 seconds, and the loop's timer fires.  Nothing says that
\* the server answers well, that a save succeeds or that the process goes on living.
Fairness ==
    /\ \A c \in Caller : /\ SF_vars(Lock(c))
                         /\ SF_vars(Resume(c))
                         /\ WF_vars(Check(c))
                         /\ WF_vars(Exchange(c) \/ ApplyFails(c))
                         /\ WF_vars(Apply(c) \/ ApplyFails(c) \/ LoseReply(c))
                         /\ WF_vars(Save(c) \/ SaveFails(c))
                         /\ WF_vars(RefreshFailed(c))
    /\ WF_vars(Call(Loop))

FairSpec == Spec /\ Fairness

----------------------------------------------------------------------------
(* Properties *)

TypeOK ==
    /\ phase \in {"down", "booting", "serving"}
    /\ pc \in [Caller -> Place]
    /\ mu \in Caller \cup {NoOne}
    /\ mem \in Pair /\ disk \in Pair
    /\ asked \in [Caller -> Pair] /\ got \in [Caller -> Pair]
    /\ issued \in Pair
    /\ age \in [Pair -> Age]
    /\ valid \subseteq Pair /\ retired \subseteq Pair
    /\ mishap \in BOOLEAN

\* The lock makes the callers that find the same pair near its expiry refresh it once:
\* a refresh token that was exchanged is not presented again, not even after a
\* restart, unless the new pair was lost on its way into the file.
RefreshTokenUsedOnce ==
    \A c \in Caller : pc[c] = "refreshing" => asked[c] \notin retired \/ mishap

\* When nobody is inside EnsureFreshToken the file has the pair the service works with.
FileKeepsUp == phase # "down" /\ mu = NoOne => disk = mem \/ mishap

\* A restart must be able to refresh: the file holds a refresh token the server has
\* revoked only while an exchange is under way or after one was lost.
LogoutNeedsMishap ==
    disk # 0 /\ disk \notin valid =>
        mishap \/ \E c \in Caller : pc[c] \in Exchanging

\* Nobody waits forever behind a refresh: a request gets the lock and its answer, unless
\* the process stops.
EveryCallerAnswered ==
    \A c \in Request : pc[c] = "lock" ~> pc[c] \in {"ready", "refused", "idle"}

\* Without any request the loop presents a pair that is about to expire, as long as the
\* service runs.
LoopRefreshes ==
    phase = "serving" /\ age[mem] # "fresh" ~>
        phase = "down" \/ age[mem] = "fresh" \/ pc[Loop] = "refreshing"

=============================================================================
