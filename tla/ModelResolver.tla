--------------------------- MODULE ModelResolver ---------------------------
(***************************************************************************)
(* Model names (internal/proxy/models.go).  Clients ask for models the      *)
(* upstream does not have, or for a model under the alias Claude Code       *)
(* needs.  Requests keep the list of available models fresh: one of them    *)
(* fetches it, under fetchMu, the others wait; a list is good for TTL, a    *)
(* failed attempt is repeated after Retry.  Then each request restores an   *)
(* alias and replaces an unknown name, reading the list twice.              *)
(***************************************************************************)
EXTENDS Integers, Sequences, Functions

CONSTANTS
    Request,   \* goroutines
    Model,     \* names without the prefix "claude-"
    Lists,     \* lists the upstream may answer with
    TTL, Retry,
    MaxTime,   \* bound on the clock
    NoName, NoOne

\* A name, with the prefix or without.
Name == [alias : BOOLEAN, model : Model]

ASSUME ConstantsAssumption ==
    /\ Lists \subseteq Seq(Name)
    /\ Retry \in Nat \ {0} /\ TTL \in Nat /\ Retry <= TTL
    /\ MaxTime \in Nat
    /\ NoName \notin Name /\ NoOne \notin Request

VARIABLES
    known, fallback, fetchedAt, lastAttempt,  \* the cache
    fetchMu,    \* who refreshes it
    pc,
    requested,  \* by the client of each request
    name,       \* what the request makes of it
    preferred,  \* fallback_model of the configuration
    now,
    started,    \* when the last fetch was started
    kept,       \* it failed, and an older list is still there
    aliased,    \* the model behind the client's alias was there when it was stripped
    list        \* the models known when a request resolved its name

cache == <<known, fallback, fetchedAt, lastAttempt>>
ghost == <<started, kept, aliased, list>>
vars == <<cache, fetchMu, pc, requested, name, preferred, now, ghost>>

Init ==
    /\ known = {} /\ fallback = NoName
    /\ fetchedAt = -TTL /\ lastAttempt = -Retry
    /\ fetchMu = NoOne
    /\ pc = [r \in Request |-> "idle"]
    /\ requested = [r \in Request |-> NoName]
    /\ name = [r \in Request |-> NoName]
    /\ preferred \in Name \cup {NoName}
    /\ now = 0
    /\ started = -Retry /\ kept = FALSE
    /\ aliased = [r \in Request |-> FALSE] /\ list = [r \in Request |-> {}]

----------------------------------------------------------------------------

ShouldFetch == IF known = {} THEN now - lastAttempt >= Retry ELSE now - fetchedAt >= TTL

Behind(n) == [n EXCEPT !.alias = FALSE]

StripClaudeAlias(n) == IF n.alias /\ Behind(n) \in known THEN Behind(n) ELSE n

\* Mutants of Resolve: the configured fallback is not looked up in the list; it is
\* preferred to a model that is there.
ResolveUnchecked(n) ==
    CASE known = {} \/ n \in known -> n
      [] known # {} /\ n \notin known ->
            IF preferred # NoName THEN preferred ELSE IF fallback = NoName THEN n ELSE fallback

ResolvePreferred(n) ==
    CASE known = {} -> n
      [] known # {} /\ preferred \in known -> preferred
      [] known # {} /\ preferred \notin known -> IF n \in known THEN n ELSE fallback

\* The configured fallback only if it is available, else the first available model;
\* without a list the name is passed on.
Resolve(n) ==
    CASE known = {} \/ n \in known -> n
      [] known # {} /\ n \notin known /\ preferred \in known -> preferred
      [] known # {} /\ n \notin known /\ preferred \notin known ->
            IF fallback = NoName THEN n ELSE fallback

----------------------------------------------------------------------------
(* A request: ensureModels, then applyModelSubstitution *)

Goto(r, place) == pc' = [pc EXCEPT ![r] = place]

Arrive(r, n) ==
    /\ pc[r] \in {"idle", "forwarded"}
    /\ requested' = [requested EXCEPT ![r] = n]
    /\ name' = [name EXCEPT ![r] = n]
    /\ aliased' = [aliased EXCEPT ![r] = FALSE]
    /\ list' = [list EXCEPT ![r] = {}]
    /\ Goto(r, "check")
    /\ UNCHANGED <<cache, fetchMu, preferred, now, started, kept>>

FirstCheck(r) ==
    /\ pc[r] = "check"
    /\ Goto(r, IF ShouldFetch THEN "lock" ELSE "strip")
    /\ UNCHANGED <<cache, fetchMu, requested, name, preferred, now, ghost>>

Lock(r) ==
    /\ pc[r] = "lock"
    /\ fetchMu = NoOne
    /\ fetchMu' = r
    /\ Goto(r, "recheck")
    /\ UNCHANGED <<cache, requested, name, preferred, now, ghost>>

\* Mutants of StartFetch: no second check under the lock; the time of the next attempt is
\* noted instead of this one's.
StartFetchUnchecked(r) ==
    /\ pc[r] = "recheck"
    /\ lastAttempt' = now
    /\ started' = now
    /\ Goto(r, "fetch")
    /\ UNCHANGED <<known, fallback, fetchedAt, fetchMu, requested, name, preferred, now,
                   kept, aliased, list>>

StartFetchAhead(r) ==
    /\ pc[r] = "recheck"
    /\ ShouldFetch
    /\ lastAttempt' = now + Retry
    /\ started' = now
    /\ Goto(r, "fetch")
    /\ UNCHANGED <<known, fallback, fetchedAt, fetchMu, requested, name, preferred, now,
                   kept, aliased, list>>

\* Another request may have refreshed the list in between.
StartFetch(r) ==
    /\ pc[r] = "recheck"
    /\ ShouldFetch
    /\ lastAttempt' = now
    /\ started' = now
    /\ Goto(r, "fetch")
    /\ UNCHANGED <<known, fallback, fetchedAt, fetchMu, requested, name, preferred, now,
                   kept, aliased, list>>

Unlock(r) == fetchMu' = NoOne /\ Goto(r, "strip")

SkipFetch(r) ==
    /\ pc[r] = "recheck"
    /\ ~ShouldFetch
    /\ Unlock(r)
    /\ UNCHANGED <<cache, requested, name, preferred, now, ghost>>

\* update: an empty list replaces the models, but leaves the fallback.
Update(r, ids) ==
    /\ pc[r] = "fetch"
    /\ known' = Range(ids)
    /\ fallback' = IF ids = <<>> THEN fallback ELSE Head(ids)
    /\ fetchedAt' = now
    /\ lastAttempt' = now
    /\ kept' = FALSE
    /\ Unlock(r)
    /\ UNCHANGED <<requested, name, preferred, now, started, aliased, list>>

\* A mutant of FetchFails: a failure is followed by another attempt.
FetchFailsAgain(r) ==
    /\ pc[r] = "fetch"
    /\ kept' = (known # {})
    /\ fetchMu' = NoOne
    /\ Goto(r, "check")
    /\ UNCHANGED <<cache, requested, name, preferred, now, started, aliased, list>>

\* An error, or no answer within 5 seconds.
FetchFails(r) ==
    /\ pc[r] = "fetch"
    /\ kept' = (known # {})
    /\ Unlock(r)
    /\ UNCHANGED <<cache, requested, name, preferred, now, started, aliased, list>>

Strip(r) ==
    /\ pc[r] = "strip"
    /\ name' = [name EXCEPT ![r] = StripClaudeAlias(@)]
    /\ aliased' = [aliased EXCEPT ![r] = name[r].alias /\ Behind(name[r]) \in known]
    /\ Goto(r, "resolve")
    /\ UNCHANGED <<cache, fetchMu, requested, preferred, now, started, kept, list>>

Forward(r) ==
    /\ pc[r] = "resolve"
    /\ name' = [name EXCEPT ![r] = Resolve(@)]
    /\ list' = [list EXCEPT ![r] = known]
    /\ Goto(r, "forwarded")
    /\ UNCHANGED <<cache, fetchMu, requested, preferred, now, started, kept, aliased>>

Tick ==
    /\ now < MaxTime
    /\ now' = now + 1
    /\ UNCHANGED <<cache, fetchMu, pc, requested, name, preferred, ghost>>

EndFetch(r) == FetchFails(r) \/ \E ids \in Lists : Update(r, ids)

Next == \/ \E r \in Request : \/ \E n \in Name : Arrive(r, n)
                              \/ FirstCheck(r) \/ Lock(r) \/ StartFetch(r) \/ SkipFetch(r)
                              \/ EndFetch(r) \/ Strip(r) \/ Forward(r)
        \/ Tick

Spec == Init /\ [][Next]_vars

----------------------------------------------------------------------------
(* Properties *)

Place == {"idle", "check", "lock", "recheck", "fetch", "strip", "resolve", "forwarded"}

Time == (-TTL)..MaxTime

TypeOK ==
    /\ known \subseteq Name
    /\ fallback \in Name \cup {NoName}
    /\ fetchedAt \in Time /\ lastAttempt \in Time /\ started \in Time
    /\ fetchMu \in Request \cup {NoOne}
    /\ pc \in [Request -> Place]
    /\ requested \in [Request -> Name \cup {NoName}]
    /\ name \in [Request -> Name \cup {NoName}]
    /\ preferred \in Name \cup {NoName}
    /\ now \in 0..MaxTime
    /\ kept \in BOOLEAN
    /\ aliased \in [Request -> BOOLEAN] /\ list \in [Request -> SUBSET Name]

\* A request never goes upstream with a model that is not there, once there is a list:
\* not when the list changes between two reads of it, and not with a configured or
\* remembered fallback that has gone.
ForwardsAvailable ==
    \A r \in Request : pc[r] = "forwarded" /\ list[r] # {} => name[r] \in list[r]

\* An available model is replaced for one reason only: its name has the prefix "claude-" and
\* the model behind the prefix was available, too, when the alias was stripped.  Whoever asks
\* for an alias gets that model, unless it has gone again from the list by the time the name
\* is resolved; then the request gets what every unknown name gets, even if the name with
\* the prefix is in the list.
ChoiceRespected ==
    \A r \in Request :
        pc[r] = "forwarded" =>
            /\ requested[r] \in list[r] /\ ~aliased[r] => name[r] = requested[r]
            /\ aliased[r] /\ Behind(requested[r]) \in list[r] => name[r] = Behind(requested[r])

\* The upstream is not asked for the list again within Retry of the last time, however
\* many requests find it missing or too old at once; only while an old list is kept
\* after a failed refresh nothing holds them back.
FetchesAreSpaced ==
    [][\A r \in Request :
            pc[r] # "fetch" /\ pc'[r] = "fetch" => now - started >= Retry \/ kept]_vars

=============================================================================
