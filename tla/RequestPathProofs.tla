-------------------------- MODULE RequestPathProofs --------------------------
(***************************************************************************)
(* The resolver: what ModelResolver promises holds for every set of        *)
(* requests, every set of lists the upstream may answer with and every     *)
(* choice of the two periods.  A name is safe to forward because the       *)
(* remembered fallback is always in the list (FallbackKnown): the two      *)
(* change together.  Fetches are spaced because only the holder of fetchMu *)
(* fetches (OneFetcher), and because a list that was loaded is as old as   *)
(* the last attempt, unless that attempt is still under way or has failed  *)
(* (AttemptsDated).                                                        *)
(*                                                                         *)
(* The request path uses the resolver as ModelResolver specifies it        *)
(* (PathUsesResolver), so that what is proved of it holds in the path; and *)
(* what is sent fits its model and does not depend on the entry, for any   *)
(* requests, lists of models, families and overrides.  The invariant       *)
(* InFlight says what becomes of a body from stage to stage: until the     *)
(* model is known it is the converted body and nothing else, and what is   *)
(* sent is that body adapted to the model that is named in it.  The rest   *)
(* is about the operators: what Adapted returns.                           *)
(***************************************************************************)
EXTENDS RequestPath, TLAPS

(* The resolver *)

OneFetcher == \A r \in Request : pc[r] \in {"recheck", "fetch"} => fetchMu = r

FallbackKnown == known # {} => fallback \in known

\* Until it is resolved the name of a request is the client's, or, once the alias was
\* stripped, the model behind it.
NameKept ==
    \A r \in Request :
        /\ pc[r] # "idle" => requested[r] \in Name /\ name[r] \in Name
        /\ pc[r] \in {"check", "lock", "recheck", "fetch", "strip"} => ~aliased[r]
        /\ pc[r] \notin {"idle", "forwarded"} =>
              name[r] = IF aliased[r] THEN Behind(requested[r]) ELSE requested[r]

AttemptsDated ==
    /\ started <= lastAttempt /\ started <= now
    /\ known # {} => started <= fetchedAt \/ kept \/ \E r \in Request : pc[r] = "fetch"

IInv == /\ TypeOK
        /\ OneFetcher
        /\ FallbackKnown
        /\ NameKept
        /\ AttemptsDated
        /\ ForwardsAvailable
        /\ ChoiceRespected

----------------------------------------------------------------------------
(* What the operators return *)

\* An answer of the upstream makes a set of names, and its first entry is one of them.
LEMMA AnswerNames ==
    ASSUME NEW ids \in Lists
    PROVE  /\ Range(ids) \subseteq Name
           /\ ids # <<>> => Head(ids) \in Range(ids)
           /\ ids = <<>> => Range(ids) = {}
BY ConstantsAssumption DEF Range

\* Stripping the alias returns a name: the model behind it, if that is known.
LEMMA StripName ==
    ASSUME NEW n \in Name
    PROVE  /\ StripClaudeAlias(n) \in Name
           /\ StripClaudeAlias(n) = IF n.alias /\ Behind(n) \in known THEN Behind(n) ELSE n
BY DEF StripClaudeAlias, Behind, Name

\* With a list, what is resolved is in it, and what is in it is not replaced.
LEMMA ResolveKnown ==
    ASSUME NEW n \in Name, TypeOK, FallbackKnown
    PROVE  /\ Resolve(n) \in Name
           /\ known # {} => Resolve(n) \in known
           /\ n \in known => Resolve(n) = n
<1>1. known \subseteq Name /\ NoName \notin Name
  BY ConstantsAssumption DEF TypeOK
<1>2. CASE known = {} \/ n \in known
  BY <1>2 DEF Resolve
<1>3. CASE known # {} /\ n \notin known /\ preferred \in known
  <2>1. Resolve(n) = preferred
    BY <1>3 DEF Resolve
  <2> QED
    BY <1>1, <1>3, <2>1
<1>4. CASE known # {} /\ n \notin known /\ preferred \notin known
  <2>1. Resolve(n) = fallback
    BY <1>1, <1>4 DEF Resolve, FallbackKnown
  <2> QED
    BY <1>1, <1>4, <2>1 DEF FallbackKnown
<1> QED
  BY <1>2, <1>3, <1>4

----------------------------------------------------------------------------
(* Types *)

LEMMA TypeInit == Init => TypeOK
<1> SUFFICES ASSUME Init PROVE TypeOK
  OBVIOUS
<1>1. -TTL \in Time /\ -Retry \in Time /\ now \in 0..MaxTime
  BY ConstantsAssumption DEF Init, Time
<1>2. known \subseteq Name /\ fallback \in Name \cup {NoName} /\ preferred \in Name \cup {NoName}
  BY DEF Init
<1> QED
  BY <1>1, <1>2 DEF Init, TypeOK, Place

LEMMA TypeStep == IInv /\ [Next]_vars => TypeOK'
<1> SUFFICES ASSUME IInv, [Next]_vars PROVE TypeOK'
  OBVIOUS
<1> USE DEF IInv, TypeOK, Place, cache, ghost
<1>0. now \in Time
  BY ConstantsAssumption DEF Time
<1>1. ASSUME NEW r \in Request, NEW n \in Name, Arrive(r, n) PROVE TypeOK'
  BY <1>1 DEF Arrive, Goto
<1>2. ASSUME NEW r \in Request, FirstCheck(r) \/ Lock(r) \/ SkipFetch(r) PROVE TypeOK'
  BY <1>2 DEF FirstCheck, Lock, SkipFetch, Unlock, Goto
<1>3. ASSUME NEW r \in Request, StartFetch(r) PROVE TypeOK'
  BY <1>0, <1>3 DEF StartFetch, Goto
<1>4. ASSUME NEW r \in Request, NEW ids \in Lists, Update(r, ids) PROVE TypeOK'
  BY <1>0, <1>4, AnswerNames DEF Update, Unlock, Goto
<1>5. ASSUME NEW r \in Request, FetchFails(r) PROVE TypeOK'
  BY <1>5 DEF FetchFails, Unlock, Goto
<1>6. ASSUME NEW r \in Request, Strip(r) PROVE TypeOK'
  BY <1>6, StripName DEF Strip, Goto, NameKept
<1>7. ASSUME NEW r \in Request, Forward(r) PROVE TypeOK'
  BY <1>7, ResolveKnown DEF Forward, Goto, NameKept
<1>8. CASE Tick
  BY <1>8, ConstantsAssumption DEF Tick, Time
<1>9. CASE UNCHANGED vars
  BY <1>9 DEF vars
<1> QED
  BY <1>1, <1>2, <1>3, <1>4, <1>5, <1>6, <1>7, <1>8, <1>9 DEF Next, EndFetch

----------------------------------------------------------------------------
(* The inductive invariant *)

LEMMA InvInit == Init => IInv
BY TypeInit, ConstantsAssumption
   DEF Init, IInv, OneFetcher, FallbackKnown, NameKept, AttemptsDated, ForwardsAvailable,
       ChoiceRespected

LEMMA InvStep == IInv /\ [Next]_vars => IInv'
<1> SUFFICES ASSUME IInv, [Next]_vars PROVE IInv'
  OBVIOUS
<1>0. TypeOK'
  BY TypeStep
<1> USE <1>0, ConstantsAssumption DEF IInv, TypeOK, cache, ghost
<1>1. ASSUME NEW r \in Request, NEW n \in Name, Arrive(r, n) PROVE IInv'
  <2>1. OneFetcher' /\ FallbackKnown'
    BY <1>1 DEF Arrive, Goto, OneFetcher, FallbackKnown
  <2>2. NameKept'
    BY <1>1 DEF Arrive, Goto, NameKept
  <2>3. AttemptsDated'
    BY <1>1 DEF Arrive, Goto, OneFetcher, AttemptsDated, Time
  <2>4. ForwardsAvailable' /\ ChoiceRespected'
    BY <1>1 DEF Arrive, Goto, NameKept, ForwardsAvailable, ChoiceRespected
  <2> QED
    BY <2>1, <2>2, <2>3, <2>4
<1>2. ASSUME NEW r \in Request, FirstCheck(r) PROVE IInv'
  <2>1. OneFetcher' /\ FallbackKnown'
    BY <1>2 DEF FirstCheck, Goto, OneFetcher, FallbackKnown
  <2>2. NameKept'
    BY <1>2 DEF FirstCheck, Goto, NameKept
  <2>3. AttemptsDated'
    BY <1>2 DEF FirstCheck, Goto, OneFetcher, AttemptsDated, Time
  <2>4. ForwardsAvailable' /\ ChoiceRespected'
    BY <1>2 DEF FirstCheck, Goto, NameKept, ForwardsAvailable, ChoiceRespected
  <2> QED
    BY <2>1, <2>2, <2>3, <2>4
<1>3. ASSUME NEW r \in Request, Lock(r) PROVE IInv'
  <2>1. OneFetcher' /\ FallbackKnown'
    BY <1>3 DEF Lock, Goto, OneFetcher, FallbackKnown
  <2>2. NameKept'
    BY <1>3 DEF Lock, Goto, NameKept
  <2>3. AttemptsDated'
    BY <1>3 DEF Lock, Goto, OneFetcher, AttemptsDated, Time
  <2>4. ForwardsAvailable' /\ ChoiceRespected'
    BY <1>3 DEF Lock, Goto, NameKept, ForwardsAvailable, ChoiceRespected
  <2> QED
    BY <2>1, <2>2, <2>3, <2>4
<1>4. ASSUME NEW r \in Request, StartFetch(r) PROVE IInv'
  <2>1. OneFetcher' /\ FallbackKnown'
    BY <1>4 DEF StartFetch, Goto, OneFetcher, FallbackKnown
  <2>2. NameKept'
    BY <1>4 DEF StartFetch, Goto, NameKept
  <2>3. AttemptsDated'
    BY <1>4 DEF StartFetch, Goto, OneFetcher, AttemptsDated, Time
  <2>4. ForwardsAvailable' /\ ChoiceRespected'
    BY <1>4 DEF StartFetch, Goto, NameKept, ForwardsAvailable, ChoiceRespected
  <2> QED
    BY <2>1, <2>2, <2>3, <2>4
<1>5. ASSUME NEW r \in Request, SkipFetch(r) PROVE IInv'
  <2>1. OneFetcher' /\ FallbackKnown'
    BY <1>5 DEF SkipFetch, Unlock, Goto, OneFetcher, FallbackKnown
  <2>2. NameKept'
    BY <1>5 DEF SkipFetch, Unlock, Goto, NameKept
  <2>3. AttemptsDated'
    BY <1>5 DEF SkipFetch, Unlock, Goto, OneFetcher, AttemptsDated, Time
  <2>4. ForwardsAvailable' /\ ChoiceRespected'
    BY <1>5 DEF SkipFetch, Unlock, Goto, NameKept, ForwardsAvailable, ChoiceRespected
  <2> QED
    BY <2>1, <2>2, <2>3, <2>4
<1>6. ASSUME NEW r \in Request, NEW ids \in Lists, Update(r, ids) PROVE IInv'
  <2>1. OneFetcher' /\ FallbackKnown'
    BY AnswerNames, <1>6 DEF Update, Unlock, Goto, OneFetcher, FallbackKnown
  <2>2. NameKept'
    BY AnswerNames, <1>6 DEF Update, Unlock, Goto, NameKept
  <2>3. AttemptsDated'
    BY <1>6 DEF Update, Unlock, Goto, OneFetcher, AttemptsDated, Time
  <2>4. ForwardsAvailable' /\ ChoiceRespected'
    BY <1>6 DEF Update, Unlock, Goto, NameKept, ForwardsAvailable, ChoiceRespected
  <2> QED
    BY <2>1, <2>2, <2>3, <2>4
<1>7. ASSUME NEW r \in Request, FetchFails(r) PROVE IInv'
  <2>1. OneFetcher' /\ FallbackKnown'
    BY <1>7 DEF FetchFails, Unlock, Goto, OneFetcher, FallbackKnown
  <2>2. NameKept'
    BY <1>7 DEF FetchFails, Unlock, Goto, NameKept
  <2>3. AttemptsDated'
    BY <1>7 DEF FetchFails, Unlock, Goto, OneFetcher, AttemptsDated, Time
  <2>4. ForwardsAvailable' /\ ChoiceRespected'
    BY <1>7 DEF FetchFails, Unlock, Goto, NameKept, ForwardsAvailable, ChoiceRespected
  <2> QED
    BY <2>1, <2>2, <2>3, <2>4
<1>8. ASSUME NEW r \in Request, Strip(r) PROVE IInv'
  <2>1. OneFetcher' /\ FallbackKnown'
    BY <1>8 DEF Strip, Goto, OneFetcher, FallbackKnown
  <2>2. NameKept'
    BY StripName, <1>8 DEF Strip, Goto, NameKept
  <2>3. AttemptsDated'
    BY <1>8 DEF Strip, Goto, OneFetcher, AttemptsDated, Time
  <2>4. ForwardsAvailable' /\ ChoiceRespected'
    BY <1>8 DEF Strip, Goto, NameKept, ForwardsAvailable, ChoiceRespected
  <2> QED
    BY <2>1, <2>2, <2>3, <2>4
<1>9. ASSUME NEW r \in Request, Forward(r) PROVE IInv'
  <2>1. OneFetcher' /\ FallbackKnown'
    BY <1>9 DEF Forward, Goto, OneFetcher, FallbackKnown
  <2>2. NameKept'
    BY ResolveKnown, <1>9 DEF Forward, Goto, NameKept
  <2>3. AttemptsDated'
    BY <1>9 DEF Forward, Goto, OneFetcher, AttemptsDated, Time
  <2>4. ForwardsAvailable' /\ ChoiceRespected'
    BY ResolveKnown, <1>9 DEF Forward, Goto, NameKept, ForwardsAvailable, ChoiceRespected
  <2> QED
    BY <2>1, <2>2, <2>3, <2>4
<1>10. CASE Tick
  <2>1. OneFetcher' /\ FallbackKnown' /\ NameKept' /\ ForwardsAvailable' /\ ChoiceRespected'
    BY <1>10 DEF Tick, OneFetcher, FallbackKnown, NameKept, ForwardsAvailable, ChoiceRespected
  <2>2. AttemptsDated'
    BY <1>10 DEF Tick, AttemptsDated, Time
  <2> QED
    BY <2>1, <2>2
<1>11. CASE UNCHANGED vars
  BY <1>11 DEF vars, OneFetcher, FallbackKnown, NameKept, AttemptsDated, ForwardsAvailable,
               ChoiceRespected
<1> QED
  BY <1>1, <1>2, <1>3, <1>4, <1>5, <1>6, <1>7, <1>8, <1>9, <1>10, <1>11 DEF Next, EndFetch

LEMMA Inductive == Spec => []IInv
BY InvInit, InvStep, PTL DEF Spec

----------------------------------------------------------------------------
(* The theorems *)

\* Every variable keeps its type.
THEOREM TypeCorrect == Spec => []TypeOK
<1>1. IInv => TypeOK
  BY DEF IInv
<1> QED
  BY <1>1, Inductive, PTL

\* Once there is a list no request goes upstream with a model that is not in it.
THEOREM AlwaysAvailable == Spec => []ForwardsAvailable
<1>1. IInv => ForwardsAvailable
  BY DEF IInv
<1> QED
  BY <1>1, Inductive, PTL

\* A model that is there when its request is resolved is replaced only by the one behind its
\* prefix, and whoever asks for an alias gets the model it stands for while that is there.
THEOREM NeverOverruled == Spec => []ChoiceRespected
<1>1. IInv => ChoiceRespected
  BY DEF IInv
<1> QED
  BY <1>1, Inductive, PTL

\* The double check under fetchMu spaces the fetches of any number of requests.
THEOREM Spaced == Spec => FetchesAreSpaced
<1> DEFINE Late == \A r \in Request :
                      pc[r] # "fetch" /\ pc'[r] = "fetch" => now - started >= Retry \/ kept
<1>1. IInv /\ [Next]_vars => [Late]_vars
  <2> SUFFICES ASSUME IInv, Next, NEW q \in Request, pc[q] # "fetch", pc'[q] = "fetch"
               PROVE  now - started >= Retry \/ kept
    OBVIOUS
  <2>1. StartFetch(q)
    BY ConstantsAssumption
       DEF Next, EndFetch, Arrive, FirstCheck, Lock, StartFetch, SkipFetch, Update, FetchFails,
           Strip, Forward, Tick, Unlock, Goto, IInv, TypeOK
  <2>2. \A r \in Request : pc[r] # "fetch"
    BY <2>1 DEF StartFetch, IInv, OneFetcher
  <2> QED
    BY <2>1, <2>2, ConstantsAssumption
       DEF StartFetch, ShouldFetch, IInv, TypeOK, AttemptsDated, Time
<1> QED
  BY <1>1, Inductive, PTL DEF Spec, FetchesAreSpaced

----------------------------------------------------------------------------
(* The request path *)

Converted(w) == IF w.entry = "chat" THEN w.body ELSE DecodeRequest(w)

Waiting(r) ==
    /\ want[r] \in Wanted[r]
    /\ want[r].entry # "chat" => ~AllDropped(want[r])
    /\ body[r] = Converted(want[r])

Sent(r) ==
    /\ want[r] \in Wanted[r]
    /\ ~AllDropped(want[r])
    /\ \E m \in Name : body[r] = Adapted(want[r], Converted(want[r]), m, overrides[m])

InFlight ==
    /\ stage \in [Request -> {"idle", "token", "models", "sent", "refused"}]
    /\ DOMAIN want = Request /\ DOMAIN body = Request
    /\ overrides \in [Name -> SUBSET Override]
    /\ \A r \in Request :
          /\ stage[r] \in {"token", "models"} => Waiting(r)
          /\ stage[r] = "sent" => Sent(r)
          /\ stage[r] = "refused" => want[r] \in Wanted[r] /\ AllDropped(want[r])

----------------------------------------------------------------------------
(* Bodies *)

\* A conversion makes a body of a body.
LEMMA ConvertedBody ==
    ASSUME NEW w \in [entry : Entry, body : Body]
    PROVE  /\ Converted(w) \in Body
           /\ Converted(w).model = w.body.model
BY DEF Converted, DecodeRequest, Body, ToolChoice

\* A client's request is one of the protocol.
LEMMA WantedBody ==
    ASSUME NEW r \in Request, NEW w \in Wanted[r]
    PROVE  w \in [entry : Entry, body : Body]
BY RequestsAssumption

\* The body a request asks for, after its protocol and with the model it gets.
Asked(w, m) ==
    [(IF w.entry = "chat" THEN SanitizeChatTools(w.body) ELSE DecodeRequest(w))
        EXCEPT !.model = m]

LEMMA AskedBody ==
    ASSUME NEW w \in [entry : Entry, body : Body], NEW m \in Name
    PROVE  Asked(w, m) \in Body /\ Asked(w, m).model = m
BY DEF Asked, DecodeRequest, SanitizeChatTools, Body, ToolChoice

\* The adaptation is the policy of the model's family and nothing else.
LEMMA AdaptedIsPolicy ==
    ASSUME NEW w \in [entry : Entry, body : Body], NEW m \in Name, NEW keep
    PROVE  Adapted(w, Converted(w), m, keep) = PolicyFor(Asked(w, m), Family[m], keep)
<1>1. CASE w.entry = "chat"
  <2>1. SanitizeChatTools([w.body EXCEPT !.model = m]) = Asked(w, m)
    BY <1>1 DEF Asked, SanitizeChatTools, Body
  <2> QED
    BY <1>1, <2>1, AskedBody DEF Adapted, Converted, ApplyUpstreamModelPolicy
<1>2. CASE w.entry # "chat"
  <2>1. [DecodeRequest(w) EXCEPT !.model = m] = Asked(w, m)
    BY <1>2 DEF Asked
  <2> QED
    BY <1>2, <2>1, AskedBody DEF Adapted, Converted, ApplyUpstreamModelPolicy
<1> QED
  BY <1>1, <1>2

\* What a policy does to each field.
LEMMA PolicyFields ==
    ASSUME NEW q \in Body, NEW family, NEW keep
    PROVE  LET p == PolicyFor(q, family, keep)
               autoOnly == family \in {"deepseek", "auto"} \/ (family = "kimi" /\ q.stream)
           IN /\ p \in Body
              /\ p.model = q.model /\ p.tools = q.tools /\ p.stream = q.stream
              /\ p.tool_choice = IF autoOnly /\ q.tool_choice \in Forced
                                     /\ "keep_tool_choice" \notin keep
                                 THEN "auto" ELSE q.tool_choice
              /\ p.response_format <=>
                    /\ q.response_format
                    /\ family # "other" /\ q.tools # {} => "keep_response_format" \in keep
              /\ p.temperature =
                    IF /\ family = "auto" \/ (family = "kimi" /\ q.temperature = "other")
                       /\ q.response_format /\ "keep_temperature" \notin keep
                    THEN "unset" ELSE q.temperature
              /\ p.thinking = IF "disable_thinking" \in keep THEN "disabled" ELSE q.thinking
BY DEF PolicyFor, Body, ToolChoice

\* The property UpstreamBodyFits, of one body and what was asked for.
Fits(p, asked, keep) ==
    /\ keep \subseteq {"disable_thinking"} => TakenBy(p)
    /\ p.tool_choice # asked.tool_choice =>
         /\ p.tool_choice = "auto" /\ "keep_tool_choice" \notin keep
         /\ ~TakenBy([p EXCEPT !.tool_choice = asked.tool_choice])
    /\ p.response_format # asked.response_format =>
         /\ "keep_response_format" \notin keep
         /\ ~TakenBy([p EXCEPT !.response_format = TRUE, !.temperature = "one"])
    /\ p.temperature # asked.temperature =>
         /\ "keep_temperature" \notin keep /\ asked.response_format
         /\ \/ ~TakenBy([p EXCEPT !.temperature = asked.temperature,
                                  !.response_format = TRUE, !.tools = {}])
            \/ Family[p.model] = "auto" /\ asked.temperature = "one"

LEMMA AdaptedFits ==
    ASSUME NEW w \in [entry : Entry, body : Body], NEW m \in Name,
           NEW keep \in SUBSET Override
    PROVE  LET p == Adapted(w, Converted(w), m, keep)
           IN p.model = m /\ Fits(p, Asked(w, m), keep)
<1> DEFINE q == Asked(w, m)
           family == Family[m]
           p == PolicyFor(q, family, keep)
<1>1. q \in Body /\ q.model = m
  BY AskedBody
<1>2. family \in {"deepseek", "kimi", "auto", "other"}
  BY RequestsAssumption
<1>3. Adapted(w, Converted(w), m, keep) = p
  BY AdaptedIsPolicy
<1>4. /\ p \in Body
      /\ p.model = m /\ p.tools = q.tools /\ p.stream = q.stream
      /\ p.tool_choice = IF /\ family \in {"deepseek", "auto"} \/ (family = "kimi" /\ q.stream)
                            /\ q.tool_choice \in Forced
                            /\ "keep_tool_choice" \notin keep
                         THEN "auto" ELSE q.tool_choice
      /\ p.response_format <=>
            /\ q.response_format
            /\ family # "other" /\ q.tools # {} => "keep_response_format" \in keep
      /\ p.temperature =
            IF /\ family = "auto" \/ (family = "kimi" /\ q.temperature = "other")
               /\ q.response_format /\ "keep_temperature" \notin keep
            THEN "unset" ELSE q.temperature
  BY <1>1, PolicyFields
<1> HIDE DEF q, p
<1> USE DEF TakenBy, Takes, Forced
<1>5. keep \subseteq {"disable_thinking"} => TakenBy(p)
  BY <1>1, <1>2, <1>4 DEF Body
<1>6. p.tool_choice # q.tool_choice =>
        /\ p.tool_choice = "auto" /\ "keep_tool_choice" \notin keep
        /\ ~TakenBy([p EXCEPT !.tool_choice = q.tool_choice])
  BY <1>1, <1>2, <1>4 DEF Body
<1>7. p.response_format # q.response_format =>
        /\ "keep_response_format" \notin keep
        /\ ~TakenBy([p EXCEPT !.response_format = TRUE, !.temperature = "one"])
  BY <1>1, <1>2, <1>4 DEF Body
<1>8. p.temperature # q.temperature =>
        /\ "keep_temperature" \notin keep /\ q.response_format
        /\ \/ ~TakenBy([p EXCEPT !.temperature = q.temperature,
                                 !.response_format = TRUE, !.tools = {}])
           \/ Family[p.model] = "auto" /\ q.temperature = "one"
  BY <1>1, <1>2, <1>4 DEF Body
<1> QED
  BY <1>3, <1>4, <1>5, <1>6, <1>7, <1>8 DEF q, Fits

\* The same request, sent in another protocol.
By(e, w) == [entry |-> e, body |-> w]

\* What a request asks for, field by field.
LEMMA AskedFields ==
    ASSUME NEW e \in Entry, NEW w \in Body, NEW m \in Name
    PROVE  LET q == Asked(By(e, w), m)
           IN /\ q \in Body
              /\ q.model = m /\ q.stream = w.stream
              /\ q.response_format = w.response_format /\ q.temperature = w.temperature
              /\ q.tools = w.tools \cap Usable(e)
              /\ e = "chat" => q.tool_choice = w.tool_choice
              /\ e # "chat" =>
                    q.tool_choice = IF \/ w.tools = {} \/ w.tool_choice = "other"
                                       \/ w.tool_choice = "builtin" /\ e = "responses"
                                    THEN "unset" ELSE w.tool_choice
              /\ q.thinking = IF e = "chat" THEN w.thinking ELSE "free"
<1> DEFINE q == Asked(By(e, w), m)
<1>1. By(e, w) \in [entry : Entry, body : Body]
  BY DEF By
<1>2. q \in Body
  BY <1>1, AskedBody
<1>3. CASE e = "chat"
  <2>1. q = [[w EXCEPT !.tools = @ \cap Usable("chat")] EXCEPT !.model = m]
    BY <1>3 DEF Asked, By, SanitizeChatTools
  <2> QED
    BY <1>2, <1>3, <2>1 DEF Body
<1>4. CASE e # "chat"
  <2>1. q = [[w EXCEPT !.tools = @ \cap Usable(e),
                       !.tool_choice = IF \/ w.tools = {} \/ @ = "other"
                                          \/ @ = "builtin" /\ e = "responses"
                                       THEN "unset" ELSE @,
                       !.thinking = "free"] EXCEPT !.model = m]
    BY <1>4 DEF Asked, By, DecodeRequest
  <2> QED
    BY <1>2, <1>4, <2>1 DEF Body
<1> QED
  BY <1>3, <1>4

\* What is sent for request w that came in the protocol of entry e.
Made(e, w, m, keep) == Adapted(By(e, w), Converted(By(e, w)), m, keep)

\* The differences between two entries that EntriesAgree allows, in one field.
Excused(field, w, e1, e2, p1, p2) ==
    LET chat == "chat" \in {e2, e1}
        responses == "responses" \in {e2, e1}
    IN \/ p1[field] = p2[field]
       \/ /\ field = "tools" /\ chat
          /\ {p1.tools, p2.tools} = {{"function"}, {"function", "unnamed"}}
       \/ /\ field = "tool_choice" /\ chat
          /\ w.tools = {} \/ w.tool_choice = "other"
       \/ /\ field = "tool_choice" /\ responses
          /\ w.tool_choice = "builtin"
       \/ /\ field = "thinking" /\ chat
          /\ w.thinking = "disabled"

LEMMA EntriesAlike ==
    ASSUME NEW e1 \in Entry, NEW e2 \in Entry, NEW w \in Body, NEW m \in Name, NEW keep,
           ~AllDropped(By(e1, w)), ~AllDropped(By(e2, w))
    PROVE  \A field \in DOMAIN Made(e1, w, m, keep) :
              Excused(field, w, e1, e2, Made(e1, w, m, keep), Made(e2, w, m, keep))
<1> DEFINE q(e) == Asked(By(e, w), m)
           p(e) == PolicyFor(q(e), Family[m], keep)
           autoOnly == \/ Family[m] \in {"deepseek", "auto"}
                       \/ Family[m] = "kimi" /\ w.stream
           Choice(c) == IF autoOnly /\ c \in Forced /\ "keep_tool_choice" \notin keep
                        THEN "auto" ELSE c
           Asks(e) == IF \/ e = "chat"
                         \/ ~(\/ w.tools = {} \/ w.tool_choice = "other"
                              \/ w.tool_choice = "builtin" /\ e = "responses")
                      THEN w.tool_choice ELSE "unset"
           format == /\ w.response_format
                     /\ Family[m] # "other" /\ w.tools # {} => "keep_response_format" \in keep
           degrees == IF /\ Family[m] = "auto" \/ (Family[m] = "kimi" /\ w.temperature = "other")
                         /\ w.response_format /\ "keep_temperature" \notin keep
                      THEN "unset" ELSE w.temperature
           Thinks(e) == IF "disable_thinking" \in keep THEN "disabled"
                        ELSE IF e = "chat" THEN w.thinking ELSE "free"
<1>1. ASSUME NEW e \in Entry, ~AllDropped(By(e, w))
      PROVE  /\ Made(e, w, m, keep) = p(e) /\ p(e) \in Body
             /\ p(e).model = m /\ p(e).stream = w.stream
             /\ p(e).tools = w.tools \cap Usable(e)
             /\ p(e).tool_choice = Choice(Asks(e))
             /\ p(e).response_format = format /\ p(e).temperature = degrees
             /\ p(e).thinking = Thinks(e)
  <2>1. By(e, w) \in [entry : Entry, body : Body]
    BY DEF By
  <2>2. Made(e, w, m, keep) = p(e)
    BY <2>1, AdaptedIsPolicy DEF Made
  <2>3. w.tools \cap Usable(e) = {} <=> w.tools = {}
    BY <1>1 DEF AllDropped, By
  <2>4. /\ q(e) \in Body
        /\ q(e).model = m /\ q(e).stream = w.stream
        /\ q(e).response_format = w.response_format /\ q(e).temperature = w.temperature
        /\ q(e).tools = w.tools \cap Usable(e)
        /\ q(e).tool_choice = Asks(e)
        /\ q(e).thinking = IF e = "chat" THEN w.thinking ELSE "free"
    BY AskedFields
  <2> HIDE DEF q
  <2>5. /\ p(e) \in Body
        /\ p(e).model = m /\ p(e).stream = w.stream
        /\ p(e).tools = w.tools \cap Usable(e)
        /\ p(e).tool_choice = Choice(Asks(e))
        /\ p(e).temperature = degrees
        /\ p(e).thinking = Thinks(e)
    BY <2>4, PolicyFields
  <2>6. p(e).response_format <=> format
    BY <2>3, <2>4, PolicyFields
  <2>7. p(e).response_format \in BOOLEAN
    BY <2>5 DEF Body
  <2> QED
    BY <2>2, <2>5, <2>6, <2>7
<1>2. DOMAIN p(e1) = {"model", "tools", "tool_choice", "response_format", "temperature",
                      "stream", "thinking"}
  BY <1>1 DEF Body
<1> HIDE DEF p, Choice, format, degrees
<1>3. /\ p(e1).model = p(e2).model /\ p(e1).stream = p(e2).stream
      /\ p(e1).response_format = p(e2).response_format
      /\ p(e1).temperature = p(e2).temperature
  BY <1>1
<1>4. Excused("tools", w, e1, e2, p(e1), p(e2))
  <2>1. w.tools \subseteq {"function", "unnamed", "server"}
    BY DEF Body, ToolType
  <2>2. CASE Usable(e1) = Usable(e2) \/ "unnamed" \notin w.tools
    <3>1. w.tools \cap Usable(e1) = w.tools \cap Usable(e2)
      BY <2>2 DEF Usable
    <3> QED
      BY <1>1, <3>1 DEF Excused
  <2>3. ASSUME Usable(e1) # Usable(e2), "unnamed" \in w.tools
        PROVE  Excused("tools", w, e1, e2, p(e1), p(e2))
    <3>1. "chat" \in {e1, e2} /\ (e1 # "chat" \/ e2 # "chat")
      BY <2>3 DEF Usable
    <3>2. "function" \in w.tools
      BY <2>1, <2>3, <3>1 DEF AllDropped, By, Usable
    <3>3. \A e \in Entry : w.tools \cap Usable(e) = IF e = "chat" THEN {"function", "unnamed"}
                                                    ELSE {"function"}
      BY <2>3, <3>2 DEF Usable
    <3>4. \/ p(e1).tools = {"function", "unnamed"} /\ p(e2).tools = {"function"}
          \/ p(e2).tools = {"function", "unnamed"} /\ p(e1).tools = {"function"}
      BY <1>1, <3>1, <3>3
    <3>5. {p(e1).tools, p(e2).tools} = {{"function"}, {"function", "unnamed"}}
      BY <3>4
    <3> QED
      BY <3>1, <3>5 DEF Excused
  <2> QED
    BY <2>2, <2>3
<1>5. Excused("tool_choice", w, e1, e2, p(e1), p(e2))
  <2>1. e1 \in {"chat", "messages", "responses"} /\ e2 \in {"chat", "messages", "responses"}
    BY DEF Entry
  <2>2. CASE Asks(e1) = Asks(e2)
    BY <1>1, <2>2 DEF Excused
  <2>3. CASE Asks(e1) # Asks(e2)
    BY <2>1, <2>3 DEF Excused
  <2> QED
    BY <2>2, <2>3
<1>6. Excused("thinking", w, e1, e2, p(e1), p(e2))
  <2>1. w.thinking \in {"free", "disabled"}
    BY DEF Body
  <2> QED
    BY <1>1, <2>1 DEF Excused
<1>7. Made(e1, w, m, keep) = p(e1) /\ Made(e2, w, m, keep) = p(e2)
  BY <1>1
<1>8. \A field \in DOMAIN p(e1) : Excused(field, w, e1, e2, p(e1), p(e2))
  BY <1>2, <1>3, <1>4, <1>5, <1>6 DEF Excused
<1> QED
  BY <1>7, <1>8

\* Whether all tools are dropped depends on the entry only for functions without a name.
LEMMA DroppedAlike ==
    ASSUME NEW e1 \in Entry, NEW e2 \in Entry, NEW w \in Body,
           AllDropped(By(e1, w)), ~AllDropped(By(e2, w))
    PROVE  e2 = "chat" /\ "unnamed" \in w.tools
BY DEF AllDropped, By, Usable

----------------------------------------------------------------------------
(* The resolver in the request path *)

LEMMA PathRefines == InFlight /\ [PathNext]_allVars => [Next]_vars
<1> SUFFICES ASSUME InFlight, [PathNext]_allVars PROVE [Next]_vars
  OBVIOUS
<1>1. ASSUME NEW r \in Request, NEW w \in Wanted[r], Receive(r, w) PROVE UNCHANGED vars
  BY <1>1 DEF Receive
<1>2. ASSUME NEW r \in Request, Unauthorized(r) \/ Answer(r) PROVE UNCHANGED vars
  BY <1>2 DEF Unauthorized, Answer
<1>3. ASSUME NEW r \in Request, Authorized(r) PROVE Next
  <2>1. body[r] \in Body
    BY <1>3, WantedBody, ConvertedBody DEF Authorized, InFlight, Waiting
  <2>2. body[r].model \in Name
    BY <2>1 DEF Body
  <2> QED
    BY <1>3, <2>2 DEF Authorized, Next
<1>4. ASSUME NEW r \in Request, EnsureModels(r) PROVE Next
  BY <1>4 DEF EnsureModels, Next
<1>5. ASSUME NEW r \in Request, Send(r) \/ Refuse(r) PROVE Next
  BY <1>5 DEF Send, Refuse, Next
<1>6. CASE Tick /\ UNCHANGED pathVars
  BY <1>6 DEF Next
<1>7. CASE UNCHANGED allVars
  BY <1>7 DEF allVars
<1> QED
  BY <1>1, <1>2, <1>3, <1>4, <1>5, <1>6, <1>7 DEF PathNext, Process

LEMMA InFlightInit == PathInit => InFlight
BY RequestsAssumption DEF PathInit, InFlight

LEMMA InFlightStep == InFlight /\ IInv' /\ [PathNext]_allVars => InFlight'
<1> SUFFICES ASSUME InFlight, IInv', [PathNext]_allVars PROVE InFlight'
  OBVIOUS
<1> USE DEF InFlight, Stage, Finish
<1>0. /\ overrides' = overrides
      /\ \A r \in Request : stage'[r] = stage[r] /\ want'[r] = want[r] /\ body'[r] = body[r]
           => /\ Waiting(r) => Waiting(r)'
              /\ Sent(r) => Sent(r)'
  <2>1. overrides' = overrides
    BY DEF PathNext, allVars, pathVars, Receive, Process, Unauthorized, Authorized,
           EnsureModels, Send, Refuse, Answer
  <2> QED
    BY <2>1 DEF Waiting, Sent
<1>1. ASSUME NEW r \in Request, NEW w \in Wanted[r], Receive(r, w) PROVE InFlight'
  <2>1. CASE w.entry # "chat" /\ AllDropped(w)
    BY <1>0, <1>1, <2>1 DEF Receive, AllDropped
  <2>2. CASE ~(w.entry # "chat" /\ AllDropped(w))
    <3>1. stage'[r] = "token" /\ want'[r] = w /\ body'[r] = Converted(w)
      BY <1>1, <2>2 DEF Receive, Converted
    <3>2. Waiting(r)'
      BY <2>2, <3>1 DEF Waiting, AllDropped, Converted
    <3> QED
      BY <1>0, <1>1, <2>2, <3>1, <3>2 DEF Receive
  <2> QED
    BY <2>1, <2>2
<1>2. ASSUME NEW r \in Request, Unauthorized(r) \/ Answer(r) PROVE InFlight'
  BY <1>0, <1>2 DEF Unauthorized, Answer
<1>3. ASSUME NEW r \in Request, Authorized(r) PROVE InFlight'
  <2>1. Waiting(r)'
    BY <1>3 DEF Authorized, Waiting, AllDropped, Converted
  <2> QED
    BY <1>0, <1>3, <2>1 DEF Authorized
<1>4. ASSUME NEW r \in Request, EnsureModels(r) PROVE InFlight'
  BY <1>0, <1>4 DEF EnsureModels, pathVars
<1>5. ASSUME NEW r \in Request, Send(r) PROVE InFlight'
  <2>1. name'[r] \in Name
    <3>1. pc'[r] = "forwarded"
      BY <1>5 DEF Send, Forward, Goto, IInv, TypeOK
    <3> QED
      BY <3>1 DEF IInv, NameKept
  <2>2. want'[r] \in Wanted[r] /\ ~AllDropped(want'[r])
    BY <1>5 DEF Send, Waiting
  <2>3. body'[r] = Adapted(want[r], Converted(want[r]), name'[r], overrides[name'[r]])
    BY <1>5 DEF Send, Waiting
  <2>4. want' = want /\ overrides' = overrides
    BY <1>5 DEF Send
  <2>5. Sent(r)'
    BY <2>1, <2>2, <2>3, <2>4 DEF Sent
  <2> QED
    BY <1>0, <1>5, <2>5 DEF Send
<1>6. ASSUME NEW r \in Request, Refuse(r) PROVE InFlight'
  BY <1>0, <1>6 DEF Refuse, Waiting, AllDropped
<1>7. CASE Tick /\ UNCHANGED pathVars
  BY <1>0, <1>7 DEF pathVars
<1>8. CASE UNCHANGED allVars
  BY <1>0, <1>8 DEF allVars, pathVars
<1> QED
  BY <1>1, <1>2, <1>3, <1>4, <1>5, <1>6, <1>7, <1>8 DEF PathNext, Process

LEMMA PathInductive == PathSpec => [](InFlight /\ IInv)
<1>1. PathInit => InFlight /\ IInv
  BY InFlightInit, InvInit DEF PathInit
<1>2. InFlight /\ IInv /\ [PathNext]_allVars => InFlight' /\ IInv'
  BY PathRefines, InvStep, InFlightStep
<1> QED
  BY <1>1, <1>2, PTL DEF PathSpec

\* Whatever the stages of the requests add, the resolver takes its own steps only: the
\* request path implements ModelResolver.
THEOREM PathUsesResolver == PathSpec => Spec
<1>1. PathInit => Init
  BY DEF PathInit
<1> QED
  BY <1>1, PathRefines, PathInductive, PTL DEF PathSpec, Spec

\* Whatever happens to a request on its way, once there is a list it is not sent with a model
\* that is not in it.
THEOREM PathForwardsAvailable == PathSpec => []ForwardsAvailable
BY PathUsesResolver, AlwaysAvailable, PTL

\* What is sent fits the model it names, and keeps what that model takes, up to the two
\* exceptions for temperatures that UpstreamBodyFits names.
THEOREM BodiesFit == PathSpec => []UpstreamBodyFits
<1>1. InFlight => UpstreamBodyFits
  <2> SUFFICES ASSUME InFlight, NEW r \in Request, stage[r] = "sent"
               PROVE  Fits(body[r], Asked(want[r], body[r].model), overrides[body[r].model])
    BY DEF UpstreamBodyFits, Fits, Asked
  <2>1. Sent(r) /\ want[r] \in [entry : Entry, body : Body]
    BY WantedBody DEF InFlight, Sent
  <2>2. PICK m \in Name :
          body[r] = Adapted(want[r], Converted(want[r]), m, overrides[m])
    BY <2>1 DEF Sent
  <2>3. overrides[m] \in SUBSET Override
    BY DEF InFlight
  <2> QED
    BY <2>1, <2>2, <2>3, AdaptedFits
<1> QED
  BY <1>1, PathInductive, PTL

\* A request is refused or sent, with which fields, in every protocol alike, up to the
\* differences EntriesAgree names.
THEOREM EntriesTreatAlike == PathSpec => []EntriesAgree
<1>1. InFlight => EntriesAgree
  <2> SUFFICES ASSUME InFlight, NEW r \in Request
      PROVE  LET w == want[r].body
                 own == want[r].entry
                 m == body[r].model
             IN /\ stage[r] = "refused" =>
                     /\ w.tools # {} /\ "function" \notin w.tools
                     /\ \A e \in Entry : \/ AllDropped(By(e, w))
                                         \/ e = "chat" /\ "unnamed" \in w.tools
                /\ stage[r] = "sent" =>
                     /\ w.tools # {} => body[r].tools # {}
                     /\ \A e \in Entry :
                          IF AllDropped(By(e, w))
                          THEN "chat" \in {e, own} /\ "unnamed" \in w.tools
                          ELSE \A field \in DOMAIN body[r] :
                                 Excused(field, w, own, e, body[r],
                                         Made(e, w, m, overrides[m]))
    BY DEF EntriesAgree, Excused, Made, Converted, By
  <2> DEFINE w == want[r].body
             own == want[r].entry
  <2>1. CASE stage[r] = "refused"
    <3>1. want[r] \in [entry : Entry, body : Body] /\ AllDropped(want[r])
      BY <2>1, WantedBody DEF InFlight
    <3>2. own \in Entry /\ w \in Body /\ want[r] = By(own, w)
      BY <3>1 DEF By
    <3>3. w.tools # {} /\ "function" \notin w.tools
      BY <3>1, <3>2 DEF AllDropped, Usable, By
    <3>4. ASSUME NEW e \in Entry
          PROVE  AllDropped(By(e, w)) \/ (e = "chat" /\ "unnamed" \in w.tools)
      BY <3>1, <3>2, DroppedAlike
    <3> QED
      BY <2>1, <3>3, <3>4
  <2>2. CASE stage[r] = "sent"
    <3>1. want[r] \in [entry : Entry, body : Body] /\ ~AllDropped(want[r])
      BY <2>2, WantedBody DEF InFlight, Sent
    <3>2. own \in Entry /\ w \in Body /\ want[r] = By(own, w)
      BY <3>1 DEF By
    <3>3. PICK m \in Name :
            body[r] = Adapted(want[r], Converted(want[r]), m, overrides[m])
      BY <2>2 DEF InFlight, Sent
    <3>4. /\ body[r] = Made(own, w, m, overrides[m])
          /\ body[r] = PolicyFor(Asked(want[r], m), Family[m], overrides[m])
      BY <3>1, <3>2, <3>3, AdaptedIsPolicy DEF Made
    <3>5. Asked(want[r], m) \in Body /\ Asked(want[r], m).model = m
      BY <3>1, AskedBody
    <3>6. body[r].model = m /\ body[r].tools = Asked(want[r], m).tools
      BY <3>4, <3>5, PolicyFields
    <3>7. w.tools # {} => body[r].tools # {}
      <4>1. Asked(By(own, w), m).tools = w.tools \cap Usable(own)
        BY <3>2, AskedFields
      <4> QED
        BY <3>1, <3>2, <3>6, <4>1 DEF AllDropped, By
    <3>8. ASSUME NEW e \in Entry, AllDropped(By(e, w))
          PROVE  "chat" \in {e, own} /\ "unnamed" \in w.tools
      BY <3>1, <3>2, <3>8, DroppedAlike
    <3>9. ASSUME NEW e \in Entry, ~AllDropped(By(e, w))
          PROVE  \A field \in DOMAIN body[r] :
                    Excused(field, w, own, e, body[r], Made(e, w, m, overrides[m]))
      BY <3>1, <3>2, <3>4, <3>9, EntriesAlike
    <3> QED
      BY <2>2, <3>6, <3>7, <3>8, <3>9
  <2> QED
    BY <2>1, <2>2
<1> QED
  BY <1>1, PathInductive, PTL

=============================================================================
