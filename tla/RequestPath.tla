---------------------------- MODULE RequestPath ----------------------------
(***************************************************************************)
(* A request between the client and the upstream (internal/proxy/proxy.go,  *)
(* forward and forwardCompat): it is converted to a Chat Completions body,  *)
(* waits for fresh tokens, resolves its model while others may refresh the  *)
(* list (ModelResolver), is adapted to that model (tools_sanitize.go,       *)
(* model_policy.go), sent and answered.  Of a body only the fields the      *)
(* adaptation reads are modelled.                                          *)
(***************************************************************************)
EXTENDS ModelResolver

CONSTANTS
    Wanted,     \* what the clients of each request may send
    Family,     \* of each model: which policy its name selects
    Overrides,  \* model_policy_overrides a configuration may have
    Fallbacks   \* fallback_model it may have

Entry == {"chat", "messages", "responses"}

\* "server" stands for every built-in type, "unnamed" for a function without a name.
ToolType == {"function", "unnamed", "server"}

\* "named" names a function of the tools and "builtin" a built-in tool, each in the form its
\* protocol has for that; "other" is any other object.
ToolChoice == {"unset", "none", "auto", "required", "named", "builtin", "other"}

Body == [model : Name, tools : SUBSET ToolType, tool_choice : ToolChoice,
         response_format : BOOLEAN, temperature : {"unset", "one", "other"},
         stream : BOOLEAN, thinking : {"free", "disabled"}]

Override == {"keep_tool_choice", "keep_response_format", "keep_temperature",
             "disable_thinking"}

\* The Messages protocol has no response_format.
ASSUME RequestsAssumption ==
    /\ Wanted \in [Request -> SUBSET [entry : Entry, body : Body]]
    /\ \A r \in Request : \A w \in Wanted[r] :
          w.entry = "messages" => ~w.body.response_format
    /\ Family \in [Name -> {"deepseek", "kimi", "auto", "other"}]
    /\ Overrides \subseteq [Name -> SUBSET Override]
    /\ Fallbacks \subseteq Name \cup {NoName}

VARIABLES
    stage,      \* of each request: "idle", "token", "models", "sent", "refused"
    want,       \* what its client sent
    body,       \* what is made of it
    overrides

pathVars == <<stage, want, body, overrides>>
allVars == <<vars, pathVars>>

Nothing == <<>>

PathInit ==
    /\ Init /\ preferred \in Fallbacks
    /\ stage = [r \in Request |-> "idle"]
    /\ want = [r \in Request |-> Nothing]
    /\ body = [r \in Request |-> Nothing]
    /\ overrides \in Overrides

----------------------------------------------------------------------------
(* Bodies *)

Forced == {"required", "named", "builtin", "other"}

\* Tools the upstream knows.  The converted entries drop functions without a name, too.
Usable(entry) == IF entry = "chat" THEN {"function", "unnamed"} ELSE {"function"}

\* A mutant of AllDropped: what is left is not looked at.
SomeDropped(w) == ~(w.body.tools \subseteq Usable(w.entry))

\* errAllToolsDropped
AllDropped(w) == w.body.tools # {} /\ w.body.tools \cap Usable(w.entry) = {}

\* The tools and the choice of a converted request: there is no choice without tools, and
\* none that is neither a word nor a name.  The Messages protocol names a built-in tool as it
\* names a function, and its name is passed on as that of a function; the Responses protocol
\* names it by its type, which is dropped.
DecodeRequest(w) ==
    [w.body EXCEPT
       !.tools = @ \cap Usable(w.entry),
       !.tool_choice = IF \/ w.body.tools = {} \/ @ = "other"
                          \/ @ = "builtin" /\ w.entry = "responses"
                       THEN "unset" ELSE @,
       !.thinking = "free"]

\* The choice stays as it is, without tools too.
SanitizeChatTools(b) == [b EXCEPT !.tools = @ \cap Usable("chat")]

\* The policy of a family, as far as the configuration does not override it.
PolicyFor(b, family, keep) ==
    LET autoOnly == family \in {"deepseek", "auto"} \/ (family = "kimi" /\ b.stream)
        noFormat == family # "other" /\ b.tools # {}
        hot == family = "auto" \/ (family = "kimi" /\ b.temperature = "other")
    IN [b EXCEPT
          !.tool_choice = IF /\ autoOnly /\ @ \in Forced
                             /\ "keep_tool_choice" \notin keep
                          THEN "auto" ELSE @,
          !.response_format = @ /\ (noFormat => "keep_response_format" \in keep),
          !.temperature = IF /\ hot /\ b.response_format
                             /\ "keep_temperature" \notin keep
                          THEN "unset" ELSE @,
          !.thinking = IF "disable_thinking" \in keep THEN "disabled" ELSE @]

ApplyUpstreamModelPolicy(b, keep) == PolicyFor(b, Family[b.model], keep)

\* What goes upstream, once the model and the overrides for it are known.
Adapted(w, b, model, keep) ==
    LET named == [b EXCEPT !.model = model]
    IN ApplyUpstreamModelPolicy(IF w.entry = "chat" THEN SanitizeChatTools(named) ELSE named,
                                keep)

----------------------------------------------------------------------------
(* Steps *)

Stage(r, s) == stage' = [stage EXCEPT ![r] = s]

Finish(r, s) ==
    /\ Stage(r, s)
    /\ want' = [want EXCEPT ![r] = Nothing]
    /\ body' = [body EXCEPT ![r] = Nothing]

\* forwardCompat converts the body before it asks for tokens.
Receive(r, w) ==
    /\ stage[r] \in {"idle", "refused"}
    /\ want' = [want EXCEPT ![r] = w]
    /\ IF w.entry # "chat" /\ AllDropped(w)
       THEN Stage(r, "refused") /\ body' = [body EXCEPT ![r] = Nothing]
       ELSE /\ Stage(r, "token")
            /\ body' = [body EXCEPT ![r] = IF w.entry = "chat" THEN w.body
                                                             ELSE DecodeRequest(w)]
    /\ UNCHANGED <<vars, overrides>>

\* EnsureFreshToken fails, or there is no login.
Unauthorized(r) ==
    /\ stage[r] = "token"
    /\ Finish(r, "idle")
    /\ UNCHANGED <<vars, overrides>>

Authorized(r) ==
    /\ stage[r] = "token"
    /\ Arrive(r, body[r].model)
    /\ Stage(r, "models")
    /\ UNCHANGED <<want, body, overrides>>

\* ensureModels; the client may leave, which fails the fetch.
EnsureModels(r) ==
    /\ stage[r] = "models"
    /\ FirstCheck(r) \/ Lock(r) \/ StartFetch(r) \/ SkipFetch(r) \/ EndFetch(r) \/ Strip(r)
    /\ UNCHANGED pathVars

\* Mutant of Send: the body is adapted to the model before that is replaced.
SendAdaptedEarly(r) ==
    /\ stage[r] = "models"
    /\ Forward(r)
    /\ ~(want[r].entry = "chat" /\ AllDropped(want[r]))
    /\ LET early == want[r].body.model IN
       body' = [body EXCEPT ![r] =
                  [Adapted(want[r], @, early, overrides[early]) EXCEPT !.model = name'[r]]]
    /\ Stage(r, "sent")
    /\ UNCHANGED <<want, overrides>>

Send(r) ==
    /\ stage[r] = "models"
    /\ Forward(r)
    /\ ~(want[r].entry = "chat" /\ AllDropped(want[r]))
    /\ body' = [body EXCEPT ![r] = Adapted(want[r], @, name'[r], overrides[name'[r]])]
    /\ Stage(r, "sent")
    /\ UNCHANGED <<want, overrides>>

\* forward looks at the tools only now.
Refuse(r) ==
    /\ stage[r] = "models"
    /\ Forward(r)
    /\ want[r].entry = "chat" /\ AllDropped(want[r])
    /\ body' = [body EXCEPT ![r] = Nothing]
    /\ Stage(r, "refused")
    /\ UNCHANGED <<want, overrides>>

\* The upstream answers, or cannot be reached.
Answer(r) ==
    /\ stage[r] = "sent"
    /\ Finish(r, "idle")
    /\ UNCHANGED <<vars, overrides>>

Process(r) == Unauthorized(r) \/ Authorized(r) \/ EnsureModels(r) \/ Send(r) \/ Refuse(r)

PathNext == \/ \E r \in Request : \/ \E w \in Wanted[r] : Receive(r, w)
                                  \/ Process(r) \/ Answer(r)
            \/ Tick /\ UNCHANGED pathVars

\* Handlers run; the requests of EnsureFreshToken and fetchModelIDs have timeouts, and a
\* Go mutex is handed to who waits longest.  Nothing bounds the upstream's answer.
PathSpec ==
    /\ PathInit /\ [][PathNext]_allVars
    /\ \A r \in Request :
          /\ WF_allVars(Process(r))
          /\ SF_allVars(Lock(r) /\ UNCHANGED pathVars)

----------------------------------------------------------------------------
(* Properties *)

\* What the models are known to refuse or to misread (docs/compatibility.md): a forced
\* tool for DeepSeek and for a streaming Kimi, a structure beside tools for both, a
\* temperature beside a structure for Kimi.  "auto" may stand for any of them.
Takes(family, b) ==
    /\ family = "deepseek" => b.tool_choice \notin Forced
    /\ family = "kimi" /\ b.stream => b.tool_choice \notin Forced
    /\ family \in {"deepseek", "kimi"} /\ b.tools # {} => ~b.response_format
    /\ family = "kimi" /\ b.response_format => b.temperature # "other"

TakenBy(b) ==
    IF Family[b.model] # "auto" THEN Takes(Family[b.model], b)
    ELSE \A family \in {"deepseek", "kimi"} : Takes(family, [b EXCEPT !.stream = TRUE])

\* What is sent fits the model that is named in it in the end, whatever model the client
\* asked for and whatever list was read in between, unless the configuration says that
\* this model takes more.  A tool_choice, a response_format or a temperature that this model
\* takes arrives as the client, or the conversion of its protocol, has set it, with two
\* exceptions.  A temperature that does not go with the structure that was asked for is
\* dropped even when that structure is dropped as well, because there are tools; and "auto"
\* gets no temperature beside a structure, though every model takes temperature one.
UpstreamBodyFits ==
    \A r \in Request : stage[r] = "sent" =>
        LET b == body[r]
            w == IF want[r].entry = "chat" THEN SanitizeChatTools(want[r].body)
                                           ELSE DecodeRequest(want[r])
            asked == [w EXCEPT !.model = b.model]
            keep == overrides[b.model]
        IN /\ keep \subseteq {"disable_thinking"} => TakenBy(b)
           /\ b.tool_choice # asked.tool_choice =>
                /\ b.tool_choice = "auto" /\ "keep_tool_choice" \notin keep
                /\ ~TakenBy([b EXCEPT !.tool_choice = asked.tool_choice])
           /\ b.response_format # asked.response_format =>
                /\ "keep_response_format" \notin keep
                /\ ~TakenBy([b EXCEPT !.response_format = TRUE, !.temperature = "one"])
           /\ b.temperature # asked.temperature =>
                /\ "keep_temperature" \notin keep /\ asked.response_format
                /\ \/ ~TakenBy([b EXCEPT !.temperature = asked.temperature,
                                         !.response_format = TRUE, !.tools = {}])
                   \/ Family[b.model] = "auto" /\ asked.temperature = "one"

\* The three entries refuse and send the same (docs/compatibility.md).  A request is refused
\* only if it has tools and no function with a name, and is never sent with none of the tools
\* it came with.  In another protocol that has the fields of the request, its fate and every
\* field would have been the same, but for what follows.  The chat entry passes on what
\* the conversions drop: functions without a name, a tool_choice without tools or of an
\* unknown form, the thinking mode; and the Responses entry alone drops the choice of a
\* built-in tool, although the tool itself is dropped by all of them.
EntriesAgree ==
    \A r \in Request :
        LET w == want[r].body
            model == body[r].model
            By(e) == [entry |-> e, body |-> w]
            Decoded(e) == IF e = "chat" THEN w ELSE DecodeRequest(By(e))
            Elsewhere(e) == Adapted(By(e), Decoded(e), model, overrides[model])
            Expressible(e) == e = "messages" => ~w.response_format
        IN /\ stage[r] = "refused" =>
                /\ w.tools # {} /\ "function" \notin w.tools
                /\ \A e \in Entry : \/ AllDropped(By(e))
                                    \/ e = "chat" /\ "unnamed" \in w.tools
           /\ stage[r] = "sent" =>
                /\ w.tools # {} => body[r].tools # {}
                /\ \A e \in Entry : Expressible(e) =>
                     LET chat == "chat" \in {e, want[r].entry}
                         responses == "responses" \in {e, want[r].entry}
                     IN IF AllDropped(By(e)) THEN chat /\ "unnamed" \in w.tools
                        ELSE \A field \in DOMAIN body[r] :
                               \/ body[r][field] = Elsewhere(e)[field]
                               \/ /\ field = "tools" /\ chat
                                  /\ {body[r].tools, Elsewhere(e).tools} =
                                        {{"function"}, {"function", "unnamed"}}
                               \/ /\ field = "tool_choice" /\ chat
                                  /\ w.tools = {} \/ w.tool_choice = "other"
                               \/ /\ field = "tool_choice" /\ responses
                                  /\ w.tool_choice = "builtin"
                               \/ /\ field = "thinking" /\ chat
                                  /\ w.thinking = "disabled"

\* A request is sent or refused, whatever becomes of the list of models: a fetch that
\* fails, takes its time or is cancelled with the request of another client keeps nobody
\* waiting for the lock.
RequestsGetThrough ==
    \A r \in Request :
        stage[r] \in {"token", "models"} ~> stage[r] \in {"sent", "refused", "idle"}

=============================================================================
