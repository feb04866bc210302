--------------------------- MODULE MCRequestPath ---------------------------
(***************************************************************************)
(* Two requests, one with every combination of fields that some policy or  *)
(* conversion looks at, the other plain.  The upstream has no model or two, *)
(* one of whose own names has the prefix "claude-", with the model behind   *)
(* the prefix beside it or not.                                             *)
(***************************************************************************)
EXTENDS RequestPath, TLC

CONSTANTS r1, r2, m1, m2

MCRequest == {r1, r2}

MCModel == {m1, m2}

Plain(m) == [alias |-> FALSE, model |-> m]

Alias(m) == [alias |-> TRUE, model |-> m]

MCLists == {<<>>, <<Plain(m1), Alias(m1)>>, <<Plain(m2), Alias(m1)>>}

MCFamily == [n \in Name |->
    CASE n.model = m1 -> "kimi"
      [] n = Plain(m2) -> "auto"
      [] n = Alias(m2) -> "other"]

MCOverrides ==
    {[n \in Name |-> IF n = Plain(m2) THEN {"keep_tool_choice", "disable_thinking"} ELSE {}]}

MCFallbacks == {NoName, Plain(m1)}

\* A body without anything special.
Simple(n) == [model |-> n, tools |-> {}, tool_choice |-> "unset", response_format |-> FALSE,
              temperature |-> "unset", stream |-> FALSE, thinking |-> "free"]

\* Tools that are refused or thinned out, a forced choice, a structure with a temperature.
Builtin == [Simple(Plain(m1)) EXCEPT !.tools = {"server"}]

Foreign == [Simple(Plain(m1)) EXCEPT !.tools = {"function", "unnamed"}, !.tool_choice = "other"]

Aimed == [Simple(Plain(m1)) EXCEPT !.tools = {"function", "server"}, !.tool_choice = "builtin"]

Structured(n) == [Simple(n) EXCEPT !.response_format = TRUE, !.temperature = "other"]

\* A choice without tools, a temperature every model takes.
Loose(n) == [Simple(n) EXCEPT !.tool_choice = "required", !.response_format = TRUE,
                              !.temperature = "one", !.thinking = "disabled"]

Forcing(n, f, s) ==
    [Simple(n) EXCEPT !.tools = {"function", "server"}, !.tool_choice = "named",
                      !.temperature = "other", !.response_format = f, !.stream = s]

MCWanted ==
    r1 :> {[entry |-> e, body |-> w] : e \in {"chat", "messages"}, w \in {Builtin, Foreign}}
          \cup {[entry |-> "messages", body |-> w] :
                  w \in {Aimed} \cup {Forcing(Plain(m), FALSE, TRUE) : m \in {m1, m2}}}
          \cup {[entry |-> "responses", body |-> w] :
                  w \in {Structured(Plain(m1)), Forcing(Plain(m2), TRUE, TRUE)}}
          \cup {[entry |-> "chat", body |-> w] :
                  w \in {Loose(Plain(m2)), Forcing(Plain(m1), TRUE, FALSE)}}
    @@ r2 :> {[entry |-> "chat", body |-> Simple(Alias(m))] : m \in {m1, m2}}

=============================================================================
