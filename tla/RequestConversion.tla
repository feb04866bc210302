------------------------- MODULE RequestConversion -------------------------
(***************************************************************************)
(* The history in a request becomes the messages of a Chat Completions     *)
(* request: anthropicMessageToChat (internal/compat/messages.go) converts  *)
(* one message of the Messages protocol at a time, responsesInputToChat    *)
(* (internal/compat/responses.go) folds the flat list of items of the      *)
(* Responses protocol.  Tool calls are numbers, texts sequences of         *)
(* fragments; an image is a fragment too.                                  *)
(***************************************************************************)
EXTENDS Integers, Sequences

\* The sequences of a sequence, one after the other.
Joined(ss) ==
    LET joined[i \in 0..Len(ss)] == IF i = 0 THEN <<>> ELSE joined[i - 1] \o ss[i]
    IN joined[Len(ss)]

\* chatMessage: `answers` is ToolCallID, and content <<>> a Content that is nil.
Message(role, content) ==
    [role |-> role, content |-> content, calls |-> <<>>, answers |-> 0, reasoning |-> <<>>]

ToolMessage(call, content) == [Message("tool", content) EXCEPT !.answers = call]

\* Models with thinking refuse a tool call without reasoning: a blank takes its place.
EnsureToolReasoning(reasoning) == IF reasoning = <<>> THEN <<0>> ELSE reasoning

\* What the upstream demands of a history: the results follow the calls at once, each
\* of them answers one, and a message with calls carries reasoning.
Accepted(h) ==
    LET Follows(j, i) == i < j /\ \A k \in (i + 1)..j : h[k].role = "tool" IN
    /\ \A i \in DOMAIN h : \A k \in DOMAIN h[i].calls :
            \E j \in DOMAIN h : h[j].answers = h[i].calls[k] /\ Follows(j, i)
    /\ \A j \in DOMAIN h : h[j].role = "tool" =>
            \E i \in DOMAIN h : \E k \in DOMAIN h[i].calls :
                h[j].answers = h[i].calls[k] /\ Follows(j, i)
    /\ \A i \in DOMAIN h : h[i].calls # <<>> => h[i].reasoning # <<>>

\* The words and the calls of the assistant, in order.
Said(h) == Joined([i \in DOMAIN h |-> IF h[i].role = "assistant" THEN h[i].content
                                      ELSE <<>>])

Called(h) == Joined([i \in DOMAIN h |-> h[i].calls])

----------------------------------------------------------------------------
(* Messages *)

OfType(blocks, types) ==
    LET chosen[i \in 0..Len(blocks)] ==
          IF i = 0 THEN <<>>
          ELSE IF blocks[i].type \in types THEN Append(chosen[i - 1], blocks[i])
          ELSE chosen[i - 1]
    IN chosen[Len(blocks)]

Texts(blocks) == Joined([i \in DOMAIN blocks |-> blocks[i].text])

Calls(blocks) == [i \in DOMAIN blocks |-> blocks[i].call]

AssistantMessage(blocks) ==
    LET text == Texts(OfType(blocks, {"text"}))
        thinking == Texts(OfType(blocks, {"thinking"}))
        calls == Calls(OfType(blocks, {"tool_use"}))
    IN IF text = <<>> /\ calls = <<>> THEN <<>>
       ELSE <<[Message("assistant", text) EXCEPT
                  !.calls = calls,
                  !.reasoning = IF calls = <<>> THEN thinking
                                ELSE EnsureToolReasoning(thinking)]>>

UserMessage(blocks) ==
    LET parts == Texts(OfType(blocks, {"text", "image"}))
    IN IF parts = <<>> THEN <<>> ELSE <<Message("user", parts)>>

\* Mutant of AnthropicMessageToChat: the order of the blocks is kept.
AnthropicMessageInOrder(m) ==
    LET results == OfType(m.blocks, {"tool_result"})
    IN (IF m.role = "assistant" THEN AssistantMessage(m.blocks) ELSE UserMessage(m.blocks))
         \o [i \in DOMAIN results |-> ToolMessage(results[i].call, results[i].text)]

\* Tool results come first whatever the order of the blocks; their images, which a tool
\* message cannot hold, follow in a message of their own.
AnthropicMessageToChat(m) ==
    LET results == OfType(m.blocks, {"tool_result"})
        images == Joined([i \in DOMAIN results |-> results[i].images])
    IN [i \in DOMAIN results |-> ToolMessage(results[i].call, results[i].text)]
         \o (IF m.role = "assistant" THEN AssistantMessage(m.blocks)
                                     ELSE UserMessage(m.blocks))
         \o (IF images = <<>> THEN <<>> ELSE <<Message("user", images)>>)

\* DecodeRequest's loop over the messages.
MessagesToChat(ms) == Joined([i \in DOMAIN ms |-> AnthropicMessageToChat(ms[i])])

----------------------------------------------------------------------------
(* Responses *)

NormalizeChatRole(role) ==
    CASE role = "" -> "user"
      [] role = "developer" -> "system"
      [] OTHER -> role

\* The last message has tool calls and no text yet.
Joinable(out) ==
    /\ out # <<>>
    /\ LET last == out[Len(out)]
       IN last.role = "assistant" /\ last.calls # <<>> /\ last.content = <<>>

\* A text of the assistant right after its calls joins their message.
AddMessage(s, item) ==
    LET role == NormalizeChatRole(item.role)
        msg == [Message(role, item.text) EXCEPT
                  !.reasoning = IF role = "assistant" THEN s.pending ELSE <<>>]
    IN IF item.text = <<>> THEN s
       ELSE IF role = "assistant" /\ Joinable(s.out)
            THEN [s EXCEPT !.out[Len(s.out)].content = item.text]
       ELSE [out |-> Append(s.out, msg),
             pending |-> IF role = "user" THEN <<>> ELSE s.pending]

\* Parallel calls share one message, as long as no text has joined it.
AddFunctionCall(s, item) ==
    LET msg == [Message("assistant", <<>>) EXCEPT
                  !.calls = <<item.call>>,
                  !.reasoning = EnsureToolReasoning(s.pending)]
    IN IF Joinable(s.out)
       THEN [s EXCEPT !.out[Len(s.out)].calls = Append(@, item.call)]
       ELSE [s EXCEPT !.out = Append(@, msg)]

AddFunctionCallOutput(s, item) ==
    [out |-> Append(s.out, ToolMessage(item.call, item.text)), pending |-> <<>>]

AddItem(s, item) ==
    CASE item.type = "message" -> AddMessage(s, item)
      [] item.type = "function_call" -> AddFunctionCall(s, item)
      [] item.type = "function_call_output" -> AddFunctionCallOutput(s, item)
      [] item.type = "reasoning" -> [s EXCEPT !.pending = item.text]

ResponsesInputToChat(items) ==
    LET read[i \in 0..Len(items)] ==
          IF i = 0 THEN [out |-> <<>>, pending |-> <<>>] ELSE AddItem(read[i - 1], items[i])
    IN read[Len(items)].out

=============================================================================
