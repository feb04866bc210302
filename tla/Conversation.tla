---------------------------- MODULE Conversation ----------------------------
(***************************************************************************)
(* What becomes of an answer of StreamCodecs after its last event.  The    *)
(* client puts what was streamed to it into its history, runs the tools,   *)
(* and sends both back in its next request, which RequestConversion        *)
(* converts.  A client that wanted no stream gets the same answer in one   *)
(* piece: the code covers an upstream that answers so twice, by            *)
(* EncodeResponse for that client and by ChatJSONToSSE and the stream      *)
(* encoder for one that wanted a stream.  The operators here say what      *)
(* EncodeResponse makes of the answer, in the terms of the streamed one.   *)
(***************************************************************************)
EXTENDS StreamCodecs, RequestConversion

----------------------------------------------------------------------------
(* EncodeResponse *)

\* The thought is trimmed: nothing is left of a blank one.
SplitInlineThink(a) ==
    [reason |-> IF a.thought = "words" THEN {1} ELSE {}, text |-> IF a.text THEN {1} ELSE {}]

\* A reasoning field leaves the content as it is.
ResolveReasoning(a) ==
    IF a.reason THEN [reason |-> {1}, text |-> IF a.content THEN {1} ELSE {}]
    ELSE IF a.content THEN SplitInlineThink(a)
    ELSE [reason |-> {}, text |-> {}]

\* A block of an answer with the fragments it is made of; the arguments of a tool call
\* are compared at the level of characters, by TextFilters.
Part(kind, fs) == IF fs = {} THEN <<>> ELSE <<[kind |-> kind, frags |-> fs]>>

Parts(a, s, reasonKind, textKind, toolKind) ==
    Part(reasonKind, s.reason) \o Part(textKind, s.text)
      \o [i \in DOMAIN a.tools |-> [kind |-> toolKind, frags |-> {}]]

EncodeMessages(a, s) ==
    [parts |-> Parts(a, s, "thinking", "text", "tool_use"),
     end |-> Messages!AnthropicStopReason(a.finish, a.tools # <<>>)]

EncodeResponses(a, s) ==
    [parts |-> Parts(a, s, "reasoning", "message", "function_call"),
     end |-> IF a.finish = "length" THEN "incomplete" ELSE "completed"]

EncodeResponse(a) ==
    LET s == ResolveReasoning(a) IN
    IF protocol = "messages" THEN EncodeMessages(a, s) ELSE EncodeResponses(a, s)

----------------------------------------------------------------------------
(* The next request of a client of the Messages protocol *)

\* The assistant's message as the client assembled it from the events; a call is known
\* by the number of its block.
Assembled ==
    [role |-> "assistant",
     blocks |-> [i \in DOMAIN st.view.blocks |->
                    [type |-> st.view.blocks[i].kind,
                     text |-> IF st.view.blocks[i].kind = "tool_use" THEN <<>>
                              ELSE st.view.blocks[i].frags,
                     call |-> i,
                     images |-> <<>>]]]

\* The user's answer: a result for every call, with or without a picture, and a text,
\* which some clients put before the results.
Answers(blocks) ==
    LET uses == OfType(blocks, {"tool_use"})
        Results(pictures) == [i \in DOMAIN uses |->
            [uses[i] EXCEPT !.type = "tool_result", !.text = <<1>>, !.images = pictures]]
        word == <<[type |-> "text", text |-> <<2>>, call |-> 0, images |-> <<>>]>>
    IN {[role |-> "user", blocks |-> b] :
          b \in {Results(<<>>), word \o Results(<<3>>), Results(<<3>>) \o word}}

----------------------------------------------------------------------------
(* The next request of a client of the Responses protocol *)

\* An item of the history; a call is known by the number of its item.
Replayed(i) ==
    LET b == st.view.blocks[i] IN
    [type |-> b.kind,
     role |-> IF b.kind = "message" THEN "assistant" ELSE "",
     text |-> IF b.kind = "function_call" THEN <<>> ELSE b.frags,
     call |-> i]

\* The items as the terminal event lists them, and in the order of their done events:
\* tool items are done last.
Listed == [k \in DOMAIN st.final |-> Replayed(st.final[k].index)]

Finished == OfType(Listed, {"reasoning", "message"}) \o OfType(Listed, {"function_call"})

Request(items) ==
    LET calls == OfType(items, {"function_call"})
        outputs == [i \in DOMAIN calls |-> [calls[i] EXCEPT !.type = "function_call_output",
                                                            !.text = <<1>>]]
        question == <<[type |-> "message", role |-> "user", text |-> <<1>>, call |-> 0]>>
    IN question \o items \o outputs

----------------------------------------------------------------------------
(* Properties *)

\* Nothing but reasoning between two calls, and one text after them at most.
CallsTogether(items) ==
    LET visible == OfType(items, {"message", "function_call"}) IN
    \A i, j \in DOMAIN visible :
        /\ i < j
        /\ visible[i].type = "function_call"
        /\ visible[j].type = "message"
        => j = Len(visible)

AcceptedWhole(items) ==
    LET h == ResponsesInputToChat(Request(items)) IN
    /\ Accepted(h)
    /\ Said(h) = Texts(OfType(items, {"message"}))
    /\ Called(h) = Calls(OfType(items, {"function_call"}))

\* The upstream refuses a history whose tool results do not follow their calls: however
\* text, thinking and calls alternated in a streamed message, and wherever the client
\* puts its own words, the next request is converted to a history it accepts, with all
\* the words and calls of the answer in their order.
NextMessagesRequestIsAccepted ==
    st.view.phase = "completed" =>
        LET turn == Assembled
            said == MessagesToChat(<<turn>>)
        IN /\ \A answer \in Answers(turn.blocks) :
                Accepted(said \o MessagesToChat(<<answer>>))
           /\ Said(said) = Texts(OfType(turn.blocks, {"text"}))
           /\ Called(said) = Calls(OfType(turn.blocks, {"tool_use"}))

\* The same of a response that goes back in the order its items were finished in, or as
\* the terminal event lists them with the calls side by side.
NextResponsesRequestIsAccepted ==
    st.view.phase \in {"completed", "incomplete"} =>
        /\ AcceptedWhole(Finished)
        /\ CallsTogether(Listed) => AcceptedWhole(Listed)

\* A completed answer can go back to the upstream as history, with the results of its
\* tool calls.
NextRequestIsAccepted ==
    IF protocol = "messages" THEN NextMessagesRequestIsAccepted
                             ELSE NextResponsesRequestIsAccepted

\* What the client of a stream assembled from an answer that came in one piece.
Streamed ==
    [parts |-> [i \in DOMAIN st.view.blocks |->
                  LET b == st.view.blocks[i] IN
                  [kind |-> b.kind,
                   frags |-> IF b.kind \in {"tool_use", "function_call"} THEN {}
                             ELSE {b.frags[k] : k \in DOMAIN b.frags}]],
     end |-> IF protocol = "messages" THEN st.stop ELSE st.view.phase]

\* What the splitter still holds when the tool calls come: content that may yet become
\* <think>, or the end of an unclosed thought that may yet become </think>.
MayHold == ~st.sawReasoning /\ st.think.state \in {"detecting", "inside"}

\* The residue, which is of the thought or the text the answer begins with, follows the
\* tool calls; what was decided before it is in its place.
ResidueLast(parts, plain) ==
    plain # <<>> /\ parts \in {Append(plain, plain[1]), Append(Tail(plain), plain[1])}

\* An answer in one piece reaches the client of a stream with the parts, in the order and
\* with the stop reason or status that EncodeResponse would have given it, though the
\* encoder learns of the parts one by one.  There are two exceptions: what the splitter
\* could not decide on comes after the tool calls instead of before them, and a blank
\* thought, which EncodeResponse trims away, is streamed.
PlainAnswerAgrees ==
    up.answer # <<>> /\ pc = "closed" =>
        LET a == up.answer[1]
            plain == EncodeResponse(a)
            blank == Part(IF protocol = "messages" THEN "thinking" ELSE "reasoning", {1})
        IN /\ Streamed.end = plain.end
           /\ \/ Streamed.parts = plain.parts
              \/ MayHold /\ ResidueLast(Streamed.parts, plain.parts)
              \/ /\ a.content /\ ~a.reason /\ a.thought = "blank"
                 /\ Streamed.parts = blank \o plain.parts

\* responses_test.go states the upstream's strict rule: after a message with calls, and
\* before the next one of the assistant, there is a result for each of them.  Here it
\* is asked of every response, as the terminal event lists it.
ListedResponseIsAccepted ==
    protocol = "responses" /\ st.view.phase = "completed" =>
        Accepted(ResponsesInputToChat(Request(Listed)))

=============================================================================
