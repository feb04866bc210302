--------------------------- MODULE MessagesStream ---------------------------
(***************************************************************************)
(* encodeAnthropicStream (internal/compat/messages_stream.go): the upstream *)
(* Chat Completions stream, read chunk by chunk, becomes the events of the  *)
(* Anthropic Messages protocol.                                             *)
(*                                                                         *)
(* `st` is anthropicStreamState together with the client's view of the      *)
(* events emitted so far; every method of the Go type is an operator from   *)
(* states to states, composed as the code composes it.  The generator       *)
(* goroutine runs them between two reads of the upstream: `pc` is its       *)
(* place, `chunk` what is left of the chunk being consumed.  `fed` and `up` *)
(* record what the upstream sent, for the properties only.                  *)
(***************************************************************************)
EXTENDS Integers, Sequences, StreamInput

LOCAL INSTANCE SequencesExt

MessageKind == {"thinking", "text", "tool_use"}

StopReason == {"", "end_turn", "tool_use", "max_tokens"}

VARIABLES pc, st, chunk, n, fed, up

vars == <<pc, st, chunk, n, fed, up>>

\* Tool calls may be open side by side; text and thinking exclude everything else.
Client == INSTANCE EventStream WITH
            Kind <- MessageKind,
            Overlap <- {<<"tool_use", "tool_use">>},
            view <- st.view

----------------------------------------------------------------------------
(* anthropicStreamState *)

ToolState == [seen : BOOLEAN,     \* the map has an entry for this index
              started : BOOLEAN, closed : BOOLEAN, named : BOOLEAN,
              block : Nat, pending : Seq(Nat), gate : Gate]

NewTool == [seen |-> FALSE, started |-> FALSE, closed |-> FALSE, named |-> FALSE,
            block |-> 0, pending |-> <<>>, gate |-> NewGate]

StreamState == [curKind : {"", "thinking", "text"}, curBlock : Nat, next : Nat,
                blockOpen : BOOLEAN, tools : [Tool -> ToolState],
                hasTools : BOOLEAN, stop : StopReason, sawReasoning : BOOLEAN,
                think : Think, err : BOOLEAN, view : Client!View]

NewStreamState == [curKind |-> "", curBlock |-> 0, next |-> 1, blockOpen |-> FALSE,
                   tools |-> [t \in Tool |-> NewTool],
                   hasTools |-> FALSE, stop |-> "", sawReasoning |-> FALSE,
                   think |-> NewThink, err |-> FALSE, view |-> Client!Idle]

\* s.started is set exactly where message_start is emitted.
EnsureStarted(s) ==
    IF s.view.phase # "idle" THEN s ELSE [s EXCEPT !.view = Client!StartStream(@)]

CloseBlock(s) ==
    IF ~s.blockOpen THEN s
    ELSE [s EXCEPT !.view = Client!CloseBlocks(@, {s.curBlock}),
                   !.blockOpen = FALSE,
                   !.curKind = ""]

OpenBlock(s, kind) ==
    [s EXCEPT !.view = Client!OpenBlock(@, s.next, kind),
              !.curBlock = s.next,
              !.next = @ + 1,
              !.blockOpen = TRUE,
              !.curKind = kind]

EmitDelta(s, i, fs) == IF fs = <<>> THEN s ELSE [s EXCEPT !.view = Client!Delta(@, i, fs)]

\* Mutant of StartToolBlock: the arguments buffered before the name are not flushed.
StartToolBlockNoFlush(s, t) ==
    LET c == CloseBlock(s)
    IN [c EXCEPT !.view = Client!OpenBlock(@, c.next, "tool_use"),
                 !.tools[t].block = c.next,
                 !.tools[t].started = TRUE,
                 !.tools[t].pending = <<>>,
                 !.next = @ + 1]

\* The block of a tool is opened late, once its name is known: the arguments that
\* came before the name are flushed into it.
StartToolBlock(s, t) ==
    LET c == CloseBlock(s)
        o == [c EXCEPT !.view = Client!OpenBlock(@, c.next, "tool_use"),
                       !.tools[t].block = c.next,
                       !.tools[t].started = TRUE,
                       !.tools[t].pending = <<>>,
                       !.next = @ + 1]
    IN EmitDelta(o, c.next, c.tools[t].pending)

SetClosed(tools, T) ==
    [t \in Tool |-> IF t \in T THEN [tools[t] EXCEPT !.closed = TRUE] ELSE tools[t]]

\* Tools that are still waiting for a name cannot become a block and are dropped;
\* every open tool block is closed and its tool marked, so that late deltas are ignored.
CloseTools(s) ==
    LET waiting == {t \in Tool : s.tools[t].seen /\ ~s.tools[t].started /\ ~s.tools[t].closed}
        late == {t \in waiting : s.tools[t].named}
        d == [s EXCEPT !.tools = SetClosed(@, waiting \ late)]
        o == IF late = {} THEN d ELSE FoldLeft(StartToolBlock, d, SetToSortSeq(late, <))
        open == {t \in Tool : o.tools[t].started /\ ~o.tools[t].closed}
    IN [o EXCEPT !.view = Client!CloseBlocks(@, {o.tools[t].block : t \in open}),
                 !.tools = SetClosed(@, open)]

\* Mutant of EmitInto: text starts beside the tool blocks that are still open.
EmitBesideTools(s, kind, fs) ==
    LET o == IF s.curKind = kind THEN s ELSE OpenBlock(CloseBlock(s), kind)
    IN EmitDelta(o, o.curBlock, fs)

\* emitReasoning and emitText
EmitInto(s, kind, fs) ==
    LET o == IF s.curKind = kind THEN s ELSE OpenBlock(CloseTools(CloseBlock(s)), kind)
    IN EmitDelta(o, o.curBlock, fs)

EmitReasoning(s, fs) == IF fs = <<>> THEN s ELSE EmitInto(s, "thinking", fs)

EmitText(s, fs) == IF fs = <<>> THEN s ELSE EmitInto(s, "text", fs)

----------------------------------------------------------------------------
(* consume, split at its loop over the tool calls *)

ConsumeReasoning(s, f) == EmitReasoning([s EXCEPT !.sawReasoning = TRUE], <<f>>)

ContentPushed(s, p) ==
    EmitText(EmitReasoning([s EXCEPT !.think = p.think], p.reason), p.text)

\* Once a reasoning field was seen, text is no longer searched for <think>.
ConsumeContent(s, f) ==
    IF s.sawReasoning THEN {EmitText(s, <<f>>)}
    ELSE {ContentPushed(s, p) : p \in ThinkPush(s.think, f)}

SeeTool(s, t) == [s EXCEPT !.hasTools = TRUE, !.tools[t].seen = TRUE]

\* A tool call that is still open: g is the outcome of the gate for its arguments.
ConsumeOpenTool(s, d, g) ==
    LET t == d.index
        m == [s EXCEPT !.tools[t].named = @ \/ d.name, !.tools[t].gate = g.gate]
        b == IF m.tools[t].started THEN m ELSE StartToolBlock(m, t)
    IN IF ~m.tools[t].started /\ ~m.tools[t].named
       THEN [m EXCEPT !.tools[t].pending = @ \o g.args]
       ELSE EmitDelta(b, b.tools[t].block, g.args)

ConsumeTool(s, d, f) ==
    LET gates == IF d.args THEN GateFilter(s.tools[d.index].gate, f)
                           ELSE {[gate |-> s.tools[d.index].gate, args |-> <<>>]}
    IN IF s.tools[d.index].closed THEN {SeeTool(s, d.index)}
       ELSE {ConsumeOpenTool(SeeTool(s, d.index), d, g) : g \in gates}

\* Mutant of AnthropicStopReason: the upstream's word is passed on.
StopReasonUnmapped(finish, hasTools) == finish

AnthropicStopReason(finish, hasTools) ==
    CASE finish = "tool_calls" -> "tool_use"
      [] finish = "length" -> "max_tokens"
      [] finish \in {"stop", ""} -> IF hasTools THEN "tool_use" ELSE "end_turn"
      [] OTHER -> "end_turn"

\* The residue of the splitter, unless a reasoning field switched it off.
FlushThink(s) ==
    LET r == ThinkFlush(s.think)
    IN IF s.sawReasoning THEN s
       ELSE EmitText(EmitReasoning([s EXCEPT !.think.held = <<>>], r.reason), r.text)

\* Mutant of FinishStream: an error counts only if no finish reason came.
FinishStreamByReason(s) ==
    LET b == EnsureStarted(s)
        c == CloseTools(CloseBlock(IF b.err THEN b ELSE FlushThink(b)))
    IN IF b.err /\ b.stop = "" THEN [c EXCEPT !.view = Client!EndStream(@, "failed")]
       ELSE [c EXCEPT !.stop = IF @ = "" THEN "end_turn" ELSE @,
                      !.view = Client!EndStream(@, "completed")]

FinishStream(s) ==
    LET b == EnsureStarted(s)
        c == CloseTools(CloseBlock(IF b.err THEN b ELSE FlushThink(b)))
    IN IF b.err THEN [c EXCEPT !.view = Client!EndStream(@, "failed")]
       ELSE [c EXCEPT !.stop = IF @ = "" THEN "end_turn" ELSE @,
                      !.view = Client!EndStream(@, "completed")]

----------------------------------------------------------------------------
(* The generator goroutine *)

Init ==
    /\ pc = "start"
    /\ st = NewStreamState
    /\ chunk = NoChunk
    /\ n = 0
    /\ fed = [t \in Tool |-> <<>>]
    /\ up = [ended |-> "no", error |-> FALSE, finish |-> "", late |-> FALSE,
             calls |-> "none", answer |-> <<>>]

\* message_start is sent before the upstream has answered.
Begin ==
    /\ pc = "start"
    /\ st' = EnsureStarted(st)
    /\ pc' = "scan"
    /\ UNCHANGED <<chunk, n, fed, up>>

\* A chunk with a choice (others change nothing): reasoning, then text.
Take(c) ==
    /\ pc = "scan"
    /\ n' = n + 1
    /\ LET b == EnsureStarted(st)
           r == IF c.reason THEN ConsumeReasoning(b, n + 1) ELSE b
       IN IF c.content THEN st' \in ConsumeContent(r, n + 1) ELSE st' = r
    /\ chunk' = [tools |-> c.tools, finish |-> c.finish]
    /\ pc' = IF c.tools = <<>> /\ c.finish = "" THEN "scan" ELSE "tools"
    /\ UNCHANGED fed

ReadChunk(c) ==
    /\ n < MaxChunks
    /\ up.answer = <<>>
    /\ Take(c)
    /\ UNCHANGED up

\* The upstream ignored that a stream was asked for and answered in one piece.
ReadAnswer(a) ==
    /\ n = 0
    /\ ~up.error
    /\ Take(ChatJSONToSSE(a))
    /\ a.content /\ ~a.reason =>
          \E p \in WholePush(st.think, n + 1, a) : st' = ContentPushed(st, p)
    /\ up' = [up EXCEPT !.answer = <<a>>]

\* Names that come when the tool is closed are too late.
Called(calls, d) ==
    IF d.name /\ ~st.tools[d.index].closed THEN "named"
    ELSE IF calls = "none" THEN "nameless" ELSE calls

ReadToolCall ==
    /\ pc = "tools"
    /\ chunk.tools # <<>>
    /\ LET d == Head(chunk.tools) IN
        /\ up' = [up EXCEPT !.late = TRUE, !.calls = Called(@, d)]
        /\ st' \in ConsumeTool(st, d, n)
        /\ fed' = IF d.args /\ ~st.tools[d.index].closed
                  THEN [fed EXCEPT ![d.index] = Append(@, n)] ELSE fed
    /\ chunk' = [chunk EXCEPT !.tools = Tail(@)]
    /\ UNCHANGED <<pc, n>>

ReadFinishReason ==
    /\ pc = "tools"
    /\ chunk.tools = <<>>
    /\ IF chunk.finish = "" THEN UNCHANGED <<st, up>>
       ELSE /\ st' = [st EXCEPT !.stop = AnthropicStopReason(chunk.finish, st.hasTools)]
            /\ up' = [up EXCEPT !.finish = chunk.finish, !.late = FALSE]
    /\ chunk' = NoChunk
    /\ pc' = "scan"
    /\ UNCHANGED <<n, fed>>

\* An error object in the stream; reading goes on.
ReadError ==
    /\ pc = "scan"
    /\ up.answer = <<>>
    /\ st' = [st EXCEPT !.err = TRUE]
    /\ up' = [up EXCEPT !.error = TRUE]
    /\ UNCHANGED <<pc, chunk, n, fed>>

\* [DONE] or the end of the body ("done"), or a read error: scanChatStream returns and
\* finish runs whatever it returned.
ReadEnd(how) ==
    /\ pc = "scan"
    /\ up.answer # <<>> => how = "done"
    /\ st' = FinishStream(st)
    /\ pc' = "closed"
    /\ up' = [up EXCEPT !.ended = how]
    /\ UNCHANGED <<chunk, n, fed>>

Next == \/ Begin
        \/ \E c \in Chunk : ReadChunk(c)
        \/ \E a \in Answer : ReadAnswer(a)
        \/ ReadToolCall
        \/ ReadFinishReason
        \/ ReadError
        \/ \E how \in {"done", "cut"} : ReadEnd(how)

Spec == Init /\ [][Next]_vars

----------------------------------------------------------------------------
(* Properties *)

\* finish is the last finish reason, late whether a tool call came after it, calls whether
\* there was a tool call, and one whose name came in time.
UpType == [ended : {"no", "done", "cut"}, error : BOOLEAN, finish : FinishReason,
           late : BOOLEAN, calls : {"none", "nameless", "named"}, answer : Seq(Answer)]

\* The states of the encoder have the types the Go structures give them.
TypeOK ==
    /\ pc \in {"start", "scan", "tools", "closed"}
    /\ st \in StreamState
    /\ chunk \in [tools : Seq(ToolDelta), finish : FinishReason]
    /\ n \in Nat
    /\ fed \in [Tool -> Seq(Nat)]
    /\ up \in UpType

Delivered(t) ==
    IF st.tools[t].started THEN st.view.blocks[st.tools[t].block].frags ELSE <<>>

\* The client appends argument deltas and never gets them corrected: what it got of
\* a tool, and what is buffered for it until its name or its closing quote arrives, is
\* what the upstream sent, in order and without a hole, up to the end of the first
\* JSON value.
ArgsAccounted ==
    \A t \in Tool :
        LET tool == st.tools[t]
            got == Delivered(t) \o tool.pending
        IN IF tool.gate.done THEN Client!Appended(got, fed[t])
           ELSE got \o tool.gate.held = fed[t]

\* Text reaches the client in the order it was sent, whatever came between, and no
\* piece of it twice.
TextInOrder ==
    LET b == st.view.blocks IN
    \A i, j \in {k \in DOMAIN b : b[k].kind = "text"} :
        \A k \in DOMAIN b[i].frags, l \in DOMAIN b[j].frags :
            (i < j \/ (i = j /\ k < l)) => b[i].frags[k] < b[j].frags[l]

\* An error the upstream reports inside the stream ends it as failed, even when
\* more chunks, a finish reason and [DONE] follow, and nothing else does.
ErrorsFailTheStream ==
    /\ up.error => st.view.phase # "completed"
    /\ st.view.phase = "failed" => up.error

\* A client runs the tools of a message only when its stop reason says so, and goes on
\* with a message only when the stop reason is that of a truncated one.
\* A tool call that is given a name in time reaches the client.  Of several finish reasons
\* the last counts, and a tool call that follows it comes too late for the stop reason.
\* There are two ways to be told of tools and find none: the upstream said "tool_calls"
\* and called none, or it never named the tools it called, and they were dropped.
StopReasonTold ==
    st.view.phase = "completed" =>
        LET used == \E i \in DOMAIN st.view.blocks : st.view.blocks[i].kind = "tool_use" IN
        /\ used <=> up.calls = "named"
        /\ st.stop = "max_tokens" <=> up.finish = "length"
        /\ used /\ up.finish \in {"stop", "tool_calls"} /\ ~up.late => st.stop = "tool_use"
        /\ st.stop = "tool_use" => used \/ up.finish = "tool_calls" \/ up.calls = "nameless"

\* The event sequence is one a client of the protocol can follow.
ImplementsEventStream == Client!Spec

\* sse.go says of scanChatStream that a read error is reported through the callback:
\* then a stream that was cut off would not be presented as complete.
CutIsNotCompleted == st.view.phase = "completed" => up.ended # "cut"

=============================================================================
