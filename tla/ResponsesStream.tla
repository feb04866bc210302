-------------------------- MODULE ResponsesStream --------------------------
(***************************************************************************)
(* encodeResponsesStream (internal/compat/responses_stream.go): the same    *)
(* upstream chunks as in MessagesStream become the events of the OpenAI     *)
(* Responses protocol.  Here tool items stay open until the stream ends,    *)
(* beside at most one text or reasoning item, every done event repeats what *)
(* the deltas delivered, and the terminal event lists all finished items.   *)
(*                                                                         *)
(* An item is recorded with the fragments it is made of.  For a tool these  *)
(* are what normalizeToolArguments is applied to: the arguments printed in  *)
(* its done event are a function of them.                                   *)
(***************************************************************************)
EXTENDS Integers, Sequences, FiniteSets, StreamInput

ItemKind == {"reasoning", "message", "function_call"}

VARIABLES pc, st, chunk, n, fed, up

vars == <<pc, st, chunk, n, fed, up>>

\* Anything may be opened beside an open tool item, nothing beside another one.
Client == INSTANCE EventStream WITH
            Kind <- ItemKind,
            Overlap <- {"function_call"} \X ItemKind,
            view <- st.view

----------------------------------------------------------------------------
(* responsesStreamState *)

Item == [index : Nat, frags : Seq(Nat)]

ToolState == [seen : BOOLEAN, item : Nat, args : Seq(Nat)]

NewTool == [seen |-> FALSE, item |-> 0, args |-> <<>>]

StreamState == [cur : {"", "reasoning", "message"}, curItem : Nat, next : Nat,
                textBuf : Seq(Nat), reasonBuf : Seq(Nat),
                tools : [Tool -> ToolState], outputs : SUBSET Item,
                incomplete : BOOLEAN, sawReasoning : BOOLEAN, think : Think,
                err : BOOLEAN, final : Seq(Item), view : Client!View]

NewStreamState == [cur |-> "", curItem |-> 0, next |-> 1,
                   textBuf |-> <<>>, reasonBuf |-> <<>>,
                   tools |-> [t \in Tool |-> NewTool], outputs |-> {},
                   incomplete |-> FALSE, sawReasoning |-> FALSE, think |-> NewThink,
                   err |-> FALSE, final |-> <<>>, view |-> Client!Idle]

EnsureStarted(s) ==
    IF s.view.phase # "idle" THEN s ELSE [s EXCEPT !.view = Client!StartStream(@)]

\* s.outputs[i] = item
Record(outputs, i, fs) == {o \in outputs : o.index # i} \cup {[index |-> i, frags |-> fs]}

CloseCurrent(s) ==
    CASE s.cur = "reasoning" ->
            [s EXCEPT !.view = Client!CloseBlocks(@, {s.curItem}),
                      !.outputs = Record(@, s.curItem, s.reasonBuf),
                      !.reasonBuf = <<>>,
                      !.cur = ""]
      [] s.cur = "message" ->
            [s EXCEPT !.view = Client!CloseBlocks(@, {s.curItem}),
                      !.outputs = Record(@, s.curItem, s.textBuf),
                      !.textBuf = <<>>,
                      !.cur = ""]
      [] s.cur = "" -> s

\* openText and openReasoning
OpenCurrent(s, kind) ==
    [s EXCEPT !.view = Client!OpenBlock(@, s.next, kind),
              !.cur = kind,
              !.curItem = s.next,
              !.next = @ + 1]

OpenTool(s, t) ==
    LET c == CloseCurrent(s)
    IN [c EXCEPT !.view = Client!OpenBlock(@, c.next, "function_call"),
                 !.tools[t] = [seen |-> TRUE, item |-> c.next, args |-> <<>>],
                 !.next = @ + 1]

EmitReasoning(s, fs) ==
    LET o == IF s.cur = "reasoning" THEN s ELSE OpenCurrent(CloseCurrent(s), "reasoning")
    IN IF fs = <<>> THEN s
       ELSE [o EXCEPT !.view = Client!Delta(@, o.curItem, fs), !.reasonBuf = @ \o fs]

EmitText(s, fs) ==
    LET o == IF s.cur = "message" THEN s ELSE OpenCurrent(CloseCurrent(s), "message")
    IN IF fs = <<>> THEN s
       ELSE [o EXCEPT !.view = Client!Delta(@, o.curItem, fs), !.textBuf = @ \o fs]

\* Tool items are finished in the order they were opened in; the map is emptied.
CloseTools(s) ==
    LET open == {t \in Tool : s.tools[t].seen}
        items == {[index |-> s.tools[t].item, frags |-> s.tools[t].args] : t \in open}
    IN [s EXCEPT !.view = Client!CloseBlocks(@, {i.index : i \in items}),
                 !.outputs = {o \in @ : \A i \in items : o.index # i.index} \cup items,
                 !.tools = [t \in Tool |-> NewTool]]

OrderedOutputs(s) ==
    [k \in 1..Cardinality(s.outputs) |->
        CHOOSE o \in s.outputs :
            Cardinality({p \in s.outputs : p.index < o.index}) = k - 1]

----------------------------------------------------------------------------
(* consume, split at its loop over the tool calls *)

ConsumeReasoning(s, f) == EmitReasoning([s EXCEPT !.sawReasoning = TRUE], <<f>>)

ContentPushed(s, p) ==
    EmitText(EmitReasoning([s EXCEPT !.think = p.think], p.reason), p.text)

ConsumeContent(s, f) ==
    IF s.sawReasoning THEN {EmitText(s, <<f>>)}
    ELSE {ContentPushed(s, p) : p \in ThinkPush(s.think, f)}

ConsumeTool(s, d, f) ==
    LET o == IF s.tools[d.index].seen THEN s ELSE OpenTool(s, d.index)
    IN IF ~d.args THEN o
       ELSE [o EXCEPT !.tools[d.index].args = Append(@, f),
                      !.view = Client!Delta(@, o.tools[d.index].item, <<f>>)]

FlushThink(s) ==
    LET r == ThinkFlush(s.think)
        e == [s EXCEPT !.think.held = <<>>]
    IN IF s.sawReasoning THEN s
       ELSE IF r.reason # <<>> THEN EmitReasoning(e, r.reason)
       ELSE EmitText(e, r.text)

FinishStream(s) ==
    LET b == EnsureStarted(s)
        c == CloseTools(CloseCurrent(IF b.err THEN b ELSE FlushThink(b)))
        outcome == IF b.err THEN "failed"
                   ELSE IF c.incomplete THEN "incomplete" ELSE "completed"
    IN [c EXCEPT !.final = OrderedOutputs(c),
                 !.view = Client!EndStream(@, outcome)]

----------------------------------------------------------------------------
(* The generator goroutine *)

Init ==
    /\ pc = "start"
    /\ st = NewStreamState
    /\ chunk = NoChunk
    /\ n = 0
    /\ fed = [t \in Tool |-> <<>>]
    /\ up = [ended |-> "no", error |-> FALSE, length |-> FALSE, answer |-> <<>>]

\* response.created and response.in_progress are sent before the upstream answers.
Begin ==
    /\ pc = "start"
    /\ st' = EnsureStarted(st)
    /\ pc' = "scan"
    /\ UNCHANGED <<chunk, n, fed, up>>

\* A chunk with a choice: reasoning, then text.  A tool item is opened by its first
\* delta, whether that has the name or not.
Take(c) ==
    /\ pc = "scan"
    /\ n' = n + 1
    /\ LET b == EnsureStarted(st)
           r == IF c.reason THEN ConsumeReasoning(b, n + 1) ELSE b
       IN IF c.content THEN st' \in ConsumeContent(r, n + 1) ELSE st' = r
    /\ chunk' = [tools |-> [i \in DOMAIN c.tools |-> [c.tools[i] EXCEPT !.name = TRUE]],
                 finish |-> c.finish]
    /\ pc' = IF c.tools = <<>> /\ c.finish = "" THEN "scan" ELSE "tools"
    /\ UNCHANGED fed

ReadChunk(c) ==
    /\ n < MaxChunks
    /\ up.answer = <<>>
    /\ Take(c)
    /\ UNCHANGED up

\* The upstream ignored that a stream was asked for and answered in one piece.
ReadAnswer(a) ==
    /\ n = 0
    /\ ~up.error
    /\ Take(ChatJSONToSSE(a))
    /\ a.content /\ ~a.reason =>
          \E p \in WholePush(st.think, n + 1, a) : st' = ContentPushed(st, p)
    /\ up' = [up EXCEPT !.answer = <<a>>]

ReadToolCall ==
    /\ pc = "tools"
    /\ chunk.tools # <<>>
    /\ LET d == Head(chunk.tools) IN
        /\ st' = ConsumeTool(st, d, n)
        /\ fed' = IF d.args THEN [fed EXCEPT ![d.index] = Append(@, n)] ELSE fed
    /\ chunk' = [chunk EXCEPT !.tools = Tail(@)]
    /\ UNCHANGED <<pc, n, up>>

ReadFinishReason ==
    /\ pc = "tools"
    /\ chunk.tools = <<>>
    /\ st' = [st EXCEPT !.incomplete = @ \/ (chunk.finish = "length")]
    /\ up' = [up EXCEPT !.length = @ \/ (chunk.finish = "length")]
    /\ chunk' = NoChunk
    /\ pc' = "scan"
    /\ UNCHANGED <<n, fed>>

\* An error object in the stream; reading goes on.
ReadError ==
    /\ pc = "scan"
    /\ up.answer = <<>>
    /\ st' = [st EXCEPT !.err = TRUE]
    /\ up' = [up EXCEPT !.error = TRUE]
    /\ UNCHANGED <<pc, chunk, n, fed>>

\* [DONE] or the end of the body ("done"), or a read error: scanChatStream returns and
\* finish runs whatever it returned.
ReadEnd(how) ==
    /\ pc = "scan"
    /\ up.answer # <<>> => how = "done"
    /\ st' = FinishStream(st)
    /\ pc' = "closed"
    /\ up' = [up EXCEPT !.ended = how]
    /\ UNCHANGED <<chunk, n, fed>>

Next == \/ Begin
        \/ \E c \in Chunk : ReadChunk(c)
        \/ \E a \in Answer : ReadAnswer(a)
        \/ ReadToolCall
        \/ ReadFinishReason
        \/ ReadError
        \/ \E how \in {"done", "cut"} : ReadEnd(how)

Spec == Init /\ [][Next]_vars

----------------------------------------------------------------------------
(* Properties *)

TypeOK ==
    /\ pc \in {"start", "scan", "tools", "closed"}
    /\ st \in StreamState
    /\ chunk \in [tools : Seq(ToolDelta), finish : FinishReason]
    /\ n \in Nat
    /\ fed \in [Tool -> Seq(Nat)]
    /\ up \in [ended : {"no", "done", "cut"}, error : BOOLEAN, length : BOOLEAN,
               answer : Seq(Answer)]

\* A client may keep the deltas or wait for the terminal event: the items that
\* response.completed, incomplete or failed lists are the items that were streamed,
\* all of them, in the order of their indices, made of the same fragments.
FinalListsWhatWasStreamed ==
    st.view.phase \in Client!Outcome =>
        st.final = [i \in DOMAIN st.view.blocks |->
                      [index |-> i, frags |-> st.view.blocks[i].frags]]

\* Every argument fragment of a tool reaches its item, in order, also when the
\* fragments of several tools and text are interleaved.
ArgsDelivered ==
    \A t \in Tool : st.tools[t].seen =>
        /\ st.view.blocks[st.tools[t].item].kind = "function_call"
        /\ st.view.blocks[st.tools[t].item].frags = fed[t]

\* Text reaches the client in the order it was sent, and no piece of it twice.
TextInOrder ==
    LET b == st.view.blocks IN
    \A i, j \in {k \in DOMAIN b : b[k].kind = "message"} :
        \A k \in DOMAIN b[i].frags, l \in DOMAIN b[j].frags :
            (i < j \/ (i = j /\ k < l)) => b[i].frags[k] < b[j].frags[l]

\* How the stream ends tells the client what the upstream said: an error anywhere in
\* it wins over everything, a "length" anywhere over a normal completion.
OutcomeTellsUpstream ==
    st.view.phase \in Client!Outcome =>
        st.view.phase = IF up.error THEN "failed"
                        ELSE IF up.length THEN "incomplete" ELSE "completed"

\* The event sequence is one a client of the protocol can follow.
ImplementsEventStream == Client!Spec

=============================================================================
