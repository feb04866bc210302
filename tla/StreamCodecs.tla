---------------------------- MODULE StreamCodecs ----------------------------
(***************************************************************************)
(* The codecs of the two converted protocols over one upstream: the client *)
(* chooses the protocol by the path it calls, and the answer is read by    *)
(* MessagesStream or by ResponsesStream from then on.  What becomes of an  *)
(* answer after its last event is in Conversation.                         *)
(***************************************************************************)
EXTENDS StreamInput

VARIABLES protocol, pc, st, chunk, n, fed, up

vars == <<protocol, pc, st, chunk, n, fed, up>>

Messages == INSTANCE MessagesStream

Responses == INSTANCE ResponsesStream

\* The two protocols name their blocks differently, so one view serves both.
Client == INSTANCE EventStream WITH
            Kind <- Messages!MessageKind \cup Responses!ItemKind,
            Overlap <- {<<"tool_use", "tool_use">>}
                         \cup ({"function_call"} \X Responses!ItemKind),
            view <- st.view

Init == \/ protocol = "messages" /\ Messages!Init
        \/ protocol = "responses" /\ Responses!Init

MessagesStep == protocol = "messages" /\ Messages!Next /\ UNCHANGED protocol

ResponsesStep == protocol = "responses" /\ Responses!Next /\ UNCHANGED protocol

Next == MessagesStep \/ ResponsesStep

Spec == Init /\ [][Next]_vars

----------------------------------------------------------------------------
(* Properties *)

TypeOK == IF protocol = "messages" THEN Messages!TypeOK
                                   ELSE protocol = "responses" /\ Responses!TypeOK

\* However chunks with text, reasoning and several tool calls alternate, a client that
\* appends the deltas gets every tool's arguments in order and without a hole, and the
\* text in order and no piece of it twice.  The client that waits for the terminal event
\* of a Responses stream finds the same items listed there.
DeltasAddUp ==
    IF protocol = "messages"
    THEN Messages!ArgsAccounted /\ Messages!TextInOrder
    ELSE Responses!ArgsDelivered /\ Responses!TextInOrder /\ Responses!FinalListsWhatWasStreamed

\* The last event tells the client what the upstream said in whatever order it said it:
\* an error wins over finish reasons and [DONE] that follow it.  In a Responses stream a
\* "length" anywhere makes the answer an incomplete one.  In a Messages stream the last
\* finish reason counts: it alone says that the message is truncated, and it tells the
\* client to run the tools that were called before it, and of no tools where none were
\* called, with the exceptions StopReasonTold names.
EndTellsUpstream ==
    IF protocol = "messages" THEN Messages!ErrorsFailTheStream /\ Messages!StopReasonTold
                             ELSE Responses!OutcomeTellsUpstream

\* The events are ones a client of the protocol can follow, one legal block structure
\* for both protocols.
ImplementsEventStream == Client!Spec

\* sse.go on scanChatStream: a read error is reported through the callback.
CutIsNotCompleted == protocol = "messages" => Messages!CutIsNotCompleted

=============================================================================
