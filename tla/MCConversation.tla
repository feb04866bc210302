--------------------------- MODULE MCConversation ---------------------------
(***************************************************************************)
(* Two upstream tool calls.  Chunks as upstreams send them: one part each, *)
(* the first call in every form a tool call can take, the second with its  *)
(* name.  Answers in one piece with every finish reason and any            *)
(* combination of parts.                                                   *)
(***************************************************************************)
EXTENDS Conversation

MCTool == {0, 1}

Piece(r, c, tools, fin) == [reason |-> r, content |-> c, tools |-> tools, finish |-> fin]

Call(i, nm, a) == [index |-> i, name |-> nm, args |-> a]

ChunkPieces ==
    {Piece(TRUE, FALSE, <<>>, ""), Piece(FALSE, TRUE, <<>>, "")}
      \cup {Piece(FALSE, FALSE, <<Call(0, d[1], d[2])>>, "") :
              d \in {<<TRUE, FALSE>>, <<FALSE, TRUE>>, <<TRUE, TRUE>>}}
      \cup {Piece(FALSE, FALSE, <<Call(1, TRUE, TRUE)>>, "")}
      \cup {Piece(FALSE, FALSE, <<>>, fin) : fin \in {"stop", "length"}}

\* What an answer says, and what a client is to find in it.
Contents ==
    {[reason |-> r, content |-> FALSE, thought |-> "none", text |-> FALSE] : r \in BOOLEAN}
      \cup {[reason |-> TRUE, content |-> TRUE, thought |-> "none", text |-> TRUE]}
      \cup {[reason |-> FALSE, content |-> TRUE, thought |-> th, text |-> x] :
              th \in {"none", "blank", "words"}, x \in BOOLEAN}

WholeAnswers ==
    {[reason |-> c.reason, content |-> c.content, tools |-> tools, finish |-> fin,
      thought |-> c.thought, text |-> c.text] :
        c \in Contents,
        tools \in {<<>>, <<Call(0, TRUE, FALSE)>>,
                   <<Call(0, TRUE, TRUE), Call(1, TRUE, TRUE)>>},
        fin \in FinishReason}

\* TLC computes these sets once if the definitions the configuration names only
\* refer to them.
MCChunk == ChunkPieces

MCAnswer == WholeAnswers

=============================================================================
