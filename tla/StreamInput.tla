---------------------------- MODULE StreamInput ----------------------------
(***************************************************************************)
(* What the two stream encoders make of upstream text before they emit it: *)
(* thinkSplitter (compat/think.go) separates an inline <think>...</think>  *)
(* from the text after it, jsonObjectGate (compat/tool_arguments.go) lets  *)
(* through the first JSON value of a tool's arguments.  Characters are     *)
(* abstracted: a fragment is the number of the chunk that carried it, and  *)
(* where the outcome depends on the characters the operators return the    *)
(* set of all outcomes.  A fragment that is cut in two by a tag appears on *)
(* both sides of the cut.                                                  *)
(***************************************************************************)
EXTENDS Integers, Sequences

CONSTANTS
    Tool,      \* indices of upstream tool calls
    Chunk,     \* shapes of the chunks of a streamed answer
    MaxChunks, \* bound on the chunks of one stream
    Answer     \* shapes of the answers the upstream gives in one piece

FinishReason == {"", "stop", "tool_calls", "length", "other"}

ToolDelta == [index : Tool, name : BOOLEAN, args : BOOLEAN]

\* Which parts a chunk or a whole answer has, and the finish reason it ends with.
ChunkShape == [reason : BOOLEAN, content : BOOLEAN, tools : Seq(ToolDelta),
               finish : FinishReason]

\* Of the content of a whole answer, unless the answer has a reasoning field as well:
\* whether it begins with a thought, which may be blank, and whether there is text.
AnswerShape == [reason : BOOLEAN, content : BOOLEAN, tools : Seq(ToolDelta),
                finish : FinishReason, thought : {"none", "blank", "words"}, text : BOOLEAN]

\* The tool calls of a whole answer have a name and are numbered by their position.
ASSUME ConstantsAssumption ==
    /\ Tool \subseteq Nat
    /\ Chunk \subseteq ChunkShape
    /\ Answer \subseteq AnswerShape
    /\ \A a \in Answer : \A i \in DOMAIN a.tools :
          a.tools[i].index = i - 1 /\ a.tools[i].name
    /\ MaxChunks \in Nat

\* Mutant of ChatJSONToSSE: a whole answer always ends with "stop".
ChatJSONAlwaysStops(a) ==
    [reason |-> a.reason, content |-> a.content, tools |-> a.tools, finish |-> "stop"]

\* The chunk that stands for a whole answer when the client asked for a stream.
ChatJSONToSSE(a) ==
    [reason |-> a.reason, content |-> a.content, tools |-> a.tools,
     finish |-> IF a.finish = "" THEN "stop" ELSE a.finish]

NoChunk == [tools |-> <<>>, finish |-> ""]

----------------------------------------------------------------------------

Think == [state : {"detecting", "inside", "afterClose", "passthrough"},
          held : Seq(Nat)]

NewThink == [state |-> "detecting", held |-> <<>>]

Split(state, held, reason, text) ==
    [think |-> [state |-> state, held |-> held], reason |-> reason, text |-> text]

\* Inside <think>: without a closing tag all or part of the buffer is emitted and
\* what may be the beginning of </think> is kept; with one, the rest is text.
FeedInside(held, f) ==
    LET buf == Append(held, f) IN
    {Split("inside", o.keep, o.emit, <<>>) :
        o \in {[emit |-> buf,  keep |-> <<>>], [emit |-> buf,  keep |-> <<f>>],
               [emit |-> held, keep |-> <<f>>], [emit |-> <<>>, keep |-> buf]}}
      \cup {Split("afterClose", <<>>, r, <<>>) : r \in {<<>>, held, buf}}
      \cup {Split("passthrough", <<>>, r, <<f>>) : r \in {<<>>, held, buf}}

\* Still undecided, no opening tag (the buffer is text after all), an opening tag
\* and nothing after it, an opening tag and more.
FeedDetecting(held, f) ==
    LET buf == Append(held, f) IN
    {Split("detecting", buf, <<>>, <<>>), Split("passthrough", <<>>, <<>>, buf),
     Split("inside", <<>>, <<>>, <<>>)}
      \cup FeedInside(<<>>, f)

\* White space between </think> and the text is dropped.
FeedAfterClose(f) ==
    {Split("afterClose", <<>>, <<>>, <<>>), Split("passthrough", <<>>, <<>>, <<f>>)}

ThinkPush(t, f) ==
    CASE t.state = "detecting"   -> FeedDetecting(t.held, f)
      [] t.state = "inside"      -> FeedInside(t.held, f)
      [] t.state = "afterClose"  -> FeedAfterClose(f)
      [] t.state = "passthrough" -> {Split("passthrough", <<>>, <<>>, <<f>>)}

\* An unclosed <think> is reasoning to its end; an undecided prefix is text.
ThinkFlush(t) ==
    [reason |-> IF t.state = "inside" THEN t.held ELSE <<>>,
     text   |-> IF t.state = "detecting" THEN t.held ELSE <<>>]

\* What the splitter makes of the content of a whole answer when it gets it as fragment f:
\* there is a thought or a text in what it emits, now or in the end, if there is one in
\* the content.  A blank thought has nothing in it that may be the beginning of </think>.
WholePush(t, f, a) ==
    {p \in ThinkPush(t, f) :
        LET rest == ThinkFlush(p.think) IN
        /\ p.reason \o rest.reason # <<>> <=> a.thought # "none"
        /\ p.text \o rest.text # <<>> <=> a.text
        /\ a.thought = "blank" => p.think.held = <<>>}

----------------------------------------------------------------------------

Gate == [mode : {"undecided", "plain", "encoded"}, held : Seq(Nat), done : BOOLEAN]

NewGate == [mode |-> "undecided", held |-> <<>>, done |-> FALSE]

Pass(mode, held, done, args) ==
    [gate |-> [mode |-> mode, held |-> held, done |-> done], args |-> args]

\* A doubly encoded argument string is held until it is complete.
FilterEncoded(buf) ==
    {Pass("encoded", buf, FALSE, <<>>), Pass("encoded", <<>>, TRUE, buf)}

GateFilter(g, f) ==
    LET buf == Append(g.held, f) IN
    CASE g.done -> {Pass(g.mode, g.held, TRUE, <<>>)}
      [] ~g.done /\ g.mode = "undecided" ->
            {Pass("undecided", buf, FALSE, <<>>)}
              \cup {Pass("plain", <<>>, done, buf) : done \in BOOLEAN}
              \cup FilterEncoded(buf)
      [] ~g.done /\ g.mode = "plain" -> {Pass("plain", <<>>, done, <<f>>) : done \in BOOLEAN}
      [] ~g.done /\ g.mode = "encoded" -> FilterEncoded(buf)

=============================================================================
