---------------------------- MODULE TextFilters ----------------------------
(***************************************************************************)
(* The two filters of streamed text at the level of characters:            *)
(* thinkSplitter (compat/think.go), the streaming form of splitInlineThink, *)
(* and jsonObjectGate (compat/tool_arguments.go), the streaming form of    *)
(* normalizeToolArguments.  The upstream cuts a text into pieces wherever  *)
(* it likes; the machine below feeds the pieces of one text to one filter. *)
(*                                                                         *)
(* A character remembers the number of the piece it came in, so that every *)
(* push can be compared with what StreamInput says of fragments.  The one  *)
(* blank stands for all white space.  encoding/json is external: Object is *)
(* the set of texts it decodes to a JSON object.                           *)
(***************************************************************************)
EXTENDS Integers, SequencesExt

CONSTANTS
    Char,               \* characters
    OpenTag, CloseTag,  \* thinkOpenTag, thinkCloseTag
    Content,            \* texts an upstream may stream as content
    Arguments,          \* texts it may stream as the arguments of a tool
    Object,             \* texts of JSON objects, without blanks in their strings
    MaxPieces           \* bound on the pieces of a text

\* The characters the filters look for.
Blank == " "
Quote == "\""
Backslash == "\\"
Brace == "{"
Opening == {Brace, "["}
Closing == {"}", "]"}

ASSUME TextAssumption == /\ Content \cup Arguments \cup Object \subseteq Seq(Char)
                         /\ OpenTag \in Seq(Char) /\ Len(OpenTag) > 1
                         /\ CloseTag \in Seq(Char) /\ Len(CloseTag) > 1
                         /\ MaxPieces \in Nat

\* A closing tag begins with < and has no other.
ASSUME TagAssumption == \A i \in 2..Len(CloseTag) : CloseTag[i] # CloseTag[1]

VARIABLES
    kind,    \* which filter runs: "think" or "args"
    text,    \* the text the upstream sends
    pos,     \* how many of its characters were fed
    n,       \* in how many pieces
    filter,  \* thinkSplitter or jsonObjectGate
    out      \* what the filter has let through

vars == <<kind, text, pos, n, filter, out>>

----------------------------------------------------------------------------
(* Strings *)

Mark(s, i) == [k \in DOMAIN s |-> [ch |-> s[k], frag |-> i]]

Chars(s) == [k \in DOMAIN s |-> s[k].ch]

\* The pieces a string was made of.
Frags(s) ==
    LET frags[k \in 0..Len(s)] ==
          IF k = 0 THEN <<>>
          ELSE IF k # 1 /\ s[k].frag = s[k - 1].frag THEN frags[k - 1]
          ELSE Append(frags[k - 1], s[k].frag)
    IN frags[Len(s)]

From(s, k) == SubSeq(s, k, Len(s))

Solid(s) == {k \in DOMAIN s : s[k] # Blank}

\* How many blanks a text begins with.
Blanks(s) == IF Solid(s) = {} THEN Len(s) ELSE Min(Solid(s)) - 1

TrimLeft(s) == From(s, Blanks(s) + 1)

TrimRight(s) == IF Solid(s) = {} THEN <<>> ELSE SubSeq(s, 1, Max(Solid(s)))

TrimSpace(s) == TrimLeft(TrimRight(s))

\* TrimLeft of characters that remember their pieces
TrimPieces(s) == From(s, Blanks(Chars(s)) + 1)

\* strings.Index, 0 for -1
Find(s, tag) ==
    LET at == {k \in DOMAIN s : IsPrefix(tag, From(s, k))}
    IN IF at = {} THEN 0 ELSE Min(at)

----------------------------------------------------------------------------
(* think.go *)

NewThink == [state |-> "detecting", buf |-> <<>>]

Pushed(state, buf, reason, content) ==
    [filter |-> [state |-> state, buf |-> buf], reason |-> reason, content |-> content]

\* Mutant of OverlapSuffixLen: the last character that could begin the tag is let go.
OverlapSuffixShort(s, tag) ==
    LET ends == {k \in 1..(Len(tag) - 1) :
                   k <= Len(s) /\ From(s, Len(s) - k + 1) = SubSeq(tag, 1, k)}
    IN IF ends = {} THEN 0 ELSE Max(ends) - 1

\* The longest end of s that may be the beginning of the tag.
OverlapSuffixLen(s, tag) ==
    LET ends == {k \in 1..(Len(tag) - 1) :
                   k <= Len(s) /\ From(s, Len(s) - k + 1) = SubSeq(tag, 1, k)}
    IN IF ends = {} THEN 0 ELSE Max(ends)

\* Mutant of FeedInside: after </think> it is in a state push does not know.
FeedInsideClosed(held, s) ==
    LET buf == held \o s
        i == Find(Chars(buf), CloseTag)
        rest == TrimPieces(From(buf, i + Len(CloseTag)))
        cut == Len(buf) - OverlapSuffixLen(Chars(buf), CloseTag)
    IN IF i = 0 THEN Pushed("inside", From(buf, cut + 1), SubSeq(buf, 1, cut), <<>>)
       ELSE Pushed(IF rest = <<>> THEN "closed" ELSE "passthrough",
                   <<>>, SubSeq(buf, 1, i - 1), rest)

FeedInside(held, s) ==
    LET buf == held \o s
        i == Find(Chars(buf), CloseTag)
        rest == TrimPieces(From(buf, i + Len(CloseTag)))
        cut == Len(buf) - OverlapSuffixLen(Chars(buf), CloseTag)
    IN IF i = 0 THEN Pushed("inside", From(buf, cut + 1), SubSeq(buf, 1, cut), <<>>)
       ELSE Pushed(IF rest = <<>> THEN "afterClose" ELSE "passthrough",
                   <<>>, SubSeq(buf, 1, i - 1), rest)

\* Mutant of FeedDetecting: what is still undecided replaces what was buffered before.
FeedDetectingForgets(held, s) ==
    LET buf == held \o s
        trimmed == TrimPieces(buf)
    IN IF IsPrefix(OpenTag, Chars(trimmed))
       THEN FeedInside(<<>>, From(trimmed, Len(OpenTag) + 1))
       ELSE IF IsPrefix(Chars(trimmed), OpenTag) THEN Pushed("detecting", s, <<>>, <<>>)
       ELSE Pushed("passthrough", <<>>, <<>>, buf)

FeedDetecting(held, s) ==
    LET buf == held \o s
        trimmed == TrimPieces(buf)
    IN IF IsPrefix(OpenTag, Chars(trimmed))
       THEN FeedInside(<<>>, From(trimmed, Len(OpenTag) + 1))
       ELSE IF IsPrefix(Chars(trimmed), OpenTag) THEN Pushed("detecting", buf, <<>>, <<>>)
       ELSE Pushed("passthrough", <<>>, <<>>, buf)

FeedAfterClose(held, s) ==
    LET trimmed == TrimPieces(held \o s)
    IN IF trimmed = <<>> THEN Pushed("afterClose", held \o s, <<>>, <<>>)
       ELSE Pushed("passthrough", <<>>, <<>>, trimmed)

ThinkPush(t, s) ==
    CASE t.state = "detecting"   -> FeedDetecting(t.buf, s)
      [] t.state = "inside"      -> FeedInside(t.buf, s)
      [] t.state = "afterClose"  -> FeedAfterClose(t.buf, s)
      [] t.state = "passthrough" -> Pushed("passthrough", t.buf, <<>>, s)

ThinkFlush(t) == [reason  |-> IF t.state = "inside" THEN t.buf ELSE <<>>,
                  content |-> IF t.state = "detecting" THEN t.buf ELSE <<>>]

\* The same for a whole text.
SplitInlineThink(s) ==
    LET trimmed == TrimLeft(s)
        afterOpen == From(trimmed, Len(OpenTag) + 1)
        i == Find(afterOpen, CloseTag)
    IN IF ~IsPrefix(OpenTag, trimmed) THEN [reason |-> <<>>, content |-> s]
       ELSE IF i = 0 THEN [reason |-> TrimSpace(afterOpen), content |-> <<>>]
       ELSE [reason  |-> TrimSpace(SubSeq(afterOpen, 1, i - 1)),
             content |-> TrimLeft(From(afterOpen, i + Len(CloseTag)))]

----------------------------------------------------------------------------
(* encoding/json, as far as it is used *)

\* The object a text begins with, whatever follows it.
DecodeObject(s) == {o \in Object : IsPrefix(o, TrimLeft(s))}

Marshal(o) ==
    LET solid[i \in 0..Len(o)] ==
          IF i = 0 THEN <<>>
          ELSE IF o[i] = Blank THEN solid[i - 1] ELSE Append(solid[i - 1], o[i])
    IN solid[Len(o)]

\* One character after the quote a string literal begins with; str is the string so far,
\* without its escapes.
Read(r, c) ==
    CASE r.closed -> r
      [] ~r.closed /\ r.escaped -> [r EXCEPT !.escaped = FALSE, !.str = Append(@, c)]
      [] ~r.closed /\ ~r.escaped /\ c = Backslash -> [r EXCEPT !.escaped = TRUE]
      [] ~r.closed /\ ~r.escaped /\ c = Quote -> [r EXCEPT !.closed = TRUE]
      [] OTHER -> [r EXCEPT !.str = Append(@, c)]

\* The literal after each character of s.
Reading(s) ==
    LET read[i \in 0..Len(s)] ==
          IF i = 0 THEN [closed |-> FALSE, escaped |-> FALSE, str |-> <<>>]
          ELSE Read(read[i - 1], s[i])
    IN read

\* The string literal a text begins with.
DecodeString(s) ==
    LET t == TrimLeft(s)
        r == Reading(From(t, 2))[Len(t) - 1]
    IN IF t # <<>> /\ t[1] = Quote /\ r.closed THEN {r.str} ELSE {}

EmptyObject == <<Brace, "}">>

\* Where a text is in a string literal, after each of its characters: a literal ends at the
\* next quote that no backslash escapes.
Quoted(s) ==
    LET quoted[i \in 0..Len(s)] ==
          IF i = 0 THEN "no"
          ELSE CASE quoted[i - 1] = "no"     -> IF s[i] = Quote THEN "yes" ELSE "no"
                 [] quoted[i - 1] = "escape" -> "yes"
                 [] quoted[i - 1] = "yes"    -> IF s[i] = Backslash THEN "escape"
                                                ELSE IF s[i] = Quote THEN "no" ELSE "yes"
    IN quoted

\* How many brackets are open after each character of a text.
Nesting(s) ==
    LET nesting[i \in 0..Len(s)] ==
          IF i = 0 THEN 0
          ELSE CASE Quoted(s)[i - 1] = "no" /\ s[i] \in Opening -> nesting[i - 1] + 1
                 [] Quoted(s)[i - 1] = "no" /\ s[i] \in Closing -> nesting[i - 1] - 1
                 [] OTHER -> nesting[i - 1]
    IN nesting

\* JSON: an object begins with a brace and ends where that brace is closed; the brackets in
\* its strings do not count.  Without its blanks it is an object still.
ASSUME ObjectAssumption ==
    /\ EmptyObject \in Object
    /\ \A o \in Object :
          /\ o # <<>> /\ o[1] = Brace
          /\ \A i \in 1..Len(o) : Nesting(o)[i] = 0 <=> i = Len(o)
          /\ Marshal(o) \in Object

----------------------------------------------------------------------------
(* tool_arguments.go *)

FirstObject(s) ==
    IF DecodeObject(s) = {} THEN EmptyObject
    ELSE Marshal(CHOOSE o \in DecodeObject(s) : TRUE)

\* The object itself, or the object in the string a model has wrapped it in; the code
\* calls itself for the latter.
NormalizeToolArguments(s) ==
    LET inner == {TrimSpace(i) : i \in DecodeString(s)}
        wrapped == {i \in inner : i # <<>> /\ i[1] = Brace}
    IN IF DecodeObject(s) # {} \/ wrapped = {} THEN FirstObject(s)
       ELSE FirstObject(CHOOSE i \in wrapped : TRUE)

NewGate == [mode |-> "undecided", depth |-> 0, started |-> FALSE, done |-> FALSE,
            inString |-> FALSE, escaped |-> FALSE, pending |-> <<>>]

\* Mutant of Scan: braces in a string are counted.
ScanThroughStrings(g, c) ==
    CASE c = Brace -> [g EXCEPT !.depth = @ + 1, !.started = TRUE]
      [] c = "}" -> [g EXCEPT !.depth = @ - 1, !.done = g.started /\ g.depth - 1 <= 0]
      [] OTHER -> g

\* One character of a plain value.
Scan(g, c) ==
    CASE g.inString /\ g.escaped  -> [g EXCEPT !.escaped = FALSE]
      [] g.inString /\ ~g.escaped -> [g EXCEPT !.escaped = (c = Backslash), !.inString = (c # Quote)]
      [] ~g.inString /\ c = Quote  -> [g EXCEPT !.inString = TRUE]
      [] ~g.inString /\ c \in Opening -> [g EXCEPT !.depth = @ + 1, !.started = TRUE]
      [] ~g.inString /\ c \in Closing ->
            [g EXCEPT !.depth = @ - 1, !.done = g.started /\ g.depth - 1 <= 0]
      [] OTHER -> g

Passed(g, args, frags) == [filter |-> g, args |-> args, frags |-> frags]

\* The gate after each character of s; it stops at the end of the value.
Scanning(g, s) ==
    LET scan[i \in 0..Len(s)] ==
          IF i = 0 THEN g
          ELSE IF scan[i - 1].done THEN scan[i - 1] ELSE Scan(scan[i - 1], s[i])
    IN scan

\* What follows the value is dropped.
FilterPlain(g, s) ==
    LET scan == Scanning([g EXCEPT !.mode = "plain", !.pending = <<>>], Chars(s))
        ends == {i \in 0..Len(s) : scan[i].done}
        value == IF ends = {} THEN s ELSE SubSeq(s, 1, Min(ends))
    IN Passed(scan[Len(s)], Chars(value), Frags(value))

\* Nothing of a wrapped object may be sent before the string is complete.
FilterEncodedString(g, pending) ==
    LET inner == DecodeString(Chars(pending))
    IN IF inner = {}
       THEN Passed([g EXCEPT !.mode = "encoded", !.pending = pending], <<>>, <<>>)
       ELSE Passed([g EXCEPT !.mode = "encoded", !.pending = <<>>, !.done = TRUE],
                   NormalizeToolArguments(CHOOSE i \in inner : TRUE), Frags(pending))

GateFilter(g, s) ==
    LET buffered == g.pending \o s
        trimmed == TrimLeft(Chars(buffered))
    IN CASE g.done -> Passed(g, <<>>, <<>>)
         [] ~g.done /\ g.mode = "plain" -> FilterPlain(g, s)
         [] ~g.done /\ g.mode = "encoded" -> FilterEncodedString(g, buffered)
         [] ~g.done /\ g.mode = "undecided" ->
              IF trimmed = <<>> THEN Passed([g EXCEPT !.pending = buffered], <<>>, <<>>)
              ELSE IF trimmed[1] = Quote THEN FilterEncodedString(g, buffered)
              ELSE FilterPlain(g, buffered)

----------------------------------------------------------------------------
(* A text in pieces *)

Init ==
    /\ \/ kind = "think" /\ text \in Content /\ filter = NewThink
       \/ kind = "args" /\ text \in Arguments /\ filter = NewGate
    /\ pos = 0
    /\ n = 0
    /\ out = [reason |-> <<>>, content |-> <<>>, args |-> <<>>]

PushContent(s) ==
    LET p == ThinkPush(filter, s) IN
    /\ kind = "think"
    /\ filter' = p.filter
    /\ out' = [out EXCEPT !.reason = @ \o Chars(p.reason), !.content = @ \o Chars(p.content)]

PushArguments(s) ==
    LET p == GateFilter(filter, s) IN
    /\ kind = "args"
    /\ filter' = p.filter
    /\ out' = [out EXCEPT !.args = @ \o p.args]

\* The last piece takes what is left.
Push(k) ==
    LET piece == Mark(SubSeq(text, pos + 1, k), n + 1) IN
    /\ n < MaxPieces
    /\ n + 1 = MaxPieces => k = Len(text)
    /\ PushContent(piece) \/ PushArguments(piece)
    /\ pos' = k
    /\ n' = n + 1
    /\ UNCHANGED <<kind, text>>

Next == \E k \in (pos + 1)..Len(text) : Push(k)

Spec == Init /\ [][Next]_vars

----------------------------------------------------------------------------
(* Properties *)

Marked == [ch : Char, frag : 1..MaxPieces]

TypeOK ==
    /\ \/ /\ kind = "think"
          /\ filter \in [state : {"detecting", "inside", "afterClose", "passthrough"},
                         buf : Seq(Marked)]
       \/ /\ kind = "args"
          /\ filter \in [mode : {"undecided", "plain", "encoded"}, depth : Int,
                         started : BOOLEAN, done : BOOLEAN, inString : BOOLEAN,
                         escaped : BOOLEAN, pending : Seq(Marked)]
    /\ text \in Seq(Char)
    /\ pos \in 0..Len(text)
    /\ n \in 0..MaxPieces
    /\ out \in [reason : Seq(Char), content : Seq(Char), args : Seq(Char)]

Fed == Mark(SubSeq(text, 1, pos), 1)

\* Where the upstream cuts a text has no influence on what the client gets, nor on what
\* is held back for it: tags and JSON values that are cut in the middle included.
CutsDoNotMatter ==
    n > 0 =>
      IF kind = "think"
      THEN LET whole == ThinkPush(NewThink, Fed) IN
           /\ out.reason = Chars(whole.reason) /\ out.content = Chars(whole.content)
           /\ filter.state = whole.filter.state
           /\ filter.state # "afterClose" => Chars(filter.buf) = Chars(whole.filter.buf)
      ELSE LET whole == GateFilter(NewGate, Fed) IN
           /\ out.args = whole.args
           /\ [filter EXCEPT !.pending = Chars(@)] =
                [whole.filter EXCEPT !.pending = Chars(@)]

\* The thought and the text of a stream are those of a plain answer, up to the white space
\* around the thought.
ThoughtAgrees ==
    kind = "think" /\ pos = Len(text) =>
        LET rest == ThinkFlush(filter)
            plain == SplitInlineThink(text)
        IN /\ TrimSpace(out.reason \o Chars(rest.reason)) = plain.reason
           /\ out.content \o Chars(rest.content) = plain.content

\* The text holds an object, as it is or wrapped in one string.
HoldsObject(s) ==
    \/ DecodeObject(s) # {}
    \/ \E i \in DecodeString(s) : DecodeObject(i) # {}

\* The client parses the arguments it has put together: whenever the model sent an object,
\* bare, wrapped in a string or with garbage after it, they are that object and nothing
\* else, the one EncodeResponse would have given.
ArgumentsAgree ==
    kind = "args" /\ pos = Len(text) /\ HoldsObject(text) =>
        /\ TrimLeft(out.args) \in DecodeObject(out.args)
        /\ NormalizeToolArguments(out.args) = NormalizeToolArguments(text)

\* The client of a stream ends up with what the client of a plain answer gets, though the
\* stream is filtered piece by piece, in one pass, and the answer as a whole.
StreamAgreesWithPlain == ThoughtAgrees /\ ArgumentsAgree

Fragments == INSTANCE StreamInput WITH
                Tool <- {}, Chunk <- {}, Answer <- {}, MaxChunks <- 0

\* The stream encoders are checked with StreamInput, which knows only fragments and all
\* the outcomes a push may have: every push of real characters is one of them.
StreamInputCovers ==
    [][ LET piece == Mark(SubSeq(text, pos + 1, pos'), n')
            Held(f) == IF f.state \in {"detecting", "inside"} THEN Frags(f.buf) ELSE <<>>
            AbsThink(f) == [state |-> f.state, held |-> Held(f)]
            AbsGate(g) == [mode |-> g.mode, held |-> Frags(g.pending), done |-> g.done]
            p == ThinkPush(filter, piece)
            g == GateFilter(filter, piece)
        IN IF kind = "think"
           THEN [think |-> AbsThink(p.filter), reason |-> Frags(p.reason),
                 text |-> Frags(p.content)] \in Fragments!ThinkPush(AbsThink(filter), n')
           ELSE [gate |-> AbsGate(g.filter), args |-> g.frags]
                  \in Fragments!GateFilter(AbsGate(filter), n') ]_vars

=============================================================================
