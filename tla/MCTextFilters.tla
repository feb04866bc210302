--------------------------- MODULE MCTextFilters ---------------------------
(***************************************************************************)
(* The tags are abbreviated to <t> and </t>.  Content: every sequence of   *)
(* up to five of the tags, a letter, a blank and a lone < that begins no   *)
(* tag.  Arguments: objects with braces, quotes and backslashes in their   *)
(* strings, bare or wrapped, with and without a blank before them and      *)
(* garbage or a second object after them; and texts that hold no object.   *)
(***************************************************************************)
EXTENDS TextFilters

LOCAL INSTANCE SequencesExt

MCChar == {"<", "/", "t", ">", "x", " ", "{", "}", "[", "]", "\"", "\\", ":"}

MCOpenTag == <<"<", "t", ">">>

MCCloseTag == <<"<", "/", "t", ">">>

Token == {MCOpenTag, MCCloseTag, <<"x">>, <<" ">>, <<"<">>}

MCContent == {FlattenSeq(s) : s \in BoundedSeq(Token, 5)}

\* {}, { } , {"}":{}} and {"\"":{}}
MCObject ==
    {<<"{", "}">>, <<"{", " ", "}">>,
     <<"{", "\"", "}", "\"", ":", "{", "}", "}">>,
     <<"{", "\"", "\\", "\"", "\"", ":", "{", "}", "}">>}

Escape(c) == IF c \in {"\"", "\\"} THEN <<"\\", c>> ELSE <<c>>

Wrap(o) == <<"\"">> \o FlattenSeq([i \in DOMAIN o |-> Escape(o[i])]) \o <<"\"">>

MCArguments ==
    {lead \o o \o tail :
        lead \in {<<>>, <<" ">>},
        o \in MCObject \cup {Wrap(o) : o \in MCObject} \cup {Wrap(<<" ">> \o o) : o \in MCObject},
        tail \in {<<>>, <<"x">>, <<"}">>, <<"{", "}">>, <<"\"">>}}
      \cup {Wrap(Wrap(o)) : o \in MCObject}
      \cup {<<"x">>, <<"[", "]">>, <<"\"", "x", "\"">>, <<"}", "{", "}">>, <<"{", "x">>}

=============================================================================
