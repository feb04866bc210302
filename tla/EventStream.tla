---------------------------- MODULE EventStream ----------------------------
(***************************************************************************)
(* What a client of a converted stream may rely on, whichever protocol it  *)
(* speaks.  A stream announces itself, then builds a list of blocks        *)
(* (content blocks in the Anthropic Messages protocol, output items in the *)
(* OpenAI Responses protocol): each block is opened once, at the next      *)
(* index, grows by deltas while it is open and is closed once.  The stream *)
(* ends exactly once, with every block closed, and is silent afterwards.   *)
(*                                                                         *)
(* The operators describe one emitted event each; `legal` remembers        *)
(* whether every event so far was one the protocol allows at that moment.  *)
(* Block i of the model is the one with index i - 1 on the wire.           *)
(* MessagesStream and ResponsesStream implement Spec.                      *)
(***************************************************************************)
EXTENDS Integers, Sequences

CONSTANTS
    Kind,     \* kinds of blocks
    Overlap   \* pairs of kinds whose blocks may be open at the same time

VARIABLE view

Outcome == {"completed", "incomplete", "failed"}

Phase == {"idle", "open"} \cup Outcome

\* A fragment is named by the number of the upstream chunk that carried it.
Block == [kind : Kind, open : BOOLEAN, frags : Seq(Nat)]

View == [phase : Phase, blocks : Seq(Block), legal : BOOLEAN]

Idle == [phase |-> "idle", blocks |-> <<>>, legal |-> TRUE]

OpenBlocks(v) == {i \in DOMAIN v.blocks : v.blocks[i].open}

----------------------------------------------------------------------------
(* Events *)

\* message_start, response.created
StartStream(v) ==
    [v EXCEPT !.phase = "open",
              !.legal = @ /\ v.phase = "idle"]

\* content_block_start, response.output_item.added
OpenBlock(v, i, k) ==
    [v EXCEPT !.blocks = Append(@, [kind |-> k, open |-> TRUE, frags |-> <<>>]),
              !.legal = /\ @
                        /\ v.phase = "open"
                        /\ i = Len(v.blocks) + 1
                        /\ \A j \in OpenBlocks(v) : <<v.blocks[j].kind, k>> \in Overlap]

\* content_block_delta, response.*.delta
Delta(v, i, fs) ==
    [v EXCEPT !.blocks[i].frags = @ \o fs,
              !.legal = @ /\ v.phase = "open" /\ i \in OpenBlocks(v)]

\* content_block_stop, response.output_item.done: the blocks of I, in any order
CloseBlocks(v, I) ==
    [v EXCEPT !.blocks = [j \in DOMAIN @ |-> IF j \in I THEN [@[j] EXCEPT !.open = FALSE]
                                                        ELSE @[j]],
              !.legal = @ /\ v.phase = "open" /\ I \subseteq OpenBlocks(v)]

\* message_stop, error, response.completed, response.incomplete, response.failed
EndStream(v, outcome) ==
    [v EXCEPT !.phase = outcome,
              !.legal = @ /\ v.phase = "open" /\ OpenBlocks(v) = {}]

----------------------------------------------------------------------------
(* What any run of legal events does to a client's view. *)

Appended(s, t) == /\ Len(s) <= Len(t)
                  /\ \A k \in 1..Len(s) : t[k] = s[k]

\* A closed block is frozen; an open one keeps its kind and only grows.
Grows(b, c) == /\ c.kind = b.kind
               /\ Appended(b.frags, c.frags)
               /\ b.open \/ c = b

Extends(v, w) ==
    /\ w.legal
    /\ Len(v.blocks) <= Len(w.blocks)
    /\ \A i \in 1..Len(v.blocks) : Grows(v.blocks[i], w.blocks[i])
    /\ v.phase # "idle" => w.phase # "idle"
    /\ v.phase \in Outcome => w = v
    /\ w.phase \in Outcome => OpenBlocks(w) = {}

Init == view = Idle

Next == view' \in View /\ Extends(view, view')

Spec == Init /\ [][Next]_view

=============================================================================
