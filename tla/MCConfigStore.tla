---------------------------- MODULE MCConfigStore ----------------------------
(***************************************************************************)
(* Two processes (each may be any command or the service, one after the     *)
(* other), two token pairs, two keys, one fallback model and two addresses. *)
(***************************************************************************)
EXTENDS ConfigStore, TLC

CONSTANTS p1, p2, m1, a1, a2

MCProcess == {p1, p2}

MCModel == {m1}

MCAddr == {a1, a2}

MCOneAddr == {a1}

Processes == Permutations(MCProcess)

=============================================================================
