------------------------------ MODULE MCDaemon ------------------------------
(***************************************************************************)
(* Two terminals, two addresses, three services and three commands: a       *)
(* child that boots slowly, the service whose answer is taken for its own   *)
(* and the child of the next start.                                        *)
(***************************************************************************)
EXTENDS Daemon, TLC

CONSTANTS o1, o2, a1, a2

MCOperator == {o1, o2}

MCAddr == {a1, a2}

Symmetry == Permutations(MCOperator) \cup Permutations(MCAddr)

=============================================================================
