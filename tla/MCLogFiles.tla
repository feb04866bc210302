----------------------------- MODULE MCLogFiles -----------------------------
(***************************************************************************)
(* Two services that may be started at the same time, the backups the code *)
(* keeps, and a log of any length to begin with.                            *)
(***************************************************************************)
EXTENDS LogFiles

CONSTANTS s1, s2

MCService == {s1, s2}

=============================================================================
