--------------------------- MODULE MCTokenService ---------------------------
(***************************************************************************)
(* A request, the loop and the main goroutine; three pairs: one from a  *)
(* login, two from refreshes (or further logins).                          *)
(***************************************************************************)
EXTENDS TokenService

CONSTANT r1

MCRequest == {r1}

=============================================================================
