---------------------------- MODULE MCHttpTurns -----------------------------
(***************************************************************************)
(* HttpTurns for TLC: two turns that compete for one connection of each    *)
(* pool, the smallest instance in which each can hold what the other waits *)
(* for.                                                                    *)
(***************************************************************************)
EXTENDS HttpTurns

=============================================================================
