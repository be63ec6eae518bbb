--------------------------- MODULE MCStatusProbe ----------------------------
(***************************************************************************)
(* TLC instances of StatusProbe: the thresholds of the code, and two       *)
(* origins so that one can fail while the other answers.                   *)
(***************************************************************************)
EXTENDS StatusProbe

=============================================================================
