------------------------- MODULE MCResponsesSocket --------------------------
(***************************************************************************)
(* TLC instances of ResponsesSocket.                                       *)
(***************************************************************************)
EXTENDS ResponsesSocket

=============================================================================
