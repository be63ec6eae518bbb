----------------------------- MODULE MCChatTurn -----------------------------
(***************************************************************************)
(* ChatTurn for TLC: two tool calls whose fragments can interleave, counts *)
(* that can grow and shrink, and streams long enough for both calls, their *)
(* arguments, a usage report and an end.                                   *)
(***************************************************************************)
EXTENDS ChatTurn

=============================================================================
