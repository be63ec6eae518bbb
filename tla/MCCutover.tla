------------------------------ MODULE MCCutover ------------------------------
(* Cutover over four revisions of which the last adds no column. *)
EXTENDS Cutover

MCUnmarked == {4}

=============================================================================
