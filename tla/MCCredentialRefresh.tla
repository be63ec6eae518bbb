------------------------ MODULE MCCredentialRefresh -------------------------
(***************************************************************************)
(* TLC instances of CredentialRefresh.                                     *)
(***************************************************************************)
EXTENDS CredentialRefresh, TLC

Symmetry == Permutations(Requests) \cup Permutations(Admins)

=============================================================================
