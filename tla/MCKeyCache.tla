----------------------------- MODULE MCKeyCache -----------------------------
(***************************************************************************)
(* KeyCache for TLC.  Clients, keys and admin requests are interchangeable *)
(* in every safety property, so the safety runs use their permutations.    *)
(***************************************************************************)
EXTENDS KeyCache, TLC

Symmetry ==
    Permutations(Clients) \cup Permutations(Keys) \cup Permutations(Handlers)

=============================================================================
