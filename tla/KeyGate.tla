------------------------------ MODULE KeyGate -------------------------------
(***************************************************************************)
(* What the key cache promises its callers: requests are admitted against  *)
(* an installed set of grants, and every set that is installed is the set  *)
(* that is granted at that very moment.  The grants may change at any time *)
(* before they are installed, and an outage empties the installed set.     *)
(***************************************************************************)
CONSTANT Grants      \* everything that can be granted

VARIABLES
    granted,         \* the grants in force in the tables
    installed,       \* the grants requests are admitted against
    up               \* requests are admitted at all

gateVars == <<granted, installed, up>>

Init ==
    /\ granted = {}
    /\ installed = {}
    /\ up = TRUE

Change ==
    /\ granted' \in SUBSET Grants
    /\ UNCHANGED <<installed, up>>

Install ==
    /\ up
    /\ installed' = granted
    /\ UNCHANGED <<granted, up>>

Stop ==
    /\ up
    /\ up' = FALSE
    /\ installed' = {}
    /\ UNCHANGED granted

Start ==
    /\ ~up
    /\ up' = TRUE
    /\ installed' = granted
    /\ UNCHANGED granted

Next == Change \/ Install \/ Stop \/ Start

Spec == Init /\ [][Next]_gateVars

=============================================================================
