----------------------------- MODULE TurnRelay ------------------------------
(***************************************************************************)
(* What a relayed turn promises its client, whatever is retried behind it: *)
(* the client sees, in order and without gaps, the events of one upstream  *)
(* attempt only, and after at most one message of the proxy's own it sees  *)
(* nothing more.                                                           *)
(***************************************************************************)
EXTENDS Naturals, Sequences

CONSTANTS Events, Notices, None

VARIABLES
    stream,     \* what the current attempt has produced
    seen,       \* what the client has been sent of it
    notice,     \* the proxy's own message, or None
    open

vars == <<stream, seen, notice, open>>

Init == stream = <<>> /\ seen = <<>> /\ notice = None /\ open = TRUE

Active == open /\ notice = None

Produce ==
    /\ Active
    /\ \E e \in Events : stream' = Append(stream, e)
    /\ UNCHANGED <<seen, notice, open>>

Deliver ==
    /\ Active
    /\ Len(seen) < Len(stream)
    /\ seen' = Append(seen, stream[Len(seen) + 1])
    /\ UNCHANGED <<stream, notice, open>>

\* Another attempt, while the client knows nothing of this one.
Retry ==
    /\ Active
    /\ seen = <<>>
    /\ stream' = <<>>
    /\ UNCHANGED <<seen, notice, open>>

Tell ==
    /\ Active
    /\ notice' \in Notices
    /\ UNCHANGED <<stream, seen, open>>

Close ==
    /\ open
    /\ open' = FALSE
    /\ UNCHANGED <<stream, seen, notice>>

Next == Produce \/ Deliver \/ Retry \/ Tell \/ Close

Spec == Init /\ [][Next]_vars

=============================================================================
