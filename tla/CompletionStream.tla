-------------------------- MODULE CompletionStream --------------------------
(***************************************************************************)
(* What the client of a translated chat completion is promised, as its SDK *)
(* sees the chunks: the role first, tool calls numbered without gaps and   *)
(* each opened once, one end, and nothing after it.                        *)
(***************************************************************************)
EXTENDS Sequences

CONSTANT Calls      \* the tool calls an upstream can make

VARIABLES
    phase,          \* how far the stream is
    calls           \* the calls opened so far, in the order of their indices

streamVars == <<phase, calls>>

Begin == phase = "new" /\ calls = <<>>

Open ==
    /\ phase = "new"
    /\ phase' = "open"
    /\ UNCHANGED calls

OpenCall(c) ==
    /\ phase = "open"
    /\ \A i \in DOMAIN calls : calls[i] # c
    /\ calls' = Append(calls, c)
    /\ UNCHANGED phase

\* The finish chunk, then [DONE].
Finish ==
    /\ phase = "open"
    /\ phase' = "finished"
    /\ UNCHANGED calls

Complete ==
    /\ phase = "finished"
    /\ phase' = "done"
    /\ UNCHANGED calls

\* An error event, or an end that no finish chunk preceded.
Break ==
    /\ phase = "open"
    /\ phase' \in {"failed", "ended"}
    /\ UNCHANGED calls

NextStream ==
    /\ phase' = "new"
    /\ calls' = <<>>

Next ==
    \/ Open \/ Finish \/ Complete \/ Break \/ NextStream
    \/ \E c \in Calls : OpenCall(c)

Spec == Begin /\ [][Next]_streamVars
=============================================================================
