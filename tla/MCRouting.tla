----------------------------- MODULE MCRouting ------------------------------
(***************************************************************************)
(* TLC instances of Routing.                                               *)
(***************************************************************************)
EXTENDS Routing, Naturals, TLC

CONSTANTS m1, m2, p1, a1, a2

AdminSymmetry == Permutations(Admins)

\* Two forms are open at once before the first list only, with one model.
OneFormWhileAsked ==
    \/ pc = "idle" /\ \E m \in Models : model[m] = NoRow
    \/ Cardinality({a \in Admins : task[a] # NoTask}) <= 1

Form(p, uri, harnesses, adminOnly) ==
    [provider |-> p, uri |-> uri, harnesses |-> harnesses,
     enabled |-> TRUE, adminOnly |-> adminOnly, measured |-> TRUE]

Serving(messages, responses, chat, enabled) ==
    [paths |-> [w \in Wires |-> CASE w = "anthropic_messages" -> messages
                                  [] w = "openai_responses" -> responses
                                  [] w = "chat_completions" -> chat
                                  [] w = "systemone" -> "none"],
     enabled |-> enabled]

MCAliasOf == [m \in Models |-> IF m = m2 THEN m1 ELSE NoModel]

MCCallers == [harness : {"codex", "dsh", Unnamed}, admin : {FALSE}]
             \cup [harness : {"hermes"}, admin : {TRUE}]

\* On the provider: for dsh alone with a stale URI, for claude without one.
MCModelForms ==
    {Form(p1, "messages", {"dsh"}, FALSE), Form(p1, "none", {"claude"}, FALSE)}

\* A Messages host with a vendor's own Responses path, on and off.
MCProviderForms ==
    {Serving("messages", "other", "none", enabled) : enabled \in BOOLEAN}

MCLegacyRows ==
    {[Form(NoProvider, "responses", {}, TRUE) EXCEPT !.measured = FALSE],
     Form(NoProvider, "messages", {"claude"}, FALSE)}

\* ollama, as 0009 leaves it: a systemone path beside the others.
MCSeededRows ==
    {[Serving("messages", "none", "chat", TRUE) EXCEPT !.paths["systemone"] = "other"]}

=============================================================================
