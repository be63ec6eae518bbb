--------------------------- MODULE MCConversation ----------------------------
(***************************************************************************)
(* Every kind of part, answers of up to three blocks, and requests         *)
(* whose ceilings lie on both sides of each limit.                         *)
(***************************************************************************)
EXTENDS Conversation

MCContents == {<<"text">>, <<"image", "text">>, <<"odd", "text">>, <<"empty">>, <<"text", "void">>}

MCShapes == {<<>>, <<"cut">>, <<"thinking", "text">>, <<"thinking", "tool_use">>,
             <<"tool_use", "tool_use">>, <<"text", "text", "tool_use">>}

Asked(wire, stream, effort, reasoning, ceiling, sampling) ==
    [wire |-> wire, stream |-> stream, effort |-> effort, reasoning |-> reasoning,
     ceiling |-> ceiling, sampling |-> sampling]

\* 5120 is the least ceiling under which the least budget fits.
MCRequests ==
    {Asked("responses", s, "high", "none", c, TRUE) : s \in BOOLEAN, c \in {9000}}
    \cup {Asked("anthropic", s, "none", "low", 0, TRUE) : s \in BOOLEAN}
    \cup {Asked("anthropic", FALSE, "minimal", "none", c, TRUE) : c \in {5119, 5120}}
    \cup {Asked("anthropic", FALSE, "xhigh", "none", c, TRUE) : c \in {0, 5121, 100000}}

=============================================================================
