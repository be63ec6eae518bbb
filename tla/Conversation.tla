---------------------------- MODULE Conversation -----------------------------
(***************************************************************************)
(* A dialogue over the chat completions route.  The caller keeps it in     *)
(* chat messages and sends all of them with each request; the proxy puts   *)
(* them into the words of the upstream, which is another one whenever the  *)
(* caller names another model: Anthropic Messages (chat_to_anthropic.py)   *)
(* or Responses (chat_completions.py), and puts the answer back.           *)
(*                                                                         *)
(* A text, an image, a call or its result is told from another one by its  *)
(* id, a sequence of serial numbers: joined texts are joined ids.          *)
(***************************************************************************)
EXTENDS Integers, Sequences, SequencesExt, FiniteSets

CONSTANTS
    Contents,   \* what the caller may say: sequences of kinds of parts
    Shapes,     \* what a model may answer: sequences of kinds of blocks
    Requests,   \* the other fields of a request
    MaxSerial   \* bound: things said in a dialogue

VARIABLES
    dialogue,   \* what was said, each with the chat message that keeps it
    pending,    \* calls whose result the caller does not have yet
    phase,      \* whose turn it is
    request,    \* the fields of the request being answered
    sent,       \* what the upstream was sent
    serial      \* the last serial number

dialogueVars == <<dialogue, pending, phase, request, sent, serial>>

\* Parts: a text, one of no known type that carries text, an empty one, an
\* image, and one that carries nothing that could be sent.
PartKinds == {"text", "odd", "empty", "image", "void"}

\* Blocks a model answers with; the arguments of a "cut" call do not parse,
\* which only those of a call that came as a string can fail to do.
CallKinds == {"tool_use", "cut"}
BlockKinds == {"thinking", "text"} \cup CallKinds

ASSUME ContentsAssumption == Contents \subseteq Seq(PartKinds)
ASSUME ShapesAssumption == Shapes \subseteq Seq(BlockKinds)

\* What is made of each element of a sequence, one after the other.
Gather(Made(_), seq) == FlattenSeq([i \in DOMAIN seq |-> Made(seq[i])])

Block(type, id) == [type |-> type, id |-> id]
Of(types, blocks) == Gather(LAMBDA b : IF b.type \in types THEN <<b>> ELSE <<>>, blocks)
Ids(blocks) == {blocks[i].id : i \in DOMAIN blocks}

Nothing == [system |-> <<>>, turns |-> <<>>, max_tokens |-> 0, thinking |-> 0, sampling |-> FALSE]
NoRequest == [wire |-> "none", stream |-> FALSE, effort |-> "none", reasoning |-> "none",
              ceiling |-> 0, sampling |-> FALSE]

\* The texts of a known type read as one text; every other part is dropped.
Joined(parts) ==
    LET texts == Of({"text"}, parts)
    IN  IF texts = <<>> THEN <<>>
        ELSE <<Block("text", Gather(LAMBDA p : p.id, texts))>>

Message(role, content) ==
    [role |-> role, content |-> content, tool_calls |-> <<>>,
     reasoning_content |-> <<>>, reasoning_details |-> <<>>]

History == [i \in DOMAIN dialogue |-> dialogue[i].chat]

-----------------------------------------------------------------------------
(* A chat completions request as a Messages request *)

\* A part of no known type has its text kept; an empty text is left out.
_content_blocks(parts) ==
    Gather(LAMBDA p : CASE p.type = "empty" -> <<>>
                        [] p.type = "odd" -> <<Block("text", p.id)>>
                        [] OTHER -> <<p>>, parts)

\* Mutant: a call whose arguments do not parse is dropped.
ParsedCalls(calls) == Of({"tool_use"}, calls)

\* Arguments that do not parse are carried as they are.
_tool_use_blocks(calls) == calls

IsResults(turn) ==
    turn.role = "user" /\ \A i \in DOMAIN turn.blocks : turn.blocks[i].type = "tool_result"

Said(turns, role, blocks) ==
    IF blocks = <<>> THEN turns ELSE Append(turns, [role |-> role, blocks |-> blocks])

\* A result is sent as its text: its images and unknown parts are dropped.
_tool_result_block(m) == [m.content[1] EXCEPT !.parts = Joined(@)]

\* Mutant: each result opens a turn of its own.
AnswerAlone(turns, m) == Said(turns, "user", <<_tool_result_block(m)>>)

\* Results that follow each other are one turn of the user.
AddResult(turns, m) ==
    IF turns # <<>> /\ IsResults(Last(turns))
    THEN Append(Front(turns), [Last(turns) EXCEPT !.blocks = Append(@, _tool_result_block(m))])
    ELSE Said(turns, "user", <<_tool_result_block(m)>>)

AddMessage(turns, m) ==
    CASE m.role = "system" -> turns
      [] m.role = "tool" -> AddResult(turns, m)
      [] OTHER -> Said(turns, m.role,
                       m.reasoning_details \o _content_blocks(m.content)
                                           \o _tool_use_blocks(m.tool_calls))

DEFAULT_MAX_TOKENS == 8192
THINKING_HEADROOM == 4096
MIN_THINKING_BUDGET == 1024
THINKING_BUDGETS ==
    [none |-> 0, minimal |-> 1024, low |-> 4096, medium |-> 8192, high |-> 16384, xhigh |-> 32768]

\* The other fields of a request: an effort that names no budget is "none", a
\* ceiling that is not named is 0.
Request == [wire : {"anthropic", "responses"}, stream : BOOLEAN,
            effort : DOMAIN THINKING_BUDGETS, reasoning : DOMAIN THINKING_BUDGETS,
            ceiling : Int, sampling : BOOLEAN]

ASSUME RequestsAssumption == Requests \subseteq Request

\* reasoning_effort, or reasoning.effort where the first names no budget.
_thinking_for(q) ==
    IF THINKING_BUDGETS[q.effort] # 0 THEN THINKING_BUDGETS[q.effort]
                                      ELSE THINKING_BUDGETS[q.reasoning]

\* Mutant: the budget is fitted under the ceiling without its headroom.
FittedExactly(wanted, ceiling) ==
    LET budget == IF wanted < ceiling THEN wanted ELSE ceiling
    IN  IF budget < MIN_THINKING_BUDGET THEN 0 ELSE budget

\* A ceiling of the caller's own is kept, and the budget fitted under it.
Fitted(wanted, ceiling) ==
    LET room == ceiling - THINKING_HEADROOM
        budget == IF wanted < room THEN wanted ELSE room
    IN  IF budget < MIN_THINKING_BUDGET THEN 0 ELSE budget

Raised(budget) ==
    IF budget + THINKING_HEADROOM > DEFAULT_MAX_TOKENS THEN budget + THINKING_HEADROOM
                                                       ELSE DEFAULT_MAX_TOKENS

Limits(q) ==
    LET wanted == _thinking_for(q)
        budget == IF q.ceiling = 0 \/ wanted = 0 THEN wanted ELSE Fitted(wanted, q.ceiling)
    IN  [max_tokens |-> IF q.ceiling # 0 THEN q.ceiling
                        ELSE IF wanted # 0 THEN Raised(wanted) ELSE DEFAULT_MAX_TOKENS,
         thinking |-> budget,
         sampling |-> q.sampling /\ budget = 0]

Instructions(Put(_)) ==
    Gather(LAMBDA m : IF m.role = "system" THEN Put(m.content) ELSE <<>>, History)

transform_to_anthropic_messages(q) ==
    [system |-> Instructions(Joined),
     turns |-> FoldLeft(AddMessage, <<>>, History),
     max_tokens |-> Limits(q).max_tokens,
     thinking |-> Limits(q).thinking,
     sampling |-> Limits(q).sampling]

-----------------------------------------------------------------------------
(* The same as a Responses request *)

\* A content that is a string, which here is one text, may be empty.
IsString(parts) == Len(parts) = 1 /\ parts[1].type \in {"text", "empty"}

\* A string is an instruction as it is; a list is sent as it stands when it is
\* alone, and formatted into the others otherwise.
Formatted(parts) ==
    IF IsString(parts) THEN Joined(parts)
                       ELSE <<Block("raw", Gather(LAMBDA p : p.id, parts))>>

\* A call and a result are items of their own; parts are only spelled anew. A
\* message without calls is passed on whole, its thinking with it, which is
\* here told once though it may be in two of the message's fields.
InputItems(m) ==
    LET Items(blocks) == [i \in DOMAIN blocks |-> [role |-> m.role, blocks |-> <<blocks[i]>>]]
    IN  CASE m.role = "tool" -> Items(m.content)
          [] m.tool_calls # <<>> ->
                Said(<<>>, m.role, m.content) \o Items(m.tool_calls)
          [] OTHER -> <<[role |-> m.role, blocks |-> m.reasoning_content \o m.content]>>

_responses_input_items ==
    Gather(LAMBDA m : IF m.role = "system" THEN <<>> ELSE InputItems(m), History)

transform_to_responses_format(q) ==
    [system |-> Instructions(Formatted), turns |-> _responses_input_items,
     max_tokens |-> q.ceiling, thinking |-> 0, sampling |-> q.sampling]

-----------------------------------------------------------------------------
(* An answer as a chat message *)

AnswerMessage(blocks, details) ==
    [role |-> "assistant", content |-> Joined(blocks), tool_calls |-> Of(CallKinds, blocks),
     reasoning_content |-> Of({"thinking"}, blocks), reasoning_details |-> details]

\* The thinking blocks ride out whole; a Responses answer has none to keep.
transform_anthropic_to_completions(blocks) == AnswerMessage(blocks, Of({"thinking"}, blocks))

\* What an SDK puts together from the chunks, which carry the text of the
\* thinking but no block of it.
Assembled(blocks) == AnswerMessage(blocks, <<>>)

-----------------------------------------------------------------------------
(* The dialogue *)

DialogueInit ==
    /\ dialogue = <<>>
    /\ pending = {}
    /\ phase = "caller"
    /\ request = NoRequest
    /\ sent = Nothing
    /\ serial = 0

Keep(said, whole, chat, n) ==
    /\ serial + n <= MaxSerial
    /\ serial' = serial + n
    /\ dialogue' = Append(dialogue, [said |-> said, whole |-> whole, chat |-> chat])

New(kinds) == [i \in DOMAIN kinds |-> Block(kinds[i], <<serial + i>>)]

\* A system or developer message, wherever the caller puts it.
Instruct ==
    /\ phase = "caller" /\ pending = {}
    /\ \E kinds \in Contents :
         Keep(New(kinds), FALSE, Message("system", New(kinds)), Len(kinds))
    /\ UNCHANGED <<pending, phase, request, sent>>

Say ==
    /\ phase = "caller" /\ pending = {}
    /\ \E kinds \in Contents :
         Keep(New(kinds), FALSE, Message("user", New(kinds)), Len(kinds))
    /\ UNCHANGED <<pending, phase, request, sent>>

\* Results come in the order in which the caller's tools are done.
Return ==
    /\ phase = "caller"
    /\ \E id \in pending, kinds \in Contents :
         LET result == <<[type |-> "tool_result", id |-> id, parts |-> New(kinds)]>> IN
         /\ Keep(result, FALSE, Message("tool", result), Len(kinds))
         /\ pending' = pending \ {id}
    /\ UNCHANGED <<phase, request, sent>>

\* A part that a wire has no words for is refused; those of an instruction or
\* of a result are not looked at.
Unsayable(wire) == IF wire = "anthropic" THEN {"void"} ELSE {"void", "odd"}
CanSend(wire, m) == m.role = "system" \/ Of(Unsayable(wire), m.content) = <<>>
Sendable(wire, entries) ==
    Gather(LAMBDA e : IF CanSend(wire, e.chat) THEN <<e>> ELSE <<>>, entries)
Translatable(wire) == \A i \in DOMAIN History : CanSend(wire, History[i])

Asks ==
    /\ phase = "caller" /\ pending = {}
    /\ dialogue # <<>>
    /\ Last(History).role \in {"user", "tool"}

Ask ==
    /\ \E q \in Requests :
         /\ Asks /\ Translatable(q.wire)
         /\ request' = q
         /\ sent' = IF q.wire = "anthropic" THEN transform_to_anthropic_messages(q)
                                            ELSE transform_to_responses_format(q)
    /\ phase' = "model"
    /\ UNCHANGED <<dialogue, pending, serial>>

\* UntranslatableRequest: the caller gets a 400 and takes the message back.
Refuse ==
    /\ \E q \in Requests :
         /\ Asks /\ ~Translatable(q.wire)
         /\ dialogue' = Sendable(q.wire, dialogue)
    /\ UNCHANGED <<pending, phase, request, sent, serial>>

Reply ==
    /\ phase = "model"
    /\ \E kinds \in Shapes :
         LET blocks == New(kinds)
             whole == request.wire = "anthropic" /\ ~request.stream
         IN
         /\ "thinking" \in ToSet(kinds) => sent.thinking # 0
         /\ "cut" \in ToSet(kinds) => ~whole
         /\ Keep(blocks, whole,
                 IF whole THEN transform_anthropic_to_completions(blocks) ELSE Assembled(blocks),
                 Len(kinds))
         /\ pending' = Ids(Of(CallKinds, blocks))
    /\ phase' = "caller"
    /\ request' = NoRequest
    /\ sent' = Nothing

DialogueNext == Instruct \/ Say \/ Return \/ Ask \/ Refuse \/ Reply

DialogueSpec == DialogueInit /\ [][DialogueNext]_dialogueVars

-----------------------------------------------------------------------------
(* Properties *)

\* What a message of the dialogue says to a wire. A model's texts read as one;
\* its signed thinking goes back if it came whole, and is shown to the other
\* wire, signed or not, with an answer that called no tool. Of a result the
\* Anthropic wire takes the text alone.
Meant(wire, e) ==
    CASE e.chat.role = "assistant" ->
            (IF \/ wire = "anthropic" /\ e.whole
                \/ wire = "responses" /\ Of(CallKinds, e.said) = <<>>
             THEN Of({"thinking"}, e.said) ELSE <<>>)
            \o Joined(e.said) \o Of(CallKinds, e.said)
      [] e.chat.role = "tool" ->
            IF wire = "anthropic" THEN <<[e.said[1] EXCEPT !.parts = Joined(@)]>> ELSE e.said
      [] OTHER -> _content_blocks(e.said)

Spoken(wire, entries) ==
    Gather(LAMBDA e : IF e.chat.role = "system" THEN <<>> ELSE Meant(wire, e), entries)

\* Nothing is said of what a list of parts comes to among the instructions of
\* the Responses wire.
Instructed(wire, entries) ==
    Gather(LAMBDA e : IF e.chat.role = "system" /\ (wire = "anthropic" \/ IsString(e.said))
                      THEN Joined(e.said) ELSE <<>>, entries)

Blocks(turns) == Gather(LAMBDA t : t.blocks, turns)
Sayable == BlockKinds \cup {"image", "tool_result", "void"}

\* Whatever upstreams a dialogue has been through, a request says what was said
\* in it, once and in order: every part of a user's message, or the request is
\* refused; every text and call of an answer; every result beside the id of its
\* call; and the texts of the instructions, apart. What is dropped is named in
\* Meant and Instructed: images and unknown parts of results and instructions
\* on the Anthropic wire, the thinking of a streamed answer
\* (chat_to_anthropic.py:99-114, 160-199, 249-254; chat_completions.py:152-211).
SaidIsSent ==
    phase = "model" =>
        /\ Of(Sayable, Blocks(sent.turns)) = Spoken(request.wire, dialogue)
        /\ Of({"text"}, sent.system) = Instructed(request.wire, dialogue)

\* The results of one turn's calls are on the one turn of the user behind it,
\* none is missing and none is about another call, in either wire's form
\* (chat_to_anthropic.py:353-363, chat_completions.py:152-162).
CallIds(blocks) == Ids(Of(CallKinds, blocks))
ResultIds(blocks) == Ids(Of({"tool_result"}, blocks))
AnsweredTogether ==
    phase = "model" =>
        LET turns == sent.turns IN
        IF request.wire = "anthropic"
        THEN /\ \A i \in DOMAIN turns :
                    /\ turns[i].blocks # <<>>
                    /\ CallIds(turns[i].blocks) # {} =>
                          /\ i < Len(turns)
                          /\ turns[i + 1].role = "user"
                          /\ IsResults(turns[i + 1])
                          /\ ResultIds(turns[i + 1].blocks) = CallIds(turns[i].blocks)
             /\ \A i \in DOMAIN turns : ResultIds(turns[i].blocks) # {} => i > 1
                          /\ CallIds(turns[i - 1].blocks) # {}
        ELSE \A i \in DOMAIN turns :
                /\ \A id \in CallIds(turns[i].blocks) :
                      \E j \in (i + 1)..Len(turns) : id \in ResultIds(turns[j].blocks)
                /\ Len(turns[i].blocks) > 1 => CallIds(turns[i].blocks) = {}

\* Thinking leaves room for an answer, is never below what the upstream
\* takes, never raises a ceiling that the caller named, and takes the sampling
\* parameters with it only when it is really asked for
\* (chat_to_anthropic.py:405-434).
ThinkingFits ==
    phase = "model" =>
        /\ sent.thinking # 0 =>
               /\ sent.thinking >= MIN_THINKING_BUDGET
               /\ sent.max_tokens > sent.thinking
               /\ ~sent.sampling
        /\ request.ceiling # 0 => sent.max_tokens = request.ceiling
        /\ request.sampling /\ sent.thinking = 0 => sent.sampling

=============================================================================
