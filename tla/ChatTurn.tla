------------------------------ MODULE ChatTurn ------------------------------
(***************************************************************************)
(* One turn after another of the chat completions route                    *)
(* (proxy/chat_completions.py), whose upstream speaks Chat Completions,    *)
(* Responses or Anthropic Messages, with the translators of the two        *)
(* streams (proxy/chat_to_anthropic.py for the second) and the usage row.  *)
(*                                                                         *)
(*     post       the request is on its way (post_with_retries)            *)
(*     read       the translator awaits the upstream's next line           *)
(*     send       a chunk was yielded and is being sent                    *)
(*     closing    the finally clause of generate()                         *)
(*     over       the turn is answered                                     *)
(*                                                                         *)
(* A translator yields at most two chunks before it reads again or         *)
(* returns; `then` says what follows the chunk being sent.  The counts of  *)
(* a usage block are all treated alike, so one stands for them.            *)
(*                                                                         *)
(* A client that leaves cancels the task that streams, which notices where *)
(* it next waits for the upstream: the server's send returns at once for a *)
(* client that has gone.                                                   *)
(***************************************************************************)
EXTENDS Integers, Sequences, FiniteSets

CONSTANTS
    Calls,      \* tool calls, as the upstream addresses them: block or item
    MaxCount,   \* bound: a token count
    MaxEvents   \* bound: lines an upstream streams

ASSUME CallsAssumption == IsFiniteSet(Calls)
ASSUME BoundsAssumption == MaxCount \in Nat /\ MaxEvents \in Nat

VARIABLES
    pc,
    turn,       \* the wire of the deployment, and whether a stream was asked for
    connected,  \* the client is still there
    chunk,      \* the chunk being sent
    then,       \* what the translator does after it
    index,      \* tool_index_for_block, tool_index_for_item
    next,       \* next_tool_index
    finish,     \* finish_reason
    ended,      \* the upstream said the turn is over
    captured,   \* the usage the generator has noted
    outcome,    \* error_type
    events,     \* how many lines the upstream streamed
    fate,       \* how the upstream's stream really ended
    reported,   \* the counts it reported
    view,       \* what the client's SDK has made of the chunks
    answer,     \* how the client was answered
    row         \* the usage row

translator == <<index, next, finish, ended, outcome>>
upstream == <<events, fate, reported>>
vars == <<pc, turn, connected, chunk, then, translator, captured, upstream,
          view, answer, row>>

-----------------------------------------------------------------------------
(* What is sent, and what the client makes of it *)

Unknown == -1
Counts == {Unknown} \cup 0..MaxCount
Routes == {"native", "responses", "anthropic"}
Turn == [route : Routes, streaming : BOOLEAN]
NoTurn == [route |-> "native", streaming |-> FALSE]

Reasons == {"stop", "length", "tool_calls"}
NoCall == "none"
Kinds == {"role", "content", "call", "usage", "finish", "done", "error", "line"}
Chunk == [kind : Kinds, index : Nat, call : Calls \cup {NoCall},
          reason : Reasons, usage : Counts]

Plain(kind) == [kind |-> kind, index |-> 0, call |-> NoCall,
                reason |-> "stop", usage |-> Unknown]
CallChunk(i, c) == [Plain("call") EXCEPT !.index = i, !.call = c]
FinishChunk(reason, usage) == [Plain("finish") EXCEPT !.reason = reason, !.usage = usage]
UsageChunk(usage) == [Plain("usage") EXCEPT !.usage = usage]
Line(usage) == [Plain("line") EXCEPT !.usage = usage]

Phases == {"new", "open", "finished", "done", "ended", "failed", "confused"}
View == [phase : Phases, calls : Seq(Calls), usage : Counts]
NewView == [phase |-> "new", calls |-> <<>>, usage |-> Unknown]

\* A call's fragments are put together by index.
Fits(v, c) ==
    \/ c.index = Len(v.calls)
    \/ c.index < Len(v.calls) /\ v.calls[c.index + 1] = c.call

Understood(v, c) ==
    \/ c.kind = "role" /\ v.phase = "new"
    \/ c.kind \in {"content", "usage", "error"} /\ v.phase = "open"
    \/ c.kind = "call" /\ v.phase = "open" /\ Fits(v, c)
    \/ c.kind = "finish" /\ v.phase = "open" /\ (c.reason = "stop" => v.calls = <<>>)
    \/ c.kind = "done" /\ v.phase \in {"open", "finished"}

PhaseAfter(v, c) ==
    IF c.kind = "line" THEN v.phase
    ELSE IF ~Understood(v, c) THEN "confused"
    ELSE CASE c.kind = "finish" -> "finished"
           [] c.kind = "error" -> "failed"
           [] c.kind = "done" -> IF v.phase = "finished" THEN "done" ELSE "ended"
           [] OTHER -> "open"

Received(v, c) ==
    [phase |-> PhaseAfter(v, c),
     calls |-> IF c.kind = "call" /\ c.index = Len(v.calls)
               THEN Append(v.calls, c.call) ELSE v.calls,
     usage |-> IF c.usage = Unknown THEN v.usage ELSE c.usage]

Errors == {"none", "untranslatable", "connect_error", "timeout", "upstream",
           "non_json", "overflow", "failed", "truncated", "aborted"}
Row == [error : Errors, usage : Counts]
NoRow == [error |-> "unwritten", usage |-> Unknown]

Init ==
    /\ pc = "idle"
    /\ turn = NoTurn
    /\ connected = FALSE
    /\ chunk = Plain("role")
    /\ then = "read"
    /\ index = [c \in Calls |-> Unknown]
    /\ next = 0
    /\ finish = "stop"
    /\ ended = FALSE
    /\ captured = Unknown
    /\ outcome = "none"
    /\ events = 0
    /\ fate = "open"
    /\ reported = {}
    /\ view = NewView
    /\ answer = "none"
    /\ row = NoRow

-----------------------------------------------------------------------------
(* The handler: _handle_completions and the six strategies *)

Begin ==
    /\ pc = "idle"
    /\ pc' = "post"
    /\ turn' \in Turn
    /\ connected' = TRUE
    /\ UNCHANGED <<chunk, then, translator, captured, upstream, view, answer, row>>

Answer(how, error, usage) ==
    /\ pc' = "over"
    /\ answer' = how
    /\ row' = [error |-> error, usage |-> usage]
    /\ UNCHANGED <<turn, connected, chunk, then, translator, captured, upstream, view>>

\* The request has no equivalent on the upstream's wire: nothing is sent.
Untranslatable ==
    /\ pc = "post"
    /\ turn.route # "native"
    /\ Answer("error", "untranslatable", Unknown)

\* The upstream cannot be reached, is silent or refuses.
PostFails ==
    /\ pc = "post"
    /\ \E error \in {"connect_error", "timeout", "upstream"} :
        Answer("error", error, Unknown)

\* An exception that nothing catches, a 500: a broken connection, or a body
\* that is not JSON where the route does not look for that.
Raises ==
    /\ pc = "post"
    /\ pc' = "over"
    /\ answer' = "exception"
    /\ UNCHANGED <<turn, connected, chunk, then, translator, captured, upstream, view, row>>

NonJson ==
    /\ pc = "post"
    /\ turn.route = "anthropic" /\ ~turn.streaming
    /\ Answer("error", "non_json", Unknown)

\* The upstream's whole answer; an Anthropic turn that ran into the model's
\* window is an overflow.
Completed ==
    /\ pc = "post"
    /\ ~turn.streaming
    /\ \E usage \in Counts :
        \/ Answer("completion", "none", usage)
        \/ turn.route = "anthropic" /\ Answer("error", "overflow", usage)

\* Yield c, then go on as told.
Send(c, what) ==
    /\ pc' = "send"
    /\ chunk' = c
    /\ then' = what

\* generate() is iterated for the first time; a translator begins with the role.
StreamOpens ==
    /\ pc = "post"
    /\ turn.streaming
    /\ \/ turn.route = "native" /\ pc' = "read" /\ UNCHANGED <<chunk, then>>
       \/ turn.route # "native" /\ Send(Plain("role"), "read")
    /\ answer' = "stream"
    /\ UNCHANGED <<turn, connected, translator, captured, upstream, view, row>>

-----------------------------------------------------------------------------
(* The upstream's lines *)

HighWater(a, b) == IF a < b THEN b ELSE a

Event ==
    /\ pc = "read"
    /\ events < MaxEvents
    /\ fate = "open"
    /\ events' = events + 1
    /\ UNCHANGED <<turn, connected, view, answer, row>>

Reports(u) == reported' = IF u = Unknown THEN reported ELSE reported \cup {u}

\* Mutant: the last report stands.
RecordLast(u) ==
    /\ Reports(u)
    /\ captured' = IF u = Unknown THEN captured ELSE u

\* record_usage: none of the counters of this wire decreases.
record_usage(u) ==
    /\ Reports(u)
    /\ captured' = HighWater(captured, u)

\* Text or reasoning.
TextDelta ==
    /\ Event
    /\ turn.route # "native"
    /\ Send(Plain("content"), "read")
    /\ UNCHANGED <<translator, captured, fate, reported>>

\* Mutant: a tool call is numbered by the block it came in.
NewIndexOfBlock(c) ==
    /\ index' = [index EXCEPT ![c] = events]
    /\ next' = next + 1
    /\ Send(CallChunk(events, c), "read")

NewIndex(c) ==
    /\ index' = [index EXCEPT ![c] = next]
    /\ next' = next + 1
    /\ Send(CallChunk(next, c), "read")

\* content_block_start, response.output_item.added.
CallOpens(c) ==
    /\ Event
    /\ turn.route # "native"
    /\ index[c] = Unknown
    /\ NewIndex(c)
    /\ UNCHANGED <<finish, ended, outcome, captured, fate, reported>>

\* input_json_delta, response.function_call_arguments.delta.  Arguments of a
\* call that was not opened open it on the one wire, are dropped on the other.
CallDelta(c) ==
    /\ Event
    /\ turn.route # "native"
    /\ UNCHANGED <<finish, ended, outcome, captured, fate, reported>>
    /\ \/ /\ index[c] # Unknown
          /\ Send(CallChunk(index[c], c), "read")
          /\ UNCHANGED <<index, next>>
       \/ /\ index[c] = Unknown /\ turn.route = "responses"
          /\ NewIndex(c)
       \/ /\ index[c] = Unknown /\ turn.route = "anthropic"
          /\ UNCHANGED <<pc, chunk, then, index, next>>

\* With a tool call and no other reason, the reason to stop is the call.
FinishReason(reason) == IF reason = "stop" /\ next > 0 THEN "tool_calls" ELSE reason

Reported(u) == IF u > 0 THEN u ELSE Unknown

\* message_start; message_delta without a stop reason.
AnthropicUsage ==
    /\ Event
    /\ turn.route = "anthropic"
    /\ \E u \in Counts : record_usage(u)
    /\ UNCHANGED <<pc, chunk, then, translator, fate>>

\* message_delta with a stop reason; message_stop leaves the reason alone.
AnthropicEnds ==
    /\ Event
    /\ turn.route = "anthropic"
    /\ \E u \in Counts : record_usage(u)
    /\ finish' \in Reasons
    /\ ended' = TRUE
    /\ UNCHANGED <<pc, chunk, then, index, next, outcome, fate>>

\* The tail of a failed turn: what was counted goes first.
Fail(error, usage) ==
    /\ outcome' = error
    /\ \/ usage > 0 /\ Send(UsageChunk(usage), "error")
       \/ ~(usage > 0) /\ Send(Plain("error"), "closing")

\* An error event, or the stop reason of an overflow, which comes with usage.
AnthropicFails ==
    /\ Event
    /\ turn.route = "anthropic"
    /\ \E u \in Counts, error \in {"failed", "overflow"} :
        /\ error = "failed" => u = Unknown
        /\ record_usage(u)
        /\ Fail(error, captured')
    /\ fate' = "failed"
    /\ UNCHANGED <<index, next, finish, ended>>

\* response.completed, response.incomplete: the finish chunk goes out at once.
ResponsesEnds ==
    /\ Event
    /\ turn.route = "responses"
    /\ \E u \in Counts, reason \in {"stop", "length"} :
        /\ Reports(u)
        /\ captured' = IF u = Unknown THEN captured ELSE u
        /\ Send(FinishChunk(FinishReason(reason), Reported(u)), "read")
    /\ fate' = "finished"
    /\ UNCHANGED translator

\* Mutant: the loop goes on after the error.
ResponsesFailsAndGoesOn ==
    /\ Event
    /\ turn.route = "responses"
    /\ Send(Plain("error"), "read")
    /\ fate' = "failed"
    /\ UNCHANGED <<translator, captured, reported>>

\* response.failed, error: no terminator follows.
ResponsesFails ==
    /\ Event
    /\ turn.route = "responses"
    /\ Send(Plain("error"), "closing")
    /\ fate' = "failed"
    /\ UNCHANGED <<translator, captured, reported>>

\* A line of a native upstream is relayed as it is.
NativeLine ==
    /\ Event
    /\ turn.route = "native"
    /\ \E u \in Counts : Reports(u) /\ Send(Line(u), "read")
    /\ UNCHANGED <<translator, captured, fate>>

-----------------------------------------------------------------------------
(* The end of the upstream's stream *)

\* Mutant: the success chunk and [DONE] regardless.
AnthropicStreamOverRegardless ==
    /\ fate' = IF ended THEN "finished" ELSE "cut"
    /\ Send(FinishChunk(FinishReason(finish), Reported(captured)), "done")
    /\ UNCHANGED outcome

\* A terminator is only earned.
AnthropicStreamOver ==
    \/ /\ ended
       /\ fate' = "finished"
       /\ Send(FinishChunk(FinishReason(finish), Reported(captured)), "done")
       /\ UNCHANGED outcome
    \/ /\ ~ended
       /\ fate' = "cut"
       /\ Fail("truncated", captured)

StreamEnds ==
    /\ pc = "read"
    /\ \/ turn.route = "anthropic" /\ AnthropicStreamOver
       \/ /\ turn.route = "responses"
          /\ fate' = IF fate = "open" THEN "cut" ELSE fate
          /\ Send(Plain("done"), "closing")
          /\ UNCHANGED outcome
       \/ /\ turn.route = "native"
          /\ fate' = "finished"
          /\ pc' = "closing"
          /\ UNCHANGED <<chunk, then, outcome>>
    /\ UNCHANGED <<turn, connected, index, next, finish, ended, captured,
                   events, reported, view, answer, row>>

\* Mutant: only an Exception is named, and a cancellation is none.
AbortOfException(how) ==
    outcome' = IF turn.route = "anthropic" /\ how = "died" THEN "aborted" ELSE outcome

\* The Anthropic translator names what leaves its loop: it re-raises.
Abort(how) == outcome' = IF turn.route = "anthropic" THEN "aborted" ELSE outcome

\* The transport raises, or the task is cancelled because the client left.
StreamAborts ==
    /\ pc = "read"
    /\ \E how \in {"died", "left"} :
        /\ how = "left" => ~connected
        /\ fate' = how
        /\ Abort(how)
    /\ pc' = "closing"
    /\ UNCHANGED <<turn, connected, chunk, then, index, next, finish, ended,
                   captured, events, reported, view, answer, row>>

-----------------------------------------------------------------------------
(* The generator is resumed after a yield, and ends *)

\* generate() of a native stream reads the line once it is sent.
Sniff == captured' = IF chunk.kind = "line" /\ chunk.usage # Unknown THEN chunk.usage ELSE captured

Show == view' = IF connected THEN Received(view, chunk) ELSE view

Sent ==
    /\ pc = "send"
    /\ Show
    /\ Sniff
    /\ \/ then \in {"read", "closing"} /\ pc' = then /\ UNCHANGED <<chunk, then>>
       \/ then \in {"error", "done"} /\ Send(Plain(then), "closing")
    /\ UNCHANGED <<turn, connected, translator, upstream, answer, row>>

ClientLeaves ==
    /\ connected
    /\ pc \in {"read", "send"}
    /\ connected' = FALSE
    /\ UNCHANGED <<pc, turn, chunk, then, translator, captured, upstream, view,
                   answer, row>>

\* The finally clause: the upstream is closed and the row is scheduled.
Close ==
    /\ pc = "closing"
    /\ Answer("stream", outcome, captured)

NextTurn ==
    /\ pc = "over"
    /\ pc' = "idle"
    /\ turn' = NoTurn
    /\ connected' = FALSE
    /\ chunk' = Plain("role")
    /\ then' = "read"
    /\ index' = [c \in Calls |-> Unknown]
    /\ next' = 0
    /\ finish' = "stop"
    /\ ended' = FALSE
    /\ captured' = Unknown
    /\ outcome' = "none"
    /\ events' = 0
    /\ fate' = "open"
    /\ reported' = {}
    /\ view' = NewView
    /\ answer' = "none"
    /\ row' = NoRow

-----------------------------------------------------------------------------
(* Specification *)

Handler == Untranslatable \/ PostFails \/ Raises \/ NonJson \/ Completed \/ StreamOpens

Upstream ==
    \/ TextDelta \/ NativeLine
    \/ \E c \in Calls : CallOpens(c) \/ CallDelta(c)
    \/ AnthropicUsage \/ AnthropicEnds \/ AnthropicFails
    \/ ResponsesEnds \/ ResponsesFails
    \/ StreamEnds \/ StreamAborts

Next == Begin \/ Handler \/ Upstream \/ Sent \/ ClientLeaves \/ Close \/ NextTurn

Spec == Init /\ [][Next]_vars

\* The upstream answers, ends or dies within its read timeout, and the
\* server sends what it is given.
FairSpec ==
    /\ Spec
    /\ WF_vars(Handler)
    /\ WF_vars(Upstream)
    /\ WF_vars(Sent)
    /\ WF_vars(Close)

-----------------------------------------------------------------------------
(* Properties *)

Pcs == {"idle", "post", "read", "send", "closing", "over"}
Thens == {"read", "error", "done", "closing"}
Fates == {"open", "finished", "failed", "cut", "died", "left"}
Answers == {"none", "completion", "error", "exception", "stream"}

\* Every variable keeps its type.
TypeOK ==
    /\ pc \in Pcs
    /\ turn \in Turn
    /\ connected \in BOOLEAN
    /\ chunk \in Chunk
    /\ then \in Thens
    /\ index \in [Calls -> Nat \cup {Unknown}]
    /\ next \in Nat
    /\ finish \in Reasons
    /\ ended \in BOOLEAN
    /\ captured \in Counts
    /\ outcome \in Errors
    /\ events \in 0..MaxEvents
    /\ fate \in Fates
    /\ reported \in SUBSET (0..MaxCount)
    /\ view \in View
    /\ answer \in Answers
    /\ row \in Row \cup {NoRow}

Streamed == pc = "over" /\ answer = "stream" /\ turn.route # "native"

\* A client that stays is sent the terminator of a completed turn exactly when
\* the upstream completed it: "A terminator is only earned", and "never
\* followed by a terminator that says the turn completed"
\* (chat_to_anthropic.py:665-673, 829-860, chat_completions.py:507-526).
TerminatorIsEarned ==
    Streamed /\ connected => (view.phase = "done" <=> fate = "finished")

\* A turn is metered as served exactly when it was: a failed, truncated or
\* aborted Anthropic stream is a failure in the usage row, whoever ended it,
\* and so is every answer but a completion (chat_to_anthropic.py:779-847,
\* chat_completions.py:654-682, 830-926).
MeteredAsServed ==
    pc = "over" =>
        /\ answer = "stream" /\ turn.route = "anthropic" =>
               (row.error = "none" <=> fate = "finished")
        /\ answer # "stream" => (row.error = "none" <=> answer = "completion")

\* No count is lost or shrinks on its way to the row, the client is never
\* told another one, and one that stays to the end of a translated stream is
\* told it (chat_to_anthropic.py:615-647, 810-858; chat_completions.py:1041-1059).
CountsAgree ==
    pc = "over" /\ answer = "stream" =>
        /\ turn.route = "anthropic" => \A u \in reported : u <= row.usage
        /\ row.usage # Unknown => row.usage \in reported
        /\ turn.route # "native" /\ view.usage # Unknown => view.usage = row.usage
        /\ connected /\ row.usage > 0 /\ view.phase \in {"done", "failed"} =>
               view.usage = row.usage
        /\ connected /\ turn.route = "native" => view.usage = row.usage

\* Every stream that opened is over in the end, and a client that stayed has
\* been told how it ended, unless the transport broke.
Told ==
    connected /\ turn.route # "native" /\ fate # "died" =>
        view.phase \in {"done", "ended", "failed"}
EveryStreamEnds == pc \in {"read", "send"} ~> pc = "over" /\ Told

\* What the client's SDK sees of a translated stream is a completion stream:
\* calls are numbered without gaps and fragments of one never reach another,
\* "stop" is not said of a turn with calls, and nothing follows the end
\* (chat_to_anthropic.py:603-611, 829-860, chat_completions.py:366-374).
Promised == INSTANCE CompletionStream WITH phase <- view.phase, calls <- view.calls
ImplementsStream == Promised!Spec

=============================================================================
