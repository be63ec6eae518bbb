-------------------------- MODULE ResponsesSocket ---------------------------
(***************************************************************************)
(* One connection of the Responses WebSocket (app/proxy/websocket.py): the *)
(* handler authenticates, receives one turn, resolves the model and posts  *)
(* the turn upstream up to max_retries times, holding back the events of   *)
(* an attempt until one shows output, because only then is a retry no      *)
(* longer invisible.  The upstream may refuse, overflow, fail mid-stream,  *)
(* stop or break off; the client may leave at any await.                   *)
(*                                                                         *)
(* A step ends at an await: a receive, a send (each is one), the upstream  *)
(* request, each line of its stream, the back-off, the close.              *)
(***************************************************************************)
EXTENDS Naturals, Sequences

CONSTANTS
    max_retries,    \* 5 in the code
    MaxEvents       \* bound: events of one upstream attempt

ASSUME BoundAssumption == max_retries \in Nat \ {0} /\ MaxEvents \in Nat

VARIABLES
    connected,                      \* is the client there?
    pc,
    model, reasoning,               \* the turn names a model; carries reasoning items
    attempt, stripped_reasoning,
    emitted,                        \* events read from the current attempt
    buffer, flushed,
    got_error,
    captured_usage, captured_error,
    sent, notice,                   \* events and message sent to the client
    row                             \* the usage row scheduled at the end

turn == <<model, reasoning>>
loop == <<attempt, stripped_reasoning, emitted, buffer, flushed, got_error>>
captured == <<captured_usage, captured_error>>
client == <<sent, notice>>
vars == <<connected, pc, turn, loop, captured, client, row>>

-----------------------------------------------------------------------------
(* Events, messages and usage rows *)

\* "created" and "failed" stand for the events that are neither output nor the
\* end of a good turn; "error" for an error event that is not an overflow.
Quiet == {"created", "failed"}
Events == Quiet \cup {"delta", "completed", "error", "overflow"}

\* The event types that end the hold-back.
Flushing == {"delta", "completed"}

Notices == {"invalid_key", "missing_model", "unknown_deployment", "http_error", "overflow"}

Errors == {"none", "client_disconnect", "exception", "overflow", "stream_error"}

NoRow == [written |-> FALSE, error |-> "none", usage |-> FALSE]

Init ==
    /\ connected = TRUE
    /\ pc = "auth"
    /\ model = FALSE /\ reasoning = FALSE
    /\ attempt = 0 /\ stripped_reasoning = FALSE
    /\ emitted = <<>> /\ buffer = <<>> /\ flushed = FALSE /\ got_error = FALSE
    /\ captured_usage = FALSE /\ captured_error = "none"
    /\ sent = <<>> /\ notice = "none"
    /\ row = NoRow

-----------------------------------------------------------------------------
(* Leaving the handler *)

Or(error, other) == IF error # "none" THEN error ELSE other

\* Mutant: the row is scheduled at the end of the try block only.
FinishUnmetered(error) ==
    /\ pc' = "closed"
    /\ captured_error' = error
    /\ row' = IF model /\ error = "none"
              THEN [written |-> TRUE, error |-> error, usage |-> captured_usage]
              ELSE NoRow
    /\ UNCHANGED <<connected, turn, captured_usage>>

\* The finally clause: a turn that named a model is metered.
Finish(error) ==
    /\ pc' = "closed"
    /\ captured_error' = error
    /\ row' = IF model
              THEN [written |-> TRUE, error |-> error, usage |-> captured_usage]
              ELSE NoRow
    /\ UNCHANGED <<connected, turn, captured_usage>>

\* An exception reaches the except clauses of the handler.
Raise(why) ==
    /\ Finish(Or(captured_error, why))
    /\ UNCHANGED <<loop, client>>

\* A send to a client that has left raises, under one name or another.
SendRaises == ~connected /\ \E why \in {"client_disconnect", "exception"} : Raise(why)

\* A message, then close and return.
Tell(n) ==
    \/ /\ connected
       /\ notice' = n
       /\ pc' = "closing"
       /\ UNCHANGED <<connected, turn, loop, captured, sent, row>>
    \/ SendRaises

\* The close raises if the client left meanwhile.
CloseAndReturn ==
    /\ pc = "closing"
    /\ \/ Finish(captured_error)
       \/ ~connected /\ Finish(Or(captured_error, "exception"))
    /\ UNCHANGED <<loop, client>>

-----------------------------------------------------------------------------
(* Before the upstream is called *)

\* Outside the try block; no model is known and nothing is metered either way.
AuthFails ==
    /\ pc = "auth"
    /\ Tell("invalid_key")

Authenticate ==
    /\ pc = "auth"
    /\ pc' = "receive"
    /\ UNCHANGED <<connected, turn, loop, captured, client, row>>

Receive ==
    /\ pc = "receive"
    /\ connected
    /\ pc' = "resolve"
    /\ model' = TRUE
    /\ reasoning' \in BOOLEAN
    /\ UNCHANGED <<connected, loop, captured, client, row>>

ReceiveWithoutModel ==
    /\ pc = "receive"
    /\ connected
    /\ Tell("missing_model")

\* Not JSON, not text, or no message at all.
ReceiveFails ==
    /\ pc = "receive"
    /\ \E why \in {"client_disconnect", "exception"} :
        (why = "client_disconnect" => ~connected) /\ Raise(why)

\* Every exception of the look-up, the database's too, names an unknown model.
ResolveFails ==
    /\ pc = "resolve"
    /\ Tell("unknown_deployment")

Resolve ==
    /\ pc = "resolve"
    /\ pc' = "post"
    /\ attempt' = 1
    /\ UNCHANGED <<connected, turn, stripped_reasoning, emitted, buffer, flushed,
                   got_error, captured, client, row>>

-----------------------------------------------------------------------------
(* The attempts *)

\* The next pass of the for loop starts from nothing; after the last one the
\* handler falls through to the linger.
NextAttempt ==
    /\ IF attempt < max_retries
       THEN pc' = "post" /\ attempt' = attempt + 1
       ELSE pc' = "linger" /\ attempt' = attempt
    /\ emitted' = <<>> /\ buffer' = <<>> /\ flushed' = FALSE /\ got_error' = FALSE

\* The upstream cannot be reached, or its stream breaks off.
UpstreamBreaks ==
    /\ pc \in {"post", "stream"}
    /\ Raise("exception")

Opened ==
    /\ pc = "post"
    /\ pc' = "stream"
    /\ UNCHANGED <<connected, turn, loop, captured, client, row>>

\* Mutant: an overflow is a refusal like any other, and is retried.
RefusedOverflowRetried ==
    /\ pc = "post"
    /\ attempt < max_retries
    /\ emitted' = Append(emitted, "overflow")
    /\ pc' = "backoff"
    /\ UNCHANGED <<connected, turn, attempt, stripped_reasoning, buffer, flushed,
                   got_error, captured, client, row>>

\* The body of a refusal names an overflow: all that this attempt produced.
RefusedOverflow ==
    /\ pc = "post"
    /\ emitted' = Append(emitted, "overflow")
    /\ captured_error' = "overflow"
    /\ pc' = "refused"
    /\ UNCHANGED <<connected, turn, attempt, stripped_reasoning, buffer, flushed,
                   got_error, captured_usage, client, row>>

\* The client is told at once, and the connection is closed.
TellRefusal ==
    /\ pc = "refused"
    /\ Tell("overflow")

\* invalid_encrypted_content: once, without the reasoning items, at once.
RefusedEncrypted ==
    /\ pc = "post"
    /\ reasoning /\ ~stripped_reasoning
    /\ stripped_reasoning' = TRUE
    /\ reasoning' = FALSE
    /\ NextAttempt
    /\ UNCHANGED <<connected, model, captured, client, row>>

\* Any other status but 200 is retried, whatever it says.
RefusedRetried ==
    /\ pc = "post"
    /\ attempt < max_retries
    /\ pc' = "backoff"
    /\ UNCHANGED <<connected, turn, loop, captured, client, row>>

RefusedFinally ==
    /\ pc = "post"
    /\ attempt = max_retries
    /\ Tell("http_error")

Backoff ==
    /\ pc = "backoff"
    /\ NextAttempt
    /\ UNCHANGED <<connected, turn, stripped_reasoning, captured, client, row>>

-----------------------------------------------------------------------------
(* The lines of a stream *)

\* Mutant: events are sent as they come.
HoldNothing(e) ==
    /\ buffer' = Append(buffer, e)
    /\ flushed' = flushed
    /\ pc' = "flush"
    /\ UNCHANGED got_error

\* An event is held back until one of its attempt flushes; afterwards it is
\* sent as it comes.
Hold(e) ==
    /\ buffer' = Append(buffer, e)
    /\ flushed' = (flushed \/ e \in Flushing)
    /\ pc' = IF flushed' THEN "flush" ELSE "stream"
    /\ UNCHANGED got_error

Line(e) ==
    /\ pc = "stream"
    /\ e \notin {"error", "overflow"}
    /\ Len(emitted) < MaxEvents
    /\ emitted' = Append(emitted, e)
    /\ Hold(e)
    /\ captured_usage' = (captured_usage \/ e = "completed")
    /\ UNCHANGED <<connected, turn, attempt, stripped_reasoning, captured_error,
                   client, row>>

\* A mid-stream overflow: what was held back goes out, then the failed event.
LineOverflow ==
    /\ pc = "stream"
    /\ Len(emitted) < MaxEvents
    /\ emitted' = Append(emitted, "overflow")
    /\ captured_error' = "overflow"
    /\ got_error' = TRUE /\ flushed' = TRUE
    /\ pc' = "flush"
    /\ UNCHANGED <<connected, turn, attempt, stripped_reasoning, buffer,
                   captured_usage, client, row>>

\* An error event ends the reading; it is not put into the buffer.
LineError ==
    /\ pc = "stream"
    /\ Len(emitted) < MaxEvents
    /\ emitted' = Append(emitted, "error")
    /\ got_error' = TRUE
    /\ pc' = "ended"
    /\ UNCHANGED <<connected, turn, attempt, stripped_reasoning, buffer, flushed,
                   captured, client, row>>

StreamEnds ==
    /\ pc = "stream"
    /\ pc' = "ended"
    /\ UNCHANGED <<connected, turn, loop, captured, client, row>>

\* One send_text.
SendNext ==
    /\ pc \in {"flush", "drain"}
    /\ buffer # <<>>
    /\ \/ /\ connected
          /\ sent' = Append(sent, Head(buffer))
          /\ buffer' = Tail(buffer)
          /\ UNCHANGED <<connected, pc, turn, attempt, stripped_reasoning, emitted,
                         flushed, got_error, captured, notice, row>>
       \/ SendRaises

Flushed ==
    /\ pc = "flush"
    /\ buffer = <<>>
    /\ ~got_error
    /\ pc' = "stream"
    /\ UNCHANGED <<connected, turn, loop, captured, client, row>>

\* After the held-back events, the overflow by its own name.
TellOverflow ==
    /\ pc = "flush"
    /\ buffer = <<>>
    /\ got_error
    /\ \/ /\ connected
          /\ notice' = "overflow"
          /\ pc' = "ended"
          /\ UNCHANGED <<connected, turn, loop, captured, sent, row>>
       \/ SendRaises

-----------------------------------------------------------------------------
(* After the stream *)

RetryStream ==
    /\ pc = "ended"
    /\ got_error /\ ~flushed /\ attempt < max_retries
    /\ pc' = "backoff"
    /\ UNCHANGED <<connected, turn, loop, captured, client, row>>

\* The error of the last attempt: the held-back events go out.
GiveUp ==
    /\ pc = "ended"
    /\ got_error /\ ~flushed /\ attempt = max_retries
    /\ captured_error' = "stream_error"
    /\ pc' = "drain"
    /\ UNCHANGED <<connected, turn, loop, captured_usage, client, row>>

Drained ==
    /\ pc = "drain"
    /\ buffer = <<>>
    /\ pc' = "linger"
    /\ UNCHANGED <<connected, turn, loop, captured, client, row>>

\* Also a stream that stopped short, and one whose error came after output.
TurnDone ==
    /\ pc = "ended"
    /\ ~got_error \/ flushed
    /\ pc' = "linger"
    /\ UNCHANGED <<connected, turn, loop, captured, client, row>>

\* Mutant: the wait for the client has no time limit.
LingerForClient ==
    /\ pc = "linger"
    /\ ~connected
    /\ Finish(captured_error)
    /\ UNCHANGED <<loop, client>>

\* The client says something, leaves, or 30 seconds pass; a frame that is not
\* text raises.
Linger ==
    /\ pc = "linger"
    /\ \/ Finish(captured_error)
       \/ connected /\ Finish(Or(captured_error, "exception"))
    /\ UNCHANGED <<loop, client>>

-----------------------------------------------------------------------------

ClientLeaves ==
    /\ pc # "closed"
    /\ connected
    /\ connected' = FALSE
    /\ UNCHANGED <<pc, turn, loop, captured, client, row>>

Prelude == AuthFails \/ Authenticate \/ ResolveFails \/ Resolve
Attempts ==
    \/ UpstreamBreaks \/ Opened \/ RefusedOverflow \/ TellRefusal
    \/ RefusedEncrypted \/ RefusedRetried \/ RefusedFinally \/ Backoff
Stream ==
    \/ \E e \in Events : Line(e)
    \/ LineOverflow \/ LineError \/ StreamEnds
    \/ SendNext \/ Flushed \/ TellOverflow
Ending == RetryStream \/ GiveUp \/ Drained \/ TurnDone \/ Linger \/ CloseAndReturn

Handler == Prelude \/ Attempts \/ Stream \/ Ending
FromClient == Receive \/ ReceiveWithoutModel \/ ReceiveFails \/ ClientLeaves

Next == Handler \/ FromClient

Spec == Init /\ [][Next]_vars

\* Every await but the receive of the turn returns: the upstream has 300
\* seconds for each read, the linger 30.
FairSpec == Spec /\ WF_vars(Handler)

-----------------------------------------------------------------------------
(* Properties *)

Pcs == {"auth", "receive", "resolve", "post", "refused", "backoff", "stream",
        "flush", "ended", "drain", "linger", "closing", "closed"}

\* Every variable keeps its type, and no more than max_retries requests are
\* sent upstream for a turn.
TypeOK ==
    /\ connected \in BOOLEAN
    /\ pc \in Pcs
    /\ model \in BOOLEAN /\ reasoning \in BOOLEAN
    /\ attempt \in 0..max_retries
    /\ stripped_reasoning \in BOOLEAN
    /\ emitted \in Seq(Events) /\ buffer \in Seq(Events) /\ sent \in Seq(Events)
    /\ flushed \in BOOLEAN /\ got_error \in BOOLEAN
    /\ captured_usage \in BOOLEAN
    /\ captured_error \in Errors
    /\ notice \in Notices \cup {"none"}
    /\ row \in [written : BOOLEAN, error : Errors, usage : BOOLEAN]

Sent(e) == \E i \in DOMAIN sent : sent[i] = e
Emitted(e) == \E i \in DOMAIN emitted : emitted[i] = e

\* However an attempt fails, the client never sees events of two attempts,
\* events out of order, or anything after the proxy's own message: retrying is
\* invisible (websocket.py:119-124, 245-261, 263-265).
Relay == INSTANCE TurnRelay WITH
            stream <- emitted, seen <- sent, open <- pc # "closed", None <- "none"
RelaysOneAttempt == Relay!Spec

\* A prompt the upstream called too large, in a refusal or in the middle of a
\* stream, is never sent again (that a captured one is final is proved only):
\* from the moment the upstream said so, all that can come before the client is
\* told is what was held back, and a client that is still there is told
\* (websocket.py:140-150, 198-216; tests/test_usage_and_overflow_relay.py:472,
\* "the overflow arrives once").
OverflowIsFinal ==
    [][captured_error = "overflow" => attempt' = attempt]_vars
OverflowIsTold ==
    Emitted("overflow") /\ pc \notin {"refused", "flush"} /\ connected
        => notice = "overflow" /\ captured_error = "overflow"

\* A usage row with tokens and no error is one whose client was sent
\* response.completed, and such a turn is always metered with its tokens
\* (websocket.py:232-240, 309-321).
BilledIsDelivered ==
    pc = "closed" /\ model =>
        /\ row.written
        /\ row.error = "none" => (row.usage <=> Sent("completed"))

\* A turn that was received ends, for every mix of refusals, stream errors,
\* overflows and disconnects (websocket.py:113-297).
EveryTurnEnds == pc = "resolve" ~> pc = "closed"

=============================================================================
