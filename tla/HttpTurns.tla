----------------------------- MODULE HttpTurns ------------------------------
(***************************************************************************)
(* Concurrent turns of the two passthrough HTTP routes, POST /v1/responses *)
(* (proxy/responses.py) and POST /v1/messages (proxy/anthropic.py), over   *)
(* what they share: the database pool (db.py), the upstream connection     *)
(* pool and post_with_retries (azure.py), and metering (usage.py).         *)
(*                                                                         *)
(*     checkout   waiting for a database connection                        *)
(*     lookup     resolve_deployment                                       *)
(*     post       waiting for an upstream connection                       *)
(*     sent       waiting for the upstream's answer                        *)
(*     backoff    asyncio.sleep before the next attempt                    *)
(*     stream     the generator waits for the next line                    *)
(*     yielded    it has yielded one and waits to be resumed               *)
(*     told       the same, for the error event of its own                 *)
(*     closing    its finally clause                                       *)
(*                                                                         *)
(* The close of a session and of an upstream response wait for no pool,    *)
(* and are part of the step they follow.  A usage row is inserted by a     *)
(* task of its own, with a connection of its own.  A member of Requests    *)
(* stands for one turn after another: the next begins when the row of the  *)
(* last one has settled.                                                   *)
(***************************************************************************)
EXTENDS Naturals, FiniteSets

CONSTANTS
    Requests,               \* turns in progress at the same time
    MAX_UPSTREAM_ATTEMPTS,
    DbConnections,          \* pool_size + pool_max_overflow
    UpstreamConnections,    \* httpx.Limits(max_connections)
    MaxLines                \* bound: lines an upstream streams

ASSUME AttemptsAssumption == MAX_UPSTREAM_ATTEMPTS \in Nat \ {0}
ASSUME PoolsAssumption ==
    /\ IsFiniteSet(Requests)
    /\ DbConnections \in Nat \ {0}
    /\ UpstreamConnections \in Nat \ {0}
    /\ MaxLines \in Nat

VARIABLES
    pc,
    turn,       \* what was asked for
    attempt,    \* of post_with_retries
    stripped,   \* the reasoning items were removed and the turn sent again
    held,       \* the session has a database connection checked out
    slot,       \* the turn has an upstream connection
    connected,  \* the client is still there
    answer,     \* how the client was answered
    relayed,    \* which of ToldKinds the client was sent
    lines,      \* how many lines the upstream produced
    last,       \* the line yielded, "delta" otherwise
    broken,     \* the upstream died while streaming
    captured,   \* captured_usage and captured_error of the generator
    row,        \* the usage row of the turn and where its insert is
    scheduled   \* calls of usage.schedule

handler == <<pc, attempt, stripped, answer>>
stream == <<relayed, lines, last, broken, captured>>
meter == <<row, scheduled>>
vars == <<pc, turn, attempt, stripped, held, slot, connected, answer,
          relayed, lines, last, broken, captured, row, scheduled>>

-----------------------------------------------------------------------------

Turn == [route : {"responses", "messages"}, streaming : BOOLEAN, reasoning : BOOLEAN]
NoTurn == [route |-> "responses", streaming |-> FALSE, reasoning |-> FALSE]

Metered == {"connect_error", "timeout", "upstream", "ok", "stream"}

Kinds == {"delta", "usage", "failure", "overflow"}
ToldKinds == {"usage", "failure"}
Captured == [usage : BOOLEAN, error : BOOLEAN]
NothingCaptured == [usage |-> FALSE, error |-> FALSE]

Row == [state : {"none", "scheduled", "writing"},
        status : Metered \cup {"none"}, usage : BOOLEAN, error : BOOLEAN]
NoRow == [state |-> "none", status |-> "none", usage |-> FALSE, error |-> FALSE]

Writing == {r \in Requests : row[r].state = "writing"}
Holding == {r \in Requests : held[r] = TRUE}
Sending == {r \in Requests : slot[r] = TRUE}

DbFree == Cardinality(Holding) + Cardinality(Writing) < DbConnections
SlotFree == Cardinality(Sending) < UpstreamConnections

Init ==
    /\ pc = [r \in Requests |-> "idle"]
    /\ turn = [r \in Requests |-> NoTurn]
    /\ attempt = [r \in Requests |-> 1]
    /\ stripped = [r \in Requests |-> FALSE]
    /\ held = [r \in Requests |-> FALSE]
    /\ slot = [r \in Requests |-> FALSE]
    /\ connected = [r \in Requests |-> FALSE]
    /\ answer = [r \in Requests |-> "none"]
    /\ relayed = [r \in Requests |-> {}]
    /\ lines = [r \in Requests |-> 0]
    /\ last = [r \in Requests |-> "delta"]
    /\ broken = [r \in Requests |-> FALSE]
    /\ captured = [r \in Requests |-> NothingCaptured]
    /\ row = [r \in Requests |-> NoRow]
    /\ scheduled = [r \in Requests |-> 0]

-----------------------------------------------------------------------------
(* Shared steps *)

Goto(r, from, to) == pc[r] = from /\ pc' = [pc EXCEPT ![r] = to]

\* usage.schedule: the insert becomes a task of its own.
Schedule(r, status, usage, error) ==
    /\ row' = [row EXCEPT ![r] = [state |-> "scheduled", status |-> status,
                                  usage |-> usage, error |-> error]]
    /\ scheduled' = [scheduled EXCEPT ![r] = @ + 1]

\* The handler or the generator is over: the session is closed, the upstream
\* response has been read or closed, and its locals are gone.
Return(r) ==
    /\ pc' = [pc EXCEPT ![r] = "idle"]
    /\ turn' = [turn EXCEPT ![r] = NoTurn]
    /\ attempt' = [attempt EXCEPT ![r] = 1]
    /\ stripped' = [stripped EXCEPT ![r] = FALSE]
    /\ held' = [held EXCEPT ![r] = FALSE]
    /\ slot' = [slot EXCEPT ![r] = FALSE]
    /\ connected' = [connected EXCEPT ![r] = FALSE]
    /\ relayed' = [relayed EXCEPT ![r] = {}]
    /\ lines' = [lines EXCEPT ![r] = 0]
    /\ last' = [last EXCEPT ![r] = "delta"]
    /\ broken' = [broken EXCEPT ![r] = FALSE]
    /\ captured' = [captured EXCEPT ![r] = NothingCaptured]

\* An answer with its row.
Answer(r, how, usage, error) ==
    /\ Return(r)
    /\ answer' = [answer EXCEPT ![r] = how]
    /\ Schedule(r, how, usage, error)

\* A refusal before the upstream, or an exception no route catches (a 500):
\* neither has a row.
ReturnUnmetered(r) == Return(r) /\ UNCHANGED <<answer, meter>>

-----------------------------------------------------------------------------
(* The handler, up to the upstream's answer *)

Begin(r) ==
    /\ Goto(r, "idle", "checkout")
    /\ row[r].state = "none"
    /\ \E t \in Turn :
        /\ t.reasoning => t.route = "responses"
        /\ turn' = [turn EXCEPT ![r] = t]
    /\ connected' = [connected EXCEPT ![r] = TRUE]
    /\ UNCHANGED <<attempt, stripped, answer, held, slot, stream, meter>>

\* The first query of resolve_deployment checks a connection out.
Checkout(r) ==
    /\ Goto(r, "checkout", "lookup")
    /\ DbFree
    /\ held' = [held EXCEPT ![r] = TRUE]
    /\ UNCHANGED <<turn, attempt, stripped, slot, connected, answer, stream, meter>>

CheckoutTimesOut(r) == pc[r] = "checkout" /\ ReturnUnmetered(r)

\* An unknown or withheld model, the wrong protocol, no usable credential.
LookupRefused(r) == pc[r] = "lookup" /\ ReturnUnmetered(r)

\* The transaction stays open, and the connection with it, unless
\* resolve_secret committed a refreshed token.
Resolved(r) ==
    /\ Goto(r, "lookup", "post")
    /\ held' \in {held, [held EXCEPT ![r] = FALSE]}
    /\ UNCHANGED <<turn, attempt, stripped, slot, connected, answer, stream, meter>>

\* client.send or client.post gets a connection of the shared client.
Post(r) ==
    /\ Goto(r, "post", "sent")
    /\ SlotFree
    /\ slot' = [slot EXCEPT ![r] = TRUE]
    /\ UNCHANGED <<turn, attempt, stripped, held, connected, answer, stream, meter>>

\* httpx.PoolTimeout, and any other timeout but that of a connect.
PostTimesOut(r) ==
    /\ pc[r] \in {"post", "sent"}
    /\ Answer(r, "timeout", FALSE, TRUE)

\* A read or protocol error is neither ConnectError nor TimeoutException.
PostBreaks(r) == pc[r] = "sent" /\ ReturnUnmetered(r)

ConnectRaises(r) ==
    /\ pc[r] = "sent"
    /\ attempt[r] = MAX_UPSTREAM_ATTEMPTS
    /\ \E how \in {"connect_error", "timeout"} : Answer(r, how, FALSE, TRUE)

\* A failed connect, or a retryable status whose body was read and closed.
TryAgain(r) ==
    /\ Goto(r, "sent", "backoff")
    /\ attempt[r] < MAX_UPSTREAM_ATTEMPTS
    /\ attempt' = [attempt EXCEPT ![r] = @ + 1]
    /\ slot' = [slot EXCEPT ![r] = FALSE]
    /\ UNCHANGED <<turn, stripped, held, connected, answer, stream, meter>>

BackoffEnds(r) ==
    /\ Goto(r, "backoff", "post")
    /\ UNCHANGED <<turn, attempt, stripped, held, slot, connected, answer, stream, meter>>

\* A 400 about encrypted reasoning: once, without the reasoning items.
Strip(r) ==
    /\ Goto(r, "sent", "post")
    /\ turn[r].route = "responses" /\ turn[r].reasoning
    /\ ~stripped[r]
    /\ stripped' = [stripped EXCEPT ![r] = TRUE]
    /\ attempt' = [attempt EXCEPT ![r] = 1]
    /\ slot' = [slot EXCEPT ![r] = FALSE]
    /\ UNCHANGED <<turn, held, connected, answer, stream, meter>>

\* Mutant: the refusal returns before its row is scheduled.
RefusesUnmetered(r) ==
    /\ pc[r] = "sent"
    /\ Return(r)
    /\ answer' = [answer EXCEPT ![r] = "upstream"]
    /\ UNCHANGED meter

\* Any status but 200 that is not tried again reaches the client as it is.
UpstreamRefuses(r) == pc[r] = "sent" /\ Answer(r, "upstream", FALSE, TRUE)

\* A 200 for a turn that is not streamed, with usage or without.
Answered(r) ==
    /\ pc[r] = "sent"
    /\ ~turn[r].streaming
    /\ \E usage \in BOOLEAN : Answer(r, "ok", usage, FALSE)

\* Its body is not JSON.
AnswerUnreadable(r) ==
    pc[r] = "sent" /\ ~turn[r].streaming /\ ReturnUnmetered(r)

\* A StreamingResponse is returned: the session is closed, the upstream
\* response stays open.
StreamOpens(r) ==
    /\ Goto(r, "sent", "stream")
    /\ turn[r].streaming
    /\ attempt' = [attempt EXCEPT ![r] = 1]
    /\ stripped' = [stripped EXCEPT ![r] = FALSE]
    /\ held' = [held EXCEPT ![r] = FALSE]
    /\ UNCHANGED <<turn, slot, connected, answer, stream, meter>>

-----------------------------------------------------------------------------
(* The generator of a streamed answer *)

Streaming == {"stream", "yielded", "told"}

Note(r, usage, error) ==
    captured' = [captured EXCEPT ![r] = [usage |-> captured[r].usage \/ usage,
                                         error |-> captured[r].error \/ error]]

\* A line is yielded.  The Responses route has rewritten an overflow by then,
\* and noted it; a client that has gone is sent nothing.
Line(r) ==
    /\ Goto(r, "stream", "yielded")
    /\ lines[r] < MaxLines
    /\ lines' = [lines EXCEPT ![r] = @ + 1]
    /\ \E kind \in Kinds :
        /\ relayed' = [relayed EXCEPT ![r] = IF connected[r] THEN @ \cup ({kind} \cap ToldKinds) ELSE @]
        /\ last' = [last EXCEPT ![r] = kind]
        /\ Note(r, FALSE, kind = "overflow" /\ turn[r].route = "responses")
    /\ UNCHANGED <<turn, attempt, stripped, held, slot, connected, answer,
                   broken, meter>>

\* Resumed after the yield, it reads the line: only the Responses route looks
\* for an error event.
Sniff(r) ==
    /\ Goto(r, "yielded", "stream")
    /\ Note(r, last[r] = "usage",
               last[r] = "failure" /\ turn[r].route = "responses")
    /\ last' = [last EXCEPT ![r] = "delta"]
    /\ UNCHANGED <<turn, attempt, stripped, held, slot, connected, answer,
                   relayed, lines, broken, meter>>

StreamEnds(r) ==
    /\ Goto(r, "stream", "closing")
    /\ UNCHANGED <<turn, attempt, stripped, held, slot, connected, answer,
                   stream, meter>>

\* Mutant: no route catches the error.
StreamBreaksSilently(r) ==
    /\ Goto(r, "stream", "closing")
    /\ broken' = [broken EXCEPT ![r] = TRUE]
    /\ UNCHANGED <<turn, attempt, stripped, held, slot, connected, answer,
                   relayed, captured, lines, last, meter>>

\* Mutant: the error replaces what was captured.
StreamBreaksForgetful(r) ==
    /\ Goto(r, "stream", "closing")
    /\ broken' = [broken EXCEPT ![r] = TRUE]
    /\ captured' = [captured EXCEPT ![r] = [usage |-> FALSE, error |-> TRUE]]
    /\ UNCHANGED <<turn, attempt, stripped, held, slot, connected, answer,
                   relayed, lines, last, meter>>

\* The upstream dies: the Responses generator raises, the Messages one notes
\* the error and yields an error event.
StreamBreaks(r) ==
    /\ pc[r] = "stream"
    /\ broken' = [broken EXCEPT ![r] = TRUE]
    /\ \/ /\ turn[r].route = "responses"
          /\ pc' = [pc EXCEPT ![r] = "closing"]
          /\ UNCHANGED <<relayed, captured>>
       \/ /\ turn[r].route = "messages"
          /\ pc' = [pc EXCEPT ![r] = "told"]
          /\ relayed' = [relayed EXCEPT ![r] = IF connected[r] THEN @ \cup {"failure"} ELSE @]
          /\ Note(r, FALSE, TRUE)
    /\ UNCHANGED <<turn, attempt, stripped, held, slot, connected, answer,
                   lines, last, meter>>

Told(r) ==
    /\ Goto(r, "told", "closing")
    /\ UNCHANGED <<turn, attempt, stripped, held, slot, connected, answer,
                   stream, meter>>

\* A client may go at any time; only a streamed answer notices, and later.
ClientLeaves(r) ==
    /\ turn[r].streaming
    /\ connected[r]
    /\ connected' = [connected EXCEPT ![r] = FALSE]
    /\ UNCHANGED <<handler, turn, held, slot, stream, meter>>

Cancelled(r) ==
    /\ pc[r] \in Streaming
    /\ ~connected[r]
    /\ pc' = [pc EXCEPT ![r] = "closing"]
    /\ UNCHANGED <<turn, attempt, stripped, held, slot, connected, answer,
                   stream, meter>>

\* Mutant: the row is stored before the upstream response is closed.
CloseAfterInsert(r) ==
    \/ /\ Goto(r, "closing", "inserting")
       /\ Schedule(r, "stream", captured[r].usage, captured[r].error)
       /\ UNCHANGED <<attempt, stripped, answer, turn, held, slot, connected, stream>>
    \/ /\ pc[r] = "inserting"
       /\ row[r].state = "none"
       /\ ReturnUnmetered(r)

\* The finally clause: the upstream response is closed and a row scheduled.
Close(r) ==
    /\ pc[r] = "closing"
    /\ Answer(r, "stream", captured[r].usage, captured[r].error)

-----------------------------------------------------------------------------
(* The insert task *)

InsertOpens(r) ==
    /\ row[r].state = "scheduled"
    /\ DbFree
    /\ row' = [row EXCEPT ![r].state = "writing"]
    /\ UNCHANGED <<handler, turn, held, slot, connected, stream, scheduled>>

\* The task ends, with the row stored or its loss counted.
Settle(r) ==
    /\ answer' = [answer EXCEPT ![r] = "none"]
    /\ row' = [row EXCEPT ![r] = NoRow]
    /\ scheduled' = [scheduled EXCEPT ![r] = 0]
    /\ UNCHANGED <<pc, attempt, stripped, turn, held, slot, connected, stream>>

\* The database takes the row, or refuses it.
InsertEnds(r) == row[r].state = "writing" /\ Settle(r)

\* No connection within the pool's timeout.
InsertTimesOut(r) == row[r].state = "scheduled" /\ Settle(r)

-----------------------------------------------------------------------------
(* Specification *)

Upstream(r) ==
    PostBreaks(r) \/ ConnectRaises(r) \/ TryAgain(r) \/ Strip(r)
    \/ UpstreamRefuses(r) \/ Answered(r) \/ AnswerUnreadable(r) \/ StreamOpens(r)

Generator(r) ==
    Line(r) \/ Sniff(r) \/ StreamEnds(r) \/ StreamBreaks(r) \/ Told(r) \/ Cancelled(r)

\* What goes on without waiting for a pool.
Handler(r) ==
    LookupRefused(r) \/ Resolved(r) \/ Upstream(r) \/ BackoffEnds(r)
    \/ Generator(r) \/ Close(r)

TimesOut(r) == CheckoutTimesOut(r) \/ PostTimesOut(r) \/ InsertTimesOut(r)

Next ==
    \E r \in Requests :
        Begin(r) \/ Checkout(r) \/ Post(r) \/ Handler(r) \/ ClientLeaves(r)
        \/ InsertOpens(r) \/ InsertEnds(r) \/ TimesOut(r)

Spec == Init /\ [][Next]_vars

\* Both pools serve their waiters in order, and the upstream answers, ends or
\* breaks within its 300 seconds.  No timeout of a pool is relied on.
FairSpec ==
    /\ Spec
    /\ \A r \in Requests :
        /\ WF_vars(Handler(r))
        /\ SF_vars(Checkout(r))
        /\ SF_vars(Post(r))
        /\ SF_vars(InsertOpens(r))
        /\ WF_vars(InsertEnds(r))

-----------------------------------------------------------------------------
(* Properties *)

Pcs == {"idle", "checkout", "lookup", "post", "sent", "backoff", "closing"} \cup Streaming

\* Every variable keeps its type, a turn is sent no more often than the code
\* allows, and neither pool is overdrawn.
TypeOK ==
    /\ pc \in [Requests -> Pcs]
    /\ turn \in [Requests -> Turn]
    /\ attempt \in [Requests -> 1..MAX_UPSTREAM_ATTEMPTS]
    /\ stripped \in [Requests -> BOOLEAN]
    /\ held \in [Requests -> BOOLEAN]
    /\ slot \in [Requests -> BOOLEAN]
    /\ connected \in [Requests -> BOOLEAN]
    /\ answer \in [Requests -> Metered \cup {"none"}]
    /\ relayed \in [Requests -> SUBSET ToldKinds]
    /\ lines \in [Requests -> 0..MaxLines]
    /\ last \in [Requests -> Kinds]
    /\ broken \in [Requests -> BOOLEAN]
    /\ captured \in [Requests -> Captured]
    /\ row \in [Requests -> Row]
    /\ scheduled \in [Requests -> Nat]

\* However a turn ends, its client's answer is metered exactly once and as what
\* it was; only a refusal before the upstream and an unexpected exception leave
\* no row (responses.py:129-142, 169-186, 203-245, 275-283; anthropic.py).
MeteredOnce ==
    \A r \in Requests :
        /\ scheduled[r] = IF pc[r] = "idle" /\ answer[r] # "none" THEN 1 ELSE 0
        /\ scheduled[r] = 1 => row[r].status = answer[r]

\* Whatever fails, a turn that is over has given back its database connection
\* and its upstream connection, and a stream keeps no database connection
\* (db.py:122-129, responses.py:204-237, 276).
NothingIsKept ==
    \A r \in Requests :
        /\ held[r] = TRUE => pc[r] \notin {"idle", "checkout", "closing"} \cup Streaming
        /\ slot[r] = TRUE => pc[r] \in {"sent", "closing"} \cup Streaming

\* A client that was sent the upstream's usage and stayed is billed for it, and
\* no turn is billed whose client stayed and was not sent it
\* (responses.py:258-283, anthropic.py:404-433, 500-506).
StreamOver(r) == pc[r] = "closing" /\ pc'[r] = "idle"
UsageIsBilled ==
    [][\A r \in Requests :
        StreamOver(r) /\ connected[r] = TRUE =>
            (row'[r].usage <=> "usage" \in relayed[r])]_vars

\* A Messages stream whose upstream died is metered as a failure, and a client
\* that stayed was told, "rather than a cold connection abort"
\* (anthropic.py:482-492).
DeathIsTold ==
    [][\A r \in Requests :
        StreamOver(r) /\ broken[r] = TRUE /\ turn[r].route = "messages" =>
            /\ row'[r].error = TRUE
            /\ connected[r] = TRUE => "failure" \in relayed[r]]_vars

\* Every turn ends and its row settles without any pool's timeout: nobody waits
\* for a connection while keeping one that its holder needs (usage.py:164, azure.py:69-118).
EveryTurnEnds ==
    \A r \in Requests :
        pc[r] = "checkout" ~> pc[r] = "idle" /\ row[r].state = "none"

=============================================================================
