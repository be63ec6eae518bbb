-------------------------- MODULE HttpTurnsProofs ---------------------------
(***************************************************************************)
(* Proofs about HttpTurns, for any number of turns, attempts, connections  *)
(* and lines.                                                              *)
(*                                                                         *)
(* A step belongs to one turn and leaves the entries of every other turn   *)
(* alone (OthersStandStill), so what is to be shown of a turn r is shown   *)
(* of the steps of r.  What is shown of r is Local(r): beside the two      *)
(* invariants, that a row exists exactly while an answer waits for it      *)
(* (Rows), that a generator starts with nothing relayed and nothing        *)
(* captured (Quiet), that what was captured is what was relayed, save a    *)
(* line that is yielded and not read yet (Coupled), and that a dead        *)
(* Messages stream has noted and told its error (Broken).                  *)
(***************************************************************************)
EXTENDS HttpTurns, TLAPS

-----------------------------------------------------------------------------
(* The inductive invariant *)

Metering(r) ==
    /\ scheduled[r] = IF pc[r] = "idle" /\ answer[r] # "none" THEN 1 ELSE 0
    /\ scheduled[r] = 1 => row[r].status = answer[r]

Kept(r) ==
    /\ held[r] = TRUE => pc[r] \notin {"idle", "checkout", "closing"} \cup Streaming
    /\ slot[r] = TRUE => pc[r] \in {"sent", "closing"} \cup Streaming

Rows(r) ==
    /\ row[r].state = "none" <=> answer[r] = "none"
    /\ answer[r] # "none" => pc[r] = "idle"

Quiet(r) ==
    pc[r] \notin Streaming \cup {"closing"} =>
        relayed[r] = {} /\ captured[r].usage = FALSE /\ captured[r].error = FALSE /\ broken[r] = FALSE

Coupled(r) ==
    connected[r] = TRUE =>
        /\ pc[r] \in {"stream", "told", "closing"} =>
               ("usage" \in relayed[r] <=> captured[r].usage = TRUE)
        /\ pc[r] = "yielded" =>
               ("usage" \in relayed[r] <=> captured[r].usage = TRUE \/ last[r] = "usage")

Broken(r) ==
    broken[r] = TRUE =>
        /\ pc[r] \in {"told", "closing"}
        /\ turn[r].route = "messages" =>
               /\ captured[r].error = TRUE
               /\ connected[r] = TRUE => "failure" \in relayed[r]

Local(r) == Metering(r) /\ Kept(r) /\ Rows(r) /\ Quiet(r) /\ Coupled(r) /\ Broken(r)

IInv == TypeOK /\ \A r \in Requests : Local(r)

\* The steps of one turn.
Step(r) ==
    Begin(r) \/ Checkout(r) \/ Post(r) \/ Handler(r) \/ ClientLeaves(r)
    \/ InsertOpens(r) \/ InsertEnds(r) \/ TimesOut(r)

Still(q) ==
    /\ pc'[q] = pc[q] /\ turn'[q] = turn[q] /\ attempt'[q] = attempt[q]
    /\ stripped'[q] = stripped[q] /\ held'[q] = held[q] /\ slot'[q] = slot[q]
    /\ connected'[q] = connected[q] /\ answer'[q] = answer[q]
    /\ relayed'[q] = relayed[q] /\ lines'[q] = lines[q] /\ last'[q] = last[q]
    /\ broken'[q] = broken[q] /\ captured'[q] = captured[q] /\ row'[q] = row[q]
    /\ scheduled'[q] = scheduled[q]

-----------------------------------------------------------------------------
(* A step of one turn *)

LEMMA OthersStandStill ==
    ASSUME TypeOK, NEW r \in Requests, Step(r), NEW q \in Requests, q # r
    PROVE  Still(q)
<1> USE DEF TypeOK, Still, Goto, Schedule, Return, Answer, ReturnUnmetered, Settle, Note,
            handler, stream, meter
<1>1. CASE Begin(r)
  BY <1>1 DEF Begin
<1>2. CASE Checkout(r)
  BY <1>2 DEF Checkout
<1>3. CASE Post(r)
  BY <1>3 DEF Post
<1>4. CASE LookupRefused(r)
  BY <1>4 DEF LookupRefused
<1>5. CASE Resolved(r)
  BY <1>5 DEF Resolved
<1>6. CASE PostBreaks(r)
  BY <1>6 DEF PostBreaks
<1>7. CASE ConnectRaises(r)
  BY <1>7 DEF ConnectRaises
<1>8. CASE TryAgain(r)
  BY <1>8 DEF TryAgain
<1>9. CASE Strip(r)
  BY <1>9 DEF Strip
<1>10. CASE UpstreamRefuses(r)
  BY <1>10 DEF UpstreamRefuses
<1>11. CASE Answered(r)
  BY <1>11 DEF Answered
<1>12. CASE AnswerUnreadable(r)
  BY <1>12 DEF AnswerUnreadable
<1>13. CASE StreamOpens(r)
  BY <1>13 DEF StreamOpens
<1>14. CASE BackoffEnds(r)
  BY <1>14 DEF BackoffEnds
<1>15. CASE Line(r)
  BY <1>15 DEF Line
<1>16. CASE Sniff(r)
  BY <1>16 DEF Sniff
<1>17. CASE StreamEnds(r)
  BY <1>17 DEF StreamEnds
<1>18. CASE StreamBreaks(r)
  BY <1>18 DEF StreamBreaks
<1>19. CASE Told(r)
  BY <1>19 DEF Told
<1>20. CASE Cancelled(r)
  BY <1>20 DEF Cancelled
<1>21. CASE Close(r)
  BY <1>21 DEF Close
<1>22. CASE ClientLeaves(r)
  BY <1>22 DEF ClientLeaves
<1>23. CASE InsertOpens(r)
  BY <1>23 DEF InsertOpens
<1>24. CASE InsertEnds(r)
  BY <1>24 DEF InsertEnds
<1>25. CASE CheckoutTimesOut(r)
  BY <1>25 DEF CheckoutTimesOut
<1>26. CASE PostTimesOut(r)
  BY <1>26 DEF PostTimesOut
<1>27. CASE InsertTimesOut(r)
  BY <1>27 DEF InsertTimesOut
<1> QED BY <1>1, <1>2, <1>3, <1>4, <1>5, <1>6, <1>7, <1>8, <1>9, <1>10, <1>11, <1>12, <1>13, <1>14, <1>15, <1>16, <1>17, <1>18, <1>19, <1>20, <1>21, <1>22, <1>23, <1>24, <1>25, <1>26, <1>27
  DEF Step, Handler, Upstream, Generator, TimesOut

\* What Note leaves captured.
LEMMA Noted ==
    ASSUME TypeOK, NEW r \in Requests, NEW usage \in BOOLEAN, NEW error \in BOOLEAN,
           Note(r, usage, error)
    PROVE  /\ captured' \in [Requests -> Captured]
           /\ captured'[r].usage = TRUE <=> captured[r].usage = TRUE \/ usage = TRUE
           /\ captured'[r].error = TRUE <=> captured[r].error = TRUE \/ error = TRUE
<1> DEFINE note == [usage |-> captured[r].usage \/ usage, error |-> captured[r].error \/ error]
<1>1. captured \in [Requests -> Captured] /\ captured[r].usage \in BOOLEAN /\ captured[r].error \in BOOLEAN
  BY DEF TypeOK, Captured
<1>2. note \in Captured
  BY DEF Captured
<1>3. captured' = [captured EXCEPT ![r] = note]
  BY DEF Note
<1>4. captured' \in [Requests -> Captured] /\ captured'[r] = note
  BY <1>1, <1>2, <1>3
<1>5. note.usage = TRUE <=> captured[r].usage = TRUE \/ usage = TRUE
  BY <1>1
<1>6. note.error = TRUE <=> captured[r].error = TRUE \/ error = TRUE
  BY <1>1
<1> QED BY <1>4, <1>5, <1>6

\* Every step keeps the type invariant.
LEMMA StepKeepsTypes ==
    ASSUME TypeOK, NEW r \in Requests, Step(r)
    PROVE  TypeOK'
<1> USE AttemptsAssumption, PoolsAssumption
    DEF TypeOK, Goto, Schedule, Return, Answer, ReturnUnmetered, Settle, Note, handler, stream,
        meter, Pcs, Streaming, Turn, NoTurn, Metered, Kinds, ToldKinds, Captured,
        NothingCaptured, Row, NoRow
<1>1. CASE Begin(r)
  BY <1>1 DEF Begin
<1>2. CASE Checkout(r)
  BY <1>2 DEF Checkout
<1>3. CASE Post(r)
  BY <1>3 DEF Post
<1>4. CASE LookupRefused(r)
  BY <1>4 DEF LookupRefused
<1>5. CASE Resolved(r)
  BY <1>5 DEF Resolved
<1>6. CASE PostBreaks(r)
  BY <1>6 DEF PostBreaks
<1>7. CASE ConnectRaises(r)
  BY <1>7 DEF ConnectRaises
<1>8. CASE TryAgain(r)
  BY <1>8 DEF TryAgain
<1>9. CASE Strip(r)
  BY <1>9 DEF Strip
<1>10. CASE UpstreamRefuses(r)
  BY <1>10 DEF UpstreamRefuses
<1>11. CASE Answered(r)
  BY <1>11 DEF Answered
<1>12. CASE AnswerUnreadable(r)
  BY <1>12 DEF AnswerUnreadable
<1>13. CASE StreamOpens(r)
  BY <1>13 DEF StreamOpens
<1>14. CASE BackoffEnds(r)
  BY <1>14 DEF BackoffEnds
<1>15. CASE Line(r)
  BY <1>15 DEF Line
<1>16. CASE Sniff(r)
  BY <1>16 DEF Sniff
<1>17. CASE StreamEnds(r)
  BY <1>17 DEF StreamEnds
<1>18. CASE StreamBreaks(r)
  <2>1. relayed' \in [Requests -> SUBSET ToldKinds]
    <3> DEFINE sent == IF connected[r] THEN relayed[r] \cup {"failure"} ELSE relayed[r]
    <3>1. sent \in SUBSET ToldKinds
      OBVIOUS
    <3>2. relayed' = relayed \/ relayed' = [relayed EXCEPT ![r] = sent]
      BY <1>18 DEF StreamBreaks
    <3> QED BY <3>1, <3>2
  <2>2. captured' \in [Requests -> Captured]
    <3>1. CASE turn[r].route = "responses"
      BY <1>18, <3>1 DEF StreamBreaks
    <3>2. CASE turn[r].route # "responses"
      BY <1>18, <3>2, Noted DEF StreamBreaks
    <3> QED BY <3>1, <3>2
  <2> QED BY <1>18, <2>1, <2>2 DEF StreamBreaks
<1>19. CASE Told(r)
  BY <1>19 DEF Told
<1>20. CASE Cancelled(r)
  BY <1>20 DEF Cancelled
<1>21. CASE Close(r)
  BY <1>21 DEF Close
<1>22. CASE ClientLeaves(r)
  BY <1>22 DEF ClientLeaves
<1>23. CASE InsertOpens(r)
  <2>1. row[r] \in Row
    OBVIOUS
  <2>2. [row[r] EXCEPT !.state = "writing"] \in Row
    BY <2>1
  <2>3. row' \in [Requests -> Row]
    BY <1>23, <2>2 DEF InsertOpens
  <2> QED BY <1>23, <2>3 DEF InsertOpens
<1>24. CASE InsertEnds(r)
  BY <1>24 DEF InsertEnds
<1>25. CASE CheckoutTimesOut(r)
  BY <1>25 DEF CheckoutTimesOut
<1>26. CASE PostTimesOut(r)
  BY <1>26 DEF PostTimesOut
<1>27. CASE InsertTimesOut(r)
  BY <1>27 DEF InsertTimesOut
<1> QED BY <1>1, <1>2, <1>3, <1>4, <1>5, <1>6, <1>7, <1>8, <1>9, <1>10, <1>11, <1>12, <1>13, <1>14, <1>15, <1>16, <1>17, <1>18, <1>19, <1>20, <1>21, <1>22, <1>23, <1>24, <1>25, <1>26, <1>27
  DEF Step, Handler, Upstream, Generator, TimesOut

\* A step of r keeps what is shown of r.
LEMMA StepKeepsLocal ==
    ASSUME TypeOK, NEW r \in Requests, Local(r), Step(r)
    PROVE  Local(r)'
<1> USE DEF TypeOK, Local, Metering, Kept, Rows, Quiet, Coupled, Broken, Goto, Schedule, Return,
        Answer, ReturnUnmetered, Settle, Note, handler, stream, meter, Pcs, Streaming, Metered,
        Captured, NothingCaptured, NoRow, Kinds, ToldKinds, Row
<1>1. CASE Begin(r)
  BY <1>1 DEF Begin
<1>2. CASE Checkout(r)
  BY <1>2 DEF Checkout
<1>3. CASE Post(r)
  BY <1>3 DEF Post
<1>4. CASE LookupRefused(r)
  BY <1>4 DEF LookupRefused
<1>5. CASE Resolved(r)
  BY <1>5 DEF Resolved
<1>6. CASE PostBreaks(r)
  BY <1>6 DEF PostBreaks
<1>7. CASE ConnectRaises(r)
  BY <1>7 DEF ConnectRaises
<1>8. CASE TryAgain(r)
  BY <1>8 DEF TryAgain
<1>9. CASE Strip(r)
  BY <1>9 DEF Strip
<1>10. CASE UpstreamRefuses(r)
  BY <1>10 DEF UpstreamRefuses
<1>11. CASE Answered(r)
  BY <1>11 DEF Answered
<1>12. CASE AnswerUnreadable(r)
  BY <1>12 DEF AnswerUnreadable
<1>13. CASE StreamOpens(r)
  BY <1>13 DEF StreamOpens
<1>14. CASE BackoffEnds(r)
  BY <1>14 DEF BackoffEnds
<1>15. CASE Line(r)
  <2>1. PICK kind \in Kinds :
            /\ relayed' = [relayed EXCEPT ![r] = IF connected[r] THEN @ \cup ({kind} \cap ToldKinds) ELSE @]
            /\ last' = [last EXCEPT ![r] = kind]
            /\ Note(r, FALSE, kind = "overflow" /\ turn[r].route = "responses")
    BY <1>15 DEF Line
  <2>2. captured'[r].usage = TRUE <=> captured[r].usage = TRUE
    BY <2>1, Noted
  <2>3. pc[r] = "stream" /\ pc'[r] = "yielded" /\ connected' = connected /\ last'[r] = kind
    BY <1>15, <2>1 DEF Line
  <2>4. Coupled(r)'
    <3>1. ASSUME connected[r] = TRUE
          PROVE  "usage" \in relayed'[r] <=> "usage" \in relayed[r] \/ kind = "usage"
      BY <2>1, <3>1
    <3> QED BY <2>2, <2>3, <3>1
  <2>5. Metering(r)' /\ Kept(r)' /\ Rows(r)' /\ Quiet(r)' /\ Broken(r)'
    BY <1>15, <2>3 DEF Line
  <2> QED BY <2>4, <2>5
<1>16. CASE Sniff(r)
  BY <1>16 DEF Sniff
<1>17. CASE StreamEnds(r)
  BY <1>17 DEF StreamEnds
<1>18. CASE StreamBreaks(r)
  <2>1. CASE turn[r].route = "responses"
    BY <1>18, <2>1 DEF StreamBreaks
  <2>2. CASE turn[r].route # "responses"
    <3>1. /\ turn[r].route = "messages"
          /\ pc' = [pc EXCEPT ![r] = "told"]
          /\ relayed' = [relayed EXCEPT ![r] = IF connected[r] THEN @ \cup {"failure"} ELSE @]
          /\ Note(r, FALSE, TRUE)
      BY <1>18, <2>2 DEF StreamBreaks
    <3>2. (captured'[r].usage = TRUE <=> captured[r].usage = TRUE) /\ captured'[r].error = TRUE
      BY <3>1, Noted
    <3>3. pc[r] = "stream" /\ pc'[r] = "told" /\ connected' = connected
      BY <1>18, <3>1 DEF StreamBreaks
    <3>4. connected[r] = TRUE => relayed'[r] = relayed[r] \cup {"failure"}
      BY <3>1
    <3>5. Coupled(r)' /\ Broken(r)' /\ Quiet(r)'
      BY <3>2, <3>3, <3>4
    <3>6. Metering(r)' /\ Kept(r)' /\ Rows(r)'
      BY <1>18, <3>3 DEF StreamBreaks
    <3> QED BY <3>5, <3>6
  <2> QED BY <2>1, <2>2
<1>19. CASE Told(r)
  BY <1>19 DEF Told
<1>20. CASE Cancelled(r)
  BY <1>20 DEF Cancelled
<1>21. CASE Close(r)
  BY <1>21 DEF Close
<1>22. CASE ClientLeaves(r)
  BY <1>22 DEF ClientLeaves
<1>23. CASE InsertOpens(r)
  BY <1>23 DEF InsertOpens
<1>24. CASE InsertEnds(r)
  BY <1>24 DEF InsertEnds
<1>25. CASE CheckoutTimesOut(r)
  BY <1>25 DEF CheckoutTimesOut
<1>26. CASE PostTimesOut(r)
  BY <1>26 DEF PostTimesOut
<1>27. CASE InsertTimesOut(r)
  BY <1>27 DEF InsertTimesOut
<1> QED BY <1>1, <1>2, <1>3, <1>4, <1>5, <1>6, <1>7, <1>8, <1>9, <1>10, <1>11, <1>12, <1>13, <1>14, <1>15, <1>16, <1>17, <1>18, <1>19, <1>20, <1>21, <1>22, <1>23, <1>24, <1>25, <1>26, <1>27
  DEF Step, Handler, Upstream, Generator, TimesOut

-----------------------------------------------------------------------------
(* The invariant *)

LEMMA Starts == Init => IInv
BY AttemptsAssumption, PoolsAssumption
   DEF Init, IInv, TypeOK, Local, Metering, Kept, Rows, Quiet, Coupled, Broken, Pcs, Streaming,
       Turn, NoTurn, Metered, Kinds, ToldKinds, Captured, NothingCaptured, Row, NoRow

LEMMA StillKeepsLocal ==
    ASSUME NEW q \in Requests, Local(q), Still(q)
    PROVE  Local(q)'
BY DEF Still, Local, Metering, Kept, Rows, Quiet, Coupled, Broken

\* Every step of the system keeps the invariant.
LEMMA StepKeepsIInv == IInv /\ [Next]_vars => IInv'
<1> SUFFICES ASSUME IInv, [Next]_vars PROVE IInv'
  OBVIOUS
<1>1. CASE UNCHANGED vars
  BY <1>1 DEF IInv, vars, TypeOK, Local, Metering, Kept, Rows, Quiet, Coupled, Broken
<1>2. CASE Next
  <2>1. PICK r \in Requests : Step(r)
    BY <1>2 DEF Next, Step
  <2>2. TypeOK'
    BY <2>1, StepKeepsTypes DEF IInv
  <2>3. ASSUME NEW q \in Requests PROVE Local(q)'
    <3>1. CASE q = r
      BY <2>1, <3>1, StepKeepsLocal DEF IInv
    <3>2. CASE q # r
      BY <2>1, <3>2, OthersStandStill, StillKeepsLocal DEF IInv
    <3> QED BY <3>1, <3>2
  <2> QED BY <2>2, <2>3 DEF IInv
<1> QED BY <1>1, <1>2

THEOREM Invariant == Spec => []IInv
BY Starts, StepKeepsIInv, PTL DEF Spec

\* Every variable keeps its type and no turn is sent more often than
\* MAX_UPSTREAM_ATTEMPTS (azure.py:70).
THEOREM TypeCorrect == Spec => []TypeOK
BY Invariant, PTL DEF IInv

\* However a turn ends, its answer is metered exactly once, as what it was
\* (the usage.schedule calls of responses.py and anthropic.py).
THEOREM EachAnswerIsMeteredOnce == Spec => []MeteredOnce
<1>1. IInv => MeteredOnce
  BY DEF IInv, Local, Metering, MeteredOnce
<1> QED BY Invariant, <1>1, PTL

\* A turn that is over has given both its connections back, and a stream keeps
\* none of the database (db.py:122-129, responses.py:204-237, 276).
THEOREM ConnectionsAreReturned == Spec => []NothingIsKept
<1>1. IInv => NothingIsKept
  BY DEF IInv, Local, Kept, NothingIsKept
<1> QED BY Invariant, <1>1, PTL

-----------------------------------------------------------------------------
(* The action properties *)

\* Only Close ends a stream.
LEMMA StreamOverCloses ==
    ASSUME TypeOK, [Next]_vars, NEW r \in Requests, StreamOver(r)
    PROVE  Close(r)
<1>1. Next
  BY DEF StreamOver, vars
<1>2. PICK q \in Requests : Step(q)
  BY <1>1 DEF Next, Step
<1>3. q = r
  BY <1>2, OthersStandStill DEF StreamOver, Still
<1>4. Step(r) /\ pc[r] = "closing" /\ pc'[r] = "idle"
  BY <1>2, <1>3 DEF StreamOver
<1>5. ~InsertOpens(r) /\ ~InsertEnds(r) /\ ~InsertTimesOut(r) /\ ~ClientLeaves(r)
  BY <1>4 DEF InsertOpens, InsertEnds, InsertTimesOut, ClientLeaves, Settle, handler
<1>6. ~CheckoutTimesOut(r) /\ ~PostTimesOut(r) /\ ~Begin(r) /\ ~Checkout(r) /\ ~Post(r)
  BY <1>4 DEF CheckoutTimesOut, PostTimesOut, Begin, Checkout, Post, Goto
<1>7. ~LookupRefused(r) /\ ~Resolved(r) /\ ~BackoffEnds(r) /\ ~Upstream(r)
  BY <1>4 DEF LookupRefused, Resolved, BackoffEnds, Upstream, PostBreaks, ConnectRaises, TryAgain,
              Strip, UpstreamRefuses, Answered, AnswerUnreadable, StreamOpens, Goto
<1>8. ~Generator(r)
  BY <1>4 DEF Generator, Line, Sniff, StreamEnds, StreamBreaks, Told, Cancelled, Goto, Streaming
<1> QED BY <1>4, <1>5, <1>6, <1>7, <1>8 DEF Step, Handler, TimesOut

\* The row that Close schedules.
LEMMA ClosedRow ==
    ASSUME TypeOK, NEW r \in Requests, Close(r)
    PROVE  row'[r].usage = captured[r].usage /\ row'[r].error = captured[r].error
BY DEF TypeOK, Close, Answer, Schedule

\* Whoever stayed to the end of a stream is billed for it if and only if the
\* upstream's usage was sent on (responses.py:258-283, anthropic.py:404-433).
THEOREM StreamsAreBilled == Spec => UsageIsBilled
<1>1. ASSUME IInv, [Next]_vars, NEW r \in Requests, StreamOver(r), connected[r] = TRUE
      PROVE  row'[r].usage <=> "usage" \in relayed[r]
  <2>1. row'[r].usage = captured[r].usage
    BY <1>1, StreamOverCloses, ClosedRow DEF IInv
  <2>2. captured[r].usage = TRUE <=> "usage" \in relayed[r]
    BY <1>1 DEF IInv, Local, Coupled, StreamOver
  <2>3. captured[r].usage \in BOOLEAN
    BY <1>1 DEF IInv, TypeOK, Captured
  <2> QED BY <2>1, <2>2, <2>3, Zenon
<1>2. IInv /\ [Next]_vars =>
        \A r \in Requests :
            StreamOver(r) /\ connected[r] = TRUE => (row'[r].usage <=> "usage" \in relayed[r])
  BY <1>1
<1> QED BY Invariant, <1>2, PTL DEF Spec, UsageIsBilled

\* A Messages stream whose upstream died is metered as a failure, and its client
\* was told (anthropic.py:482-492).
THEOREM DeadStreamsAreTold == Spec => DeathIsTold
<1>1. ASSUME IInv, [Next]_vars, NEW r \in Requests,
             StreamOver(r), broken[r] = TRUE, turn[r].route = "messages"
      PROVE  row'[r].error = TRUE /\ (connected[r] = TRUE => "failure" \in relayed[r])
  <2>1. row'[r].error = captured[r].error
    BY <1>1, StreamOverCloses, ClosedRow DEF IInv
  <2> QED BY <1>1, <2>1 DEF IInv, Local, Broken
<1>2. IInv /\ [Next]_vars =>
        \A r \in Requests :
            StreamOver(r) /\ broken[r] = TRUE /\ turn[r].route = "messages" =>
                /\ row'[r].error = TRUE
                /\ connected[r] = TRUE => "failure" \in relayed[r]
  BY <1>1
<1> QED BY Invariant, <1>2, PTL DEF Spec, DeathIsTold

=============================================================================
