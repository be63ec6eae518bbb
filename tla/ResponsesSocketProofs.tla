----------------------- MODULE ResponsesSocketProofs ------------------------
(***************************************************************************)
(* Proofs about ResponsesSocket, for any number of attempts and any        *)
(* streams: the types, and that a connection implements TurnRelay.  The    *)
(* refinement rests on the hold-back discipline (Held): what was sent and  *)
(* what is held back are consecutive pieces of the current attempt, and    *)
(* nothing was sent wherever a retry can still happen.                     *)
(***************************************************************************)
EXTENDS ResponsesSocket, TLAPS

\* s, then b, is a prefix of m.
Begin(s, b, m) ==
    /\ Len(s) + Len(b) <= Len(m)
    /\ \A i \in 1..Len(s) : s[i] = m[i]
    /\ \A i \in 1..Len(b) : b[i] = m[Len(s) + i]

\* What was sent, then what is held back, begins what was read.
Pieces == Begin(sent, buffer, emitted)

\* Between an error-free read and the next nothing is missing between the two
\* and the upstream.
Complete ==
    pc = "stream" \/ (pc = "flush" /\ ~got_error)
        => Len(sent) + Len(buffer) = Len(emitted)

\* Nothing has been sent where another attempt may follow.
Unsent ==
    \/ pc \in {"auth", "receive", "resolve", "post", "backoff"}
    \/ pc \in {"stream", "ended"} /\ ~flushed
    => sent = <<>>

\* The proxy's message is the last thing it says.
Last ==
    notice # "none" =>
        \/ pc \in {"closing", "linger", "closed"}
        \/ pc = "ended" /\ flushed

SendingFlushed == pc = "flush" => flushed

\* An attempt that has not opened its stream has read nothing.
Fresh == pc \in {"auth", "receive", "resolve", "post"} => emitted = <<>>

Held == Pieces /\ Complete /\ Unsent /\ Last /\ SendingFlushed /\ Fresh
IInv == TypeOK /\ Held

-----------------------------------------------------------------------------
(* Types *)

\* A usage row is made of two flags and an error.
LEMMA RowType ==
    ASSUME NEW w \in BOOLEAN, NEW e \in Errors, NEW u \in BOOLEAN
    PROVE  [written |-> w, error |-> e, usage |-> u]
             \in [written : BOOLEAN, error : Errors, usage : BOOLEAN]
  OBVIOUS

\* The connection starts well typed.
LEMMA TypeInit == Init => TypeOK
<1> SUFFICES ASSUME Init PROVE TypeOK
  OBVIOUS
<1>1. row \in [written : BOOLEAN, error : Errors, usage : BOOLEAN]
  BY RowType DEF Init, NoRow, Errors
<1>2. pc \in Pcs /\ captured_error \in Errors
  BY DEF Init, Pcs, Errors
<1>3. attempt \in 0..max_retries
  BY BoundAssumption DEF Init
<1>4. emitted \in Seq(Events) /\ buffer \in Seq(Events) /\ sent \in Seq(Events)
  BY DEF Init
<1> QED
  BY <1>1, <1>2, <1>3, <1>4 DEF Init, TypeOK

\* Leaving through the finally clause keeps the types.
LEMMA FinishType ==
    ASSUME TypeOK, NEW e \in Errors, Finish(e), UNCHANGED <<loop, client>>
    PROVE  TypeOK'
<1>1. row' \in [written : BOOLEAN, error : Errors, usage : BOOLEAN]
  <2>1. "none" \in Errors
    BY DEF Errors
  <2>2. captured_usage \in BOOLEAN
    BY DEF TypeOK
  <2>3. row' = [written |-> TRUE, error |-> e, usage |-> captured_usage]
        \/ row' = [written |-> FALSE, error |-> "none", usage |-> FALSE]
    BY DEF Finish, NoRow
  <2>4. [written |-> TRUE, error |-> e, usage |-> captured_usage]
          \in [written : BOOLEAN, error : Errors, usage : BOOLEAN]
    BY <2>2, RowType
  <2>5. [written |-> FALSE, error |-> "none", usage |-> FALSE]
          \in [written : BOOLEAN, error : Errors, usage : BOOLEAN]
    BY <2>1, RowType
  <2> QED
    BY <2>3, <2>4, <2>5
<1>2. captured_error' \in Errors /\ pc' \in Pcs
  BY DEF Finish, Pcs
<1> QED
  BY <1>1, <1>2 DEF TypeOK, Finish, loop, client, turn

\* So does leaving by an exception.
LEMMA RaiseType ==
    ASSUME TypeOK, NEW e \in Errors, Raise(e)
    PROVE  TypeOK'
<1>1. Or(captured_error, e) \in Errors
  BY DEF TypeOK, Or
<1> QED
  BY <1>1, FinishType DEF Raise

\* So does a send to a client that left.
LEMMA SendRaisesType ==
    ASSUME TypeOK, SendRaises
    PROVE  TypeOK'
  BY RaiseType DEF SendRaises, Errors

\* So does a message of the proxy, sent or not.
LEMMA TellType ==
    ASSUME TypeOK, NEW n \in Notices, Tell(n)
    PROVE  TypeOK'
<1>1. CASE SendRaises
  BY <1>1, SendRaisesType
<1>2. CASE ~SendRaises
  BY <1>2 DEF Tell, TypeOK, turn, loop, captured, Pcs
<1> QED
  BY <1>1, <1>2

\* The steps before the upstream is called.
LEMMA PreludeType ==
    ASSUME TypeOK, Prelude \/ FromClient
    PROVE  TypeOK'
<1>1. CASE AuthFails
  BY <1>1, TellType DEF AuthFails, Notices
<1>2. CASE Authenticate
  BY <1>2 DEF Authenticate, TypeOK, turn, loop, captured, client, Pcs
<1>3. CASE ResolveFails
  BY <1>3, TellType DEF ResolveFails, Notices
<1>4. CASE Resolve
  BY <1>4, BoundAssumption DEF Resolve, TypeOK, turn, captured, client, Pcs
<1>5. CASE Receive
  BY <1>5 DEF Receive, TypeOK, loop, captured, client, Pcs
<1>6. CASE ReceiveWithoutModel
  BY <1>6, TellType DEF ReceiveWithoutModel, Notices
<1>7. CASE ReceiveFails
  BY <1>7, RaiseType DEF ReceiveFails, Errors
<1>8. CASE ClientLeaves
  BY <1>8 DEF ClientLeaves, TypeOK, turn, loop, captured, client
<1> QED
  BY <1>1, <1>2, <1>3, <1>4, <1>5, <1>6, <1>7, <1>8 DEF Prelude, FromClient

\* The next attempt, or the end of the loop.
LEMMA NextAttemptType ==
    ASSUME TypeOK, NextAttempt
    PROVE  /\ pc' \in Pcs
           /\ attempt' \in 0..max_retries
           /\ emitted' \in Seq(Events) /\ buffer' \in Seq(Events)
           /\ flushed' \in BOOLEAN /\ got_error' \in BOOLEAN
<1>1. attempt' \in 0..max_retries
  BY BoundAssumption DEF NextAttempt, TypeOK
<1>2. pc' \in Pcs
  BY DEF NextAttempt, Pcs
<1>3. <<>> \in Seq(Events)
  OBVIOUS
<1> QED
  BY <1>1, <1>2, <1>3 DEF NextAttempt

\* The steps around the upstream request.
LEMMA AttemptsType ==
    ASSUME TypeOK, Attempts
    PROVE  TypeOK'
<1>1. CASE UpstreamBreaks
  BY <1>1, RaiseType DEF UpstreamBreaks, Errors
<1>2. CASE Opened
  BY <1>2 DEF Opened, TypeOK, turn, loop, captured, client, Pcs
<1>3. CASE RefusedOverflow
  <2>1. emitted' \in Seq(Events)
    BY <1>3 DEF RefusedOverflow, TypeOK, Events
  <2> QED
    BY <1>3, <2>1 DEF RefusedOverflow, TypeOK, turn, client, Pcs, Errors
<1>8. CASE TellRefusal
  BY <1>8, TellType DEF TellRefusal, Notices
<1>4. CASE RefusedEncrypted
  BY <1>4, NextAttemptType DEF RefusedEncrypted, TypeOK, captured, client
<1>5. CASE RefusedRetried
  BY <1>5 DEF RefusedRetried, TypeOK, turn, loop, captured, client, Pcs
<1>6. CASE RefusedFinally
  BY <1>6, TellType DEF RefusedFinally, Notices
<1>7. CASE Backoff
  BY <1>7, NextAttemptType DEF Backoff, TypeOK, turn, captured, client
<1> QED
  BY <1>1, <1>2, <1>3, <1>4, <1>5, <1>6, <1>7, <1>8 DEF Attempts

\* The steps of a stream.
LEMMA StreamType ==
    ASSUME TypeOK, Stream
    PROVE  TypeOK'
<1>1. ASSUME NEW e \in Events, Line(e)
      PROVE  TypeOK'
  BY <1>1 DEF Line, Hold, TypeOK, turn, client, Pcs
<1>2. CASE LineOverflow
  BY <1>2 DEF LineOverflow, TypeOK, turn, client, Pcs, Events, Errors
<1>3. CASE LineError
  BY <1>3 DEF LineError, TypeOK, turn, client, captured, Pcs, Events
<1>4. CASE StreamEnds
  BY <1>4 DEF StreamEnds, TypeOK, turn, loop, captured, client, Pcs
<1>5. CASE SendNext
  <2>1. CASE SendRaises
    BY <2>1, SendRaisesType
  <2>2. CASE ~SendRaises
    <3>1. Head(buffer) \in Events /\ Tail(buffer) \in Seq(Events)
      BY <1>5 DEF SendNext, TypeOK
    <3>2. sent' = Append(sent, Head(buffer)) /\ buffer' = Tail(buffer)
      BY <1>5, <2>2 DEF SendNext
    <3>3. sent' \in Seq(Events) /\ buffer' \in Seq(Events)
      BY <3>1, <3>2 DEF TypeOK
    <3> QED
      BY <1>5, <2>2, <3>3 DEF SendNext, TypeOK, turn, captured
  <2> QED
    BY <2>1, <2>2
<1>6. CASE Flushed
  BY <1>6 DEF Flushed, TypeOK, turn, loop, captured, client, Pcs
<1>7. CASE TellOverflow
  <2>1. CASE SendRaises
    BY <2>1, SendRaisesType
  <2>2. CASE ~SendRaises
    BY <1>7, <2>2 DEF TellOverflow, TypeOK, turn, loop, captured, Pcs, Notices
  <2> QED
    BY <2>1, <2>2
<1> QED
  BY <1>1, <1>2, <1>3, <1>4, <1>5, <1>6, <1>7 DEF Stream

\* The steps after a stream.
LEMMA EndingType ==
    ASSUME TypeOK, Ending
    PROVE  TypeOK'
<1>1. CASE RetryStream
  BY <1>1 DEF RetryStream, TypeOK, turn, loop, captured, client, Pcs
<1>2. CASE GiveUp
  BY <1>2 DEF GiveUp, TypeOK, turn, loop, client, Pcs, Errors
<1>3. CASE Drained
  BY <1>3 DEF Drained, TypeOK, turn, loop, captured, client, Pcs
<1>4. CASE TurnDone
  BY <1>4 DEF TurnDone, TypeOK, turn, loop, captured, client, Pcs
<1>5. captured_error \in Errors /\ Or(captured_error, "exception") \in Errors
  BY DEF TypeOK, Or, Errors
<1>6. CASE Linger
  BY <1>5, <1>6, FinishType DEF Linger
<1>7. CASE CloseAndReturn
  BY <1>5, <1>7, FinishType DEF CloseAndReturn
<1> QED
  BY <1>1, <1>2, <1>3, <1>4, <1>6, <1>7 DEF Ending

\* Every step keeps the types.
LEMMA TypeStep == TypeOK /\ [Next]_vars => TypeOK'
<1>1. ASSUME TypeOK, UNCHANGED vars
      PROVE  TypeOK'
  BY <1>1 DEF TypeOK, vars, turn, loop, captured, client
<1> QED
  BY <1>1, PreludeType, AttemptsType, StreamType, EndingType DEF Next, Handler

\* Every variable of a connection keeps its type; at most max_retries requests
\* are sent upstream.
THEOREM TypeCorrect == Spec => []TypeOK
  BY TypeInit, TypeStep, PTL DEF Spec

-----------------------------------------------------------------------------
(* The hold-back discipline *)

\* Nothing is sent or held when the connection starts.
LEMMA HeldInit == Init => Held
  BY DEF Init, Held, Pieces, Begin, Complete, Unsent, Last, SendingFlushed, Fresh

\* Leaving by the finally clause keeps it: nothing is sent any more.
LEMMA FinishHeld ==
    ASSUME IInv, NEW e, Finish(e), UNCHANGED <<loop, client>>
    PROVE  Held'
  BY DEF IInv, Held, Pieces, Complete, Unsent, Last, SendingFlushed, Fresh, Finish,
         loop, client

\* So does an exception.
LEMMA RaiseHeld ==
    ASSUME IInv, NEW e, Raise(e)
    PROVE  Held'
  BY FinishHeld DEF Raise

\* So does a message before the handler closes.
LEMMA TellHeld ==
    ASSUME IInv, NEW n, Tell(n)
    PROVE  Held'
<1>1. CASE SendRaises
  BY <1>1, RaiseHeld DEF SendRaises
<1>2. CASE ~SendRaises
  BY <1>2 DEF Tell, IInv, Held, Pieces, Complete, Unsent, Last, SendingFlushed, Fresh, loop
<1> QED
  BY <1>1, <1>2

\* Before the upstream is called there is nothing to hold.
LEMMA PreludeHeld ==
    ASSUME IInv, Prelude \/ FromClient
    PROVE  Held'
<1>1. CASE AuthFails
  BY <1>1, TellHeld DEF AuthFails
<1>2. CASE Authenticate
  BY <1>2 DEF Authenticate, IInv, Held, Pieces, Complete, Unsent, Last,
              SendingFlushed, Fresh, loop, client
<1>3. CASE ResolveFails
  BY <1>3, TellHeld DEF ResolveFails
<1>4. CASE Resolve
  BY <1>4 DEF Resolve, IInv, Held, Pieces, Complete, Unsent, Last,
              SendingFlushed, Fresh, client
<1>5. CASE Receive
  BY <1>5 DEF Receive, IInv, Held, Pieces, Complete, Unsent, Last,
              SendingFlushed, Fresh, loop, client
<1>6. CASE ReceiveWithoutModel
  BY <1>6, TellHeld DEF ReceiveWithoutModel
<1>7. CASE ReceiveFails
  BY <1>7, RaiseHeld DEF ReceiveFails
<1>8. CASE ClientLeaves
  BY <1>8 DEF ClientLeaves, IInv, Held, Pieces, Complete, Unsent, Last,
              SendingFlushed, Fresh, loop, client
<1> QED
  BY <1>1, <1>2, <1>3, <1>4, <1>5, <1>6, <1>7, <1>8 DEF Prelude, FromClient

\* A new attempt starts from nothing, and nothing has been sent.
LEMMA NextAttemptHeld ==
    ASSUME IInv, NextAttempt, pc \in {"post", "backoff"}, UNCHANGED client
    PROVE  Held'
<1>1. sent = <<>> /\ notice = "none"
  BY DEF IInv, Held, Unsent, Last
<1>2. sent' = <<>> /\ notice' = "none" /\ buffer' = <<>> /\ emitted' = <<>>
  BY <1>1 DEF NextAttempt, client
<1>3. pc' \in {"post", "linger"}
  BY DEF NextAttempt
<1> QED
  BY <1>2, <1>3 DEF Held, Pieces, Begin, Complete, Unsent, Last, SendingFlushed, Fresh

\* The steps around the upstream request; an opened stream has produced nothing.
LEMMA AttemptsHeld ==
    ASSUME IInv, Attempts
    PROVE  Held'
<1>1. CASE UpstreamBreaks
  BY <1>1, RaiseHeld DEF UpstreamBreaks
<1>2. CASE Opened
  BY <1>2 DEF Opened, IInv, Held, Pieces, Begin, Complete, Unsent, Last,
              SendingFlushed, Fresh, loop, client
<1>3. CASE RefusedOverflow
  <2>1. emitted \in Seq(Events) /\ buffer \in Seq(Events) /\ sent \in Seq(Events)
    BY DEF IInv, TypeOK
  <2> QED
    BY <1>3, <2>1 DEF RefusedOverflow, IInv, Held, Pieces, Begin, Complete, Unsent, Last,
                      SendingFlushed, Fresh, client
<1>8. CASE TellRefusal
  BY <1>8, TellHeld DEF TellRefusal
<1>4. CASE RefusedEncrypted
  BY <1>4, NextAttemptHeld DEF RefusedEncrypted
<1>5. CASE RefusedRetried
  BY <1>5 DEF RefusedRetried, IInv, Held, Pieces, Complete, Unsent, Last,
              SendingFlushed, Fresh, loop, client
<1>6. CASE RefusedFinally
  BY <1>6, TellHeld DEF RefusedFinally
<1>7. CASE Backoff
  BY <1>7, NextAttemptHeld DEF Backoff
<1> QED
  BY <1>1, <1>2, <1>3, <1>4, <1>5, <1>6, <1>7, <1>8 DEF Attempts

\* Pieces that make up a stream still do when both grow by the same event.
LEMMA AppendPieces ==
    ASSUME NEW s \in Seq(Events), NEW b \in Seq(Events), NEW m \in Seq(Events),
           NEW e \in Events, Begin(s, b, m), Len(s) + Len(b) = Len(m)
    PROVE  /\ Begin(s, Append(b, e), Append(m, e))
           /\ Len(s) + Len(Append(b, e)) = Len(Append(m, e))
<1>1. /\ Len(s) \in Nat /\ Len(b) \in Nat /\ Len(m) \in Nat
      /\ Len(Append(b, e)) = Len(b) + 1 /\ Len(Append(m, e)) = Len(m) + 1
  OBVIOUS
<1>2. \A i \in 1..Len(s) : s[i] = Append(m, e)[i]
  BY <1>1 DEF Begin
<1>3. ASSUME NEW i \in 1..(Len(b) + 1)
      PROVE  Append(b, e)[i] = Append(m, e)[Len(s) + i]
  <2>1. CASE i = Len(b) + 1
    <3>1. Append(b, e)[i] = e
      BY <2>1
    <3>2. Len(s) + i = Len(m) + 1
      BY <1>1, <2>1
    <3> QED
      BY <3>1, <3>2
  <2>2. CASE i \in 1..Len(b)
    <3>1. Len(s) + i \in 1..Len(m)
      BY <1>1, <2>2
    <3>2. Append(b, e)[i] = b[i] /\ Append(m, e)[Len(s) + i] = m[Len(s) + i]
      BY <2>2, <3>1
    <3> QED
      BY <2>2, <3>2 DEF Begin
  <2>3. i = Len(b) + 1 \/ i \in 1..Len(b)
    BY <1>1, <1>3
  <2> QED
    BY <2>1, <2>2, <2>3
<1>4. Len(s) + Len(Append(b, e)) = Len(Append(m, e))
  BY <1>1
<1>5. \A i \in 1..Len(Append(b, e)) : Append(b, e)[i] = Append(m, e)[Len(s) + i]
  <2>1. 1..Len(Append(b, e)) = 1..(Len(b) + 1)
    BY <1>1
  <2> QED
    BY <2>1, <1>3, Zenon
<1> QED
  BY <1>1, <1>2, <1>4, <1>5 DEF Begin

\* A line joins the held-back events, or goes out alone after the flush.
LEMMA LineHeld ==
    ASSUME IInv, NEW e \in Events, Line(e)
    PROVE  Held'
<1>1. /\ Len(sent) + Len(buffer) = Len(emitted)
      /\ buffer \in Seq(Events) /\ emitted \in Seq(Events) /\ sent \in Seq(Events)
      /\ Pieces /\ notice = "none" /\ (~flushed => sent = <<>>)
  BY DEF IInv, TypeOK, Held, Complete, Unsent, Last, Line
<1>2. /\ buffer' = Append(buffer, e) /\ emitted' = Append(emitted, e)
      /\ sent' = sent /\ notice' = notice
  BY DEF Line, Hold, client
<1>3. pc' = (IF flushed' THEN "flush" ELSE "stream") /\ (~flushed' => ~flushed)
  BY DEF Line, Hold, IInv, TypeOK
<1>4. Len(sent') + Len(buffer') = Len(emitted') /\ Pieces'
  <2>1. Begin(sent, buffer, emitted)
    BY <1>1 DEF Pieces
  <2>2. /\ Begin(sent, Append(buffer, e), Append(emitted, e))
        /\ Len(sent) + Len(Append(buffer, e)) = Len(Append(emitted, e))
    BY <1>1, <2>1, AppendPieces
  <2> QED
    BY <1>2, <2>2 DEF Pieces
<1>5. Complete'
  <2>1. Len(sent') + Len(buffer') = Len(emitted')
    BY <1>4
  <2> QED
    BY <2>1 DEF Complete
<1>6. Unsent' /\ Last' /\ SendingFlushed' /\ Fresh'
  BY <1>1, <1>2, <1>3 DEF Unsent, Last, SendingFlushed, Fresh
<1> QED
  BY <1>4, <1>5, <1>6 DEF Held

\* The steps of a stream: a send moves the first held-back event.
LEMMA StreamHeld ==
    ASSUME IInv, Stream
    PROVE  Held'
<1>1. ASSUME NEW e \in Events, Line(e)
      PROVE  Held'
  BY <1>1, LineHeld
<1> DEFINE typed == emitted \in Seq(Events) /\ buffer \in Seq(Events)
                    /\ sent \in Seq(Events)
<1>0. typed
  BY DEF IInv, TypeOK
<1>2. CASE LineOverflow
  BY <1>0, <1>2 DEF LineOverflow, IInv, Held, Pieces, Begin, Complete, Unsent, Last,
                    SendingFlushed, Fresh, client
<1>3. CASE LineError
  BY <1>0, <1>3 DEF LineError, IInv, Held, Pieces, Begin, Complete, Unsent, Last,
                    SendingFlushed, Fresh, client
<1>4. CASE StreamEnds
  BY <1>4 DEF StreamEnds, IInv, Held, Pieces, Complete, Unsent, Last,
              SendingFlushed, Fresh, loop, client
<1>5. CASE SendNext
  <2>1. CASE SendRaises
    BY <2>1, RaiseHeld DEF SendRaises
  <2>2. CASE ~SendRaises
    <3>1. /\ sent' = Append(sent, Head(buffer)) /\ buffer' = Tail(buffer)
          /\ buffer # <<>> /\ pc' = pc /\ pc \in {"flush", "drain"}
          /\ UNCHANGED <<emitted, flushed, got_error, notice>>
      BY <1>5, <2>2 DEF SendNext
    <3>2. /\ Len(sent') = Len(sent) + 1 /\ Len(buffer') = Len(buffer) - 1
          /\ \A i \in 1..Len(sent) : sent'[i] = sent[i]
          /\ sent'[Len(sent) + 1] = buffer[1]
          /\ \A i \in 1..Len(buffer') : buffer'[i] = buffer[i + 1]
          /\ Len(sent) \in Nat /\ Len(buffer) \in Nat \ {0}
      BY <1>0, <3>1
    <3>3. Pieces'
      <4>1. Pieces
        BY DEF IInv, Held
      <4>2. \A i \in 1..Len(sent') : sent'[i] = emitted[i]
        BY <4>1, <3>2 DEF Pieces, Begin
      <4>3. \A i \in 1..Len(buffer') : buffer'[i] = emitted[Len(sent') + i]
        BY <4>1, <3>2 DEF Pieces, Begin
      <4> QED
        BY <4>1, <4>2, <4>3, <3>1, <3>2 DEF Pieces, Begin
    <3>4. Complete'
      BY <3>1, <3>2 DEF IInv, Held, Complete
    <3> QED
      BY <3>1, <3>3, <3>4 DEF IInv, Held, Unsent, Last, SendingFlushed, Fresh
  <2> QED
    BY <2>1, <2>2
<1>6. CASE Flushed
  <2>1. Len(sent) = Len(emitted) /\ buffer = <<>>
    BY <1>0, <1>6 DEF Flushed, IInv, Held, Complete
  <2> QED
    BY <1>6, <2>1 DEF Flushed, IInv, Held, Pieces, Complete, Unsent, Last,
                      SendingFlushed, Fresh, loop, client
<1>7. CASE TellOverflow
  <2>1. CASE SendRaises
    BY <2>1, RaiseHeld DEF SendRaises
  <2>2. CASE ~SendRaises
    <3>1. /\ pc = "flush" /\ pc' = "ended" /\ flushed'
          /\ UNCHANGED <<sent, buffer, emitted>>
      <4>1. flushed
        BY <1>7, Zenon DEF TellOverflow, IInv, Held, SendingFlushed
      <4>2. /\ pc = "flush" /\ pc' = "ended"
            /\ UNCHANGED <<sent, buffer, emitted>> /\ flushed' = flushed
        BY <1>7, <2>2 DEF TellOverflow, loop
      <4> QED
        BY <4>1, <4>2, Zenon
    <3>2. Pieces'
      BY <3>1 DEF IInv, Held, Pieces
    <3> QED
      BY <3>1, <3>2 DEF Held, Complete, Unsent, Last, SendingFlushed, Fresh
  <2> QED
    BY <2>1, <2>2
<1> QED
  BY <1>1, <1>2, <1>3, <1>4, <1>5, <1>6, <1>7 DEF Stream

\* After the stream a retry is only possible while nothing was sent.
LEMMA EndingHeld ==
    ASSUME IInv, Ending
    PROVE  Held'
<1>1. CASE RetryStream
  BY <1>1 DEF RetryStream, IInv, Held, Pieces, Complete, Unsent, Last,
              SendingFlushed, Fresh, loop, client
<1>2. CASE GiveUp
  BY <1>2 DEF GiveUp, IInv, Held, Pieces, Complete, Unsent, Last,
              SendingFlushed, Fresh, loop, client
<1>3. CASE Drained
  BY <1>3 DEF Drained, IInv, Held, Pieces, Complete, Unsent, Last,
              SendingFlushed, Fresh, loop, client
<1>4. CASE TurnDone
  BY <1>4 DEF TurnDone, IInv, Held, Pieces, Complete, Unsent, Last,
              SendingFlushed, Fresh, loop, client
<1>5. CASE Linger
  BY <1>5, FinishHeld DEF Linger
<1>6. CASE CloseAndReturn
  BY <1>6, FinishHeld DEF CloseAndReturn
<1> QED
  BY <1>1, <1>2, <1>3, <1>4, <1>5, <1>6 DEF Ending

\* The discipline, with the types, is an invariant.
LEMMA Invariance == Spec => []IInv
<1>1. Init => IInv
  BY TypeInit, HeldInit DEF IInv
<1>2. IInv /\ [Next]_vars => IInv'
  <2>1. ASSUME IInv, UNCHANGED vars
        PROVE  Held'
    BY <2>1 DEF vars, loop, client, IInv, Held, Pieces, Complete, Unsent, Last,
                SendingFlushed, Fresh
  <2>2. IInv /\ [Next]_vars => Held'
    BY <2>1, PreludeHeld, AttemptsHeld, StreamHeld, EndingHeld DEF Next, Handler
  <2> QED
    BY <2>2, TypeStep DEF IInv
<1> QED
  BY <1>1, <1>2, PTL DEF Spec

-----------------------------------------------------------------------------
(* Every step is a step of TurnRelay, or a stutter *)

Silent == UNCHANGED <<emitted, sent, notice>> /\ (pc' = "closed" <=> pc = "closed")

\* A step that reads, sends and closes nothing is a stutter of the relay.
LEMMA SilentMaps ==
    ASSUME Silent
    PROVE  UNCHANGED Relay!vars
  BY DEF Silent, Relay!vars

\* Leaving the handler closes the relay.
LEMMA FinishMaps ==
    ASSUME pc # "closed", NEW e, Finish(e), UNCHANGED <<loop, client>>
    PROVE  Relay!Next
  BY DEF Finish, loop, client, Relay!Next, Relay!Close

\* So does an exception.
LEMMA RaiseMaps ==
    ASSUME pc # "closed", NEW e, Raise(e)
    PROVE  Relay!Next
  BY FinishMaps DEF Raise

\* A message of the proxy is told while nothing has been told yet.
LEMMA TellMaps ==
    ASSUME pc # "closed", notice = "none", NEW n \in Notices, Tell(n)
    PROVE  Relay!Next
<1>1. CASE SendRaises
  BY <1>1, RaiseMaps DEF SendRaises
<1>2. CASE ~SendRaises
  BY <1>2 DEF Tell, loop, Relay!Next, Relay!Tell, Relay!Active
<1> QED
  BY <1>1, <1>2

\* A new attempt is a retry the client cannot notice.
LEMMA NextAttemptMaps ==
    ASSUME IInv, NextAttempt, pc \in {"post", "backoff"}, UNCHANGED client
    PROVE  Relay!Next
<1>1. sent = <<>> /\ notice = "none"
  BY DEF IInv, Held, Unsent, Last
<1>2. pc' # "closed" /\ emitted' = <<>> /\ sent' = sent /\ notice' = notice
  BY DEF NextAttempt, client
<1> QED
  BY <1>1, <1>2 DEF Relay!Next, Relay!Retry, Relay!Active

\* The steps before the upstream is called.
LEMMA PreludeMaps ==
    ASSUME IInv, Prelude \/ FromClient
    PROVE  Relay!Next \/ UNCHANGED Relay!vars
<1>1. CASE AuthFails
  BY <1>1, TellMaps DEF AuthFails, Notices, IInv, Held, Last
<1>2. CASE Authenticate
  BY <1>2, SilentMaps DEF Authenticate, Silent, loop, client
<1>3. CASE ResolveFails
  BY <1>3, TellMaps DEF ResolveFails, Notices, IInv, Held, Last
<1>4. CASE Resolve
  BY <1>4, SilentMaps DEF Resolve, Silent, client
<1>5. CASE Receive
  BY <1>5, SilentMaps DEF Receive, Silent, loop, client
<1>6. CASE ReceiveWithoutModel
  BY <1>6, TellMaps DEF ReceiveWithoutModel, Notices, IInv, Held, Last
<1>7. CASE ReceiveFails
  BY <1>7, RaiseMaps DEF ReceiveFails
<1>8. CASE ClientLeaves
  BY <1>8, SilentMaps DEF ClientLeaves, Silent, loop, client
<1> QED
  BY <1>1, <1>2, <1>3, <1>4, <1>5, <1>6, <1>7, <1>8 DEF Prelude, FromClient

\* The steps around the upstream request.
LEMMA AttemptsMaps ==
    ASSUME IInv, Attempts
    PROVE  Relay!Next \/ UNCHANGED Relay!vars
<1>1. CASE UpstreamBreaks
  BY <1>1, RaiseMaps DEF UpstreamBreaks
<1>2. CASE Opened
  BY <1>2, SilentMaps DEF Opened, Silent, loop, client
<1>3. CASE RefusedOverflow
  BY <1>3 DEF RefusedOverflow, IInv, Held, Last, Events, client,
              Relay!Next, Relay!Produce, Relay!Active
<1>8. CASE TellRefusal
  BY <1>8, TellMaps DEF TellRefusal, Notices, IInv, Held, Last
<1>4. CASE RefusedEncrypted
  BY <1>4, NextAttemptMaps DEF RefusedEncrypted
<1>5. CASE RefusedRetried
  BY <1>5, SilentMaps DEF RefusedRetried, Silent, loop, client
<1>6. CASE RefusedFinally
  BY <1>6, TellMaps DEF RefusedFinally, Notices, IInv, Held, Last
<1>7. CASE Backoff
  BY <1>7, NextAttemptMaps DEF Backoff
<1> QED
  BY <1>1, <1>2, <1>3, <1>4, <1>5, <1>6, <1>7, <1>8 DEF Attempts

\* The steps of a stream: a line is produced, a send delivers the next event.
LEMMA StreamMaps ==
    ASSUME IInv, Stream
    PROVE  Relay!Next \/ UNCHANGED Relay!vars
<1>1. ASSUME NEW e \in Events, pc = "stream", pc' # "closed",
             emitted' = Append(emitted, e), UNCHANGED client
      PROVE  Relay!Next
  BY <1>1 DEF IInv, Held, Last, client, Relay!Next, Relay!Produce, Relay!Active
<1>2. ASSUME NEW e \in Events, Line(e)
      PROVE  Relay!Next
  BY <1>1, <1>2 DEF Line, Hold
<1>3. CASE LineOverflow
  BY <1>1, <1>3 DEF LineOverflow, Events
<1>4. CASE LineError
  BY <1>1, <1>4 DEF LineError, Events
<1>5. CASE StreamEnds
  BY <1>5, SilentMaps DEF StreamEnds, Silent, loop, client
<1>6. CASE SendNext
  <2>1. CASE SendRaises
    BY <1>6, <2>1, RaiseMaps DEF SendRaises, SendNext
  <2>2. CASE ~SendRaises
    <3>1. /\ sent' = Append(sent, Head(buffer)) /\ buffer # <<>>
          /\ pc' = pc /\ pc \in {"flush", "drain"}
          /\ UNCHANGED <<emitted, notice>>
      BY <1>6, <2>2 DEF SendNext
    <3>2. /\ Len(sent) \in Nat /\ Len(buffer) \in Nat \ {0}
          /\ Head(buffer) = buffer[1]
      BY <3>1 DEF IInv, TypeOK
    <3>3. Len(sent) < Len(emitted) /\ Head(buffer) = emitted[Len(sent) + 1]
      BY <3>2 DEF IInv, TypeOK, Held, Pieces, Begin
    <3> QED
      BY <3>1, <3>3 DEF IInv, Held, Last, Relay!Next, Relay!Deliver, Relay!Active
  <2> QED
    BY <2>1, <2>2
<1>7. CASE Flushed
  BY <1>7, SilentMaps DEF Flushed, Silent, loop, client
<1>8. CASE TellOverflow
  <2>1. CASE SendRaises
    BY <1>8, <2>1, RaiseMaps DEF SendRaises, TellOverflow
  <2>2. CASE ~SendRaises
    BY <1>8, <2>2 DEF TellOverflow, IInv, Held, Last, loop, Notices,
                      Relay!Next, Relay!Tell, Relay!Active
  <2> QED
    BY <2>1, <2>2
<1> QED
  BY <1>2, <1>3, <1>4, <1>5, <1>6, <1>7, <1>8 DEF Stream

\* The steps after a stream.
LEMMA EndingMaps ==
    ASSUME IInv, Ending
    PROVE  Relay!Next \/ UNCHANGED Relay!vars
<1>1. CASE RetryStream
  BY <1>1, SilentMaps DEF RetryStream, Silent, loop, client
<1>2. CASE GiveUp
  BY <1>2, SilentMaps DEF GiveUp, Silent, loop, client
<1>3. CASE Drained
  BY <1>3, SilentMaps DEF Drained, Silent, loop, client
<1>4. CASE TurnDone
  BY <1>4, SilentMaps DEF TurnDone, Silent, loop, client
<1>5. CASE Linger
  BY <1>5, FinishMaps DEF Linger
<1>6. CASE CloseAndReturn
  BY <1>6, FinishMaps DEF CloseAndReturn
<1> QED
  BY <1>1, <1>2, <1>3, <1>4, <1>5, <1>6 DEF Ending

\* A connection implements the abstract relay: the client sees a prefix of one
\* attempt, then at most one message of the proxy, for any number of retries.
THEOREM Refinement == Spec => RelaysOneAttempt
<1>1. Init => Relay!Init
  BY DEF Init, Relay!Init
<1>2. IInv /\ [Next]_vars => [Relay!Next]_(Relay!vars)
  <2>1. ASSUME UNCHANGED vars
        PROVE  UNCHANGED Relay!vars
    BY <2>1, SilentMaps DEF vars, loop, client, Silent
  <2> QED
    BY <2>1, PreludeMaps, AttemptsMaps, StreamMaps, EndingMaps DEF Next, Handler
<1> QED
  BY <1>1, <1>2, Invariance, PTL DEF Spec, RelaysOneAttempt, Relay!Spec

-----------------------------------------------------------------------------
(* An overflow is never retried *)

\* Once an overflow is captured the handler is on its way out.
Said ==
    captured_error = "overflow" =>
        \/ pc \in {"refused", "closing", "linger", "closed"}
        \/ pc \in {"flush", "ended"} /\ flushed = TRUE /\ got_error = TRUE

\* The error an exception would add leaves a captured one alone.
LEMMA SaidExit ==
    ASSUME NEW e, Finish(e)
    PROVE  Said' /\ pc' = "closed"
  BY DEF Finish, Said

\* A message leaves what was captured, and closes.
LEMMA SaidTell ==
    ASSUME NEW n, Tell(n)
    PROVE  Said' /\ pc' \in {"closing", "closed"}
  BY SaidExit DEF Tell, SendRaises, Raise, Said

\* Every step keeps it, and none of them starts an attempt afterwards.
LEMMA SaidStep ==
    ASSUME Said, Next
    PROVE  Said' /\ (captured_error = "overflow" => attempt' = attempt)
<1> DEFINE Goal == Said' /\ (captured_error = "overflow" => attempt' = attempt)
<1>1. ASSUME NEW e, Finish(e), UNCHANGED loop
      PROVE  Goal
  BY <1>1, SaidExit DEF loop
<1>2. ASSUME NEW e, Raise(e)
      PROVE  Goal
  BY <1>1, <1>2 DEF Raise
<1>3. ASSUME NEW n, Tell(n)
      PROVE  Goal
  BY <1>2, <1>3, SaidTell DEF Tell, SendRaises, loop
<1>4. CASE Prelude \/ FromClient
  BY <1>2, <1>3, <1>4
     DEF Prelude, FromClient, AuthFails, Authenticate, ResolveFails, Resolve, Receive,
         ReceiveWithoutModel, ReceiveFails, ClientLeaves, Said, loop, captured
<1>5. CASE Attempts
  <2>1. CASE RefusedOverflow
    BY <2>1 DEF RefusedOverflow, Said
  <2>2. CASE RefusedEncrypted \/ RefusedRetried \/ Backoff \/ Opened
    BY <2>2 DEF RefusedEncrypted, RefusedRetried, Backoff, Opened, NextAttempt, Said,
                loop, captured
  <2> QED
    BY <1>2, <1>3, <1>5, <2>1, <2>2 DEF Attempts, UpstreamBreaks, RefusedFinally, TellRefusal
<1>6. CASE Stream
  <2>1. ASSUME NEW e \in Events, Line(e)
        PROVE  Goal
    BY <2>1 DEF Line, Said
  <2>2. CASE LineOverflow \/ LineError \/ StreamEnds
    BY <2>2 DEF LineOverflow, LineError, StreamEnds, Said, captured, loop
  <2>3. CASE SendNext
    BY <1>2, <2>3 DEF SendNext, SendRaises, Said, captured
  <2>4. CASE Flushed
    BY <2>4 DEF Flushed, Said, captured, loop
  <2>5. CASE TellOverflow
    BY <1>2, <2>5 DEF TellOverflow, SendRaises, Said, captured, loop
  <2> QED
    BY <1>6, <2>1, <2>2, <2>3, <2>4, <2>5 DEF Stream
<1>7. CASE Ending
  <2>1. CASE RetryStream \/ GiveUp \/ Drained \/ TurnDone
    BY <2>1 DEF RetryStream, GiveUp, Drained, TurnDone, Said, captured, loop
  <2> QED
    BY <1>1, <1>7, <2>1 DEF Ending, Linger, CloseAndReturn
<1> QED
  BY <1>4, <1>5, <1>6, <1>7 DEF Next, Handler

\* A prompt the upstream called too large is never posted again.
THEOREM OverflowNotRetried == Spec => OverflowIsFinal
<1>1. Init => Said
  BY DEF Init, Said
<1>2. Said /\ [Next]_vars => Said'
  BY SaidStep DEF vars, Said, captured, loop
<1>3. Said /\ [Next]_vars => [captured_error = "overflow" => attempt' = attempt]_vars
  BY SaidStep
<1> QED
  BY <1>1, <1>2, <1>3, PTL DEF Spec, OverflowIsFinal

-----------------------------------------------------------------------------
(* An overflow is told *)

\* An attempt that overflowed has captured it, and a client that is still
\* there has been told, or will be once what was held back is sent.
Overflown ==
    Emitted("overflow") =>
        /\ captured_error = "overflow"
        /\ connected = TRUE =>
              \/ pc = "refused"
              \/ pc = "flush" /\ got_error = TRUE
              \/ notice = "overflow" /\ pc \in {"ended", "linger", "closing", "closed"}

OInv == IInv /\ Said /\ Overflown

\* What an append adds to a sequence of events.
LEMMA AppendHas ==
    ASSUME NEW m \in Seq(Events), NEW e, NEW d, NEW n, n = Append(m, e)
    PROVE  (\E i \in DOMAIN n : n[i] = d) <=> (d = e \/ \E i \in DOMAIN m : m[i] = d)
<1>1. /\ DOMAIN m = 1..Len(m) /\ DOMAIN n = 1..(Len(m) + 1) /\ Len(m) \in Nat
      /\ \A i \in 1..Len(m) : n[i] = m[i]
      /\ n[Len(m) + 1] = e
  OBVIOUS
<1>2. \A i \in 1..(Len(m) + 1) : i \in 1..Len(m) \/ i = Len(m) + 1
  BY <1>1
<1>3. 1..Len(m) \subseteq 1..(Len(m) + 1) /\ Len(m) + 1 \in 1..(Len(m) + 1)
  BY <1>1
<1> QED
  BY <1>1, <1>2, <1>3, Zenon

\* An exception leaves a captured overflow, and a client that is there gets none.
LEMMA OverflownExit ==
    ASSUME Overflown, NEW e, Finish(e), UNCHANGED <<loop, client>>,
           captured_error = "overflow" => e = "overflow",
           connected = TRUE => ~Emitted("overflow") \/ (notice = "overflow" /\ pc # "flush")
    PROVE  Overflown'
<1>1. UNCHANGED <<emitted, connected, notice>> /\ pc' = "closed" /\ captured_error' = e
  BY DEF Finish, loop, client
<1> QED
  BY <1>1 DEF Overflown, Emitted

LEMMA OverflownRaise ==
    ASSUME Overflown, NEW e, Raise(e),
           connected = TRUE => ~Emitted("overflow") \/ (notice = "overflow" /\ pc # "flush")
    PROVE  Overflown'
  BY OverflownExit DEF Raise, Or

\* A message before the handler closes comes before any event.
LEMMA OverflownTell ==
    ASSUME ~Emitted("overflow"), Overflown, NEW n, Tell(n)
    PROVE  Overflown'
  BY OverflownRaise DEF Tell, SendRaises, Overflown, Emitted, loop

\* Each step keeps it.
LEMMA OverflownStep ==
    ASSUME OInv, Next
    PROVE  Overflown'
<1> USE DEF OInv
<1>1. pc \in {"auth", "receive", "resolve", "post", "backoff", "stream"} => ~Emitted("overflow")
  BY DEF Overflown, Said
<1>2. CASE Prelude \/ FromClient
  BY <1>1, <1>2, OverflownRaise, OverflownTell
     DEF Prelude, FromClient, AuthFails, Authenticate, ResolveFails, Resolve, Receive,
         ReceiveWithoutModel, ReceiveFails, ClientLeaves, Overflown, Emitted, loop, captured,
         client
<1>3. CASE Attempts
  <2>1. CASE RefusedOverflow
    BY <2>1 DEF RefusedOverflow, Overflown
  <2>2. CASE RefusedEncrypted \/ Backoff
    BY <2>2 DEF RefusedEncrypted, Backoff, NextAttempt, Overflown, Emitted
  <2>3. CASE RefusedRetried \/ Opened
    BY <1>1, <2>3 DEF RefusedRetried, Opened, Overflown, Emitted, loop
  <2>4. CASE TellRefusal
    <3>1. CASE SendRaises
      BY <3>1, OverflownRaise DEF SendRaises, IInv, TypeOK
    <3>2. CASE ~SendRaises
      BY <2>4, <3>2 DEF TellRefusal, Tell, Overflown, Emitted, loop, captured
    <3> QED
      BY <3>1, <3>2
  <2> QED
    BY <1>1, <1>3, <2>1, <2>2, <2>3, <2>4, OverflownRaise, OverflownTell
       DEF Attempts, UpstreamBreaks, RefusedFinally
<1>4. CASE Stream
  <2>1. emitted \in Seq(Events)
    BY DEF IInv, TypeOK
  <2>2. ASSUME NEW e \in Events, Line(e)
        PROVE  Overflown'
    <3>1. e # "overflow" /\ emitted' = Append(emitted, e) /\ ~Emitted("overflow")
      BY <1>1, <2>2 DEF Line
    <3>2. ~Emitted("overflow")'
      BY <2>1, <3>1, AppendHas DEF Emitted
    <3> QED
      BY <3>2 DEF Overflown
  <2>3. CASE LineOverflow
    BY <2>3 DEF LineOverflow, Overflown
  <2>4. CASE LineError
    <3>1. emitted' = Append(emitted, "error") /\ ~Emitted("overflow")
      BY <1>1, <2>4 DEF LineError
    <3>2. ~Emitted("overflow")'
      BY <2>1, <3>1, AppendHas DEF Emitted
    <3> QED
      BY <3>2 DEF Overflown
  <2>5. CASE StreamEnds
    BY <1>1, <2>5 DEF StreamEnds, Overflown, Emitted, loop
  <2>6. CASE SendNext
    <3>1. CASE SendRaises
      BY <3>1, OverflownRaise DEF SendRaises, IInv, TypeOK
    <3>2. CASE ~SendRaises
      BY <2>6, <3>2 DEF SendNext, Overflown, Emitted, captured, IInv, TypeOK
    <3> QED
      BY <3>1, <3>2
  <2>7. CASE Flushed
    BY <2>7 DEF Flushed, Overflown, Emitted, loop, captured
  <2>8. CASE TellOverflow
    <3>1. CASE SendRaises
      BY <3>1, OverflownRaise DEF SendRaises, IInv, TypeOK
    <3>2. CASE ~SendRaises
      BY <2>8, <3>2 DEF TellOverflow, Overflown, Emitted, loop, captured
    <3> QED
      BY <3>1, <3>2
  <2> QED
    BY <1>4, <2>2, <2>3, <2>4, <2>5, <2>6, <2>7, <2>8 DEF Stream
<1>5. CASE Ending
  <2>1. CASE RetryStream \/ Drained \/ TurnDone
    BY <2>1 DEF RetryStream, Drained, TurnDone, Overflown, Said, Emitted, loop, captured, client
  <2>2. CASE GiveUp
    BY <2>2 DEF GiveUp, Overflown, Said, Emitted, loop
  <2>3. CASE Linger \/ CloseAndReturn
    BY <2>3, OverflownExit DEF Linger, CloseAndReturn, Overflown, Or
  <2> QED
    BY <1>5, <2>1, <2>2, <2>3 DEF Ending
<1> QED
  BY <1>2, <1>3, <1>4, <1>5 DEF Next, Handler

\* A client that is there when its attempt overflowed is told so by that name,
\* however much was held back and whatever the turn went through before.
THEOREM OverflowTold == Spec => []OverflowIsTold
<1>1. Init => Said /\ Overflown
  BY DEF Init, Said, Overflown, Emitted
<1>2. OInv /\ [Next]_vars => (Said /\ Overflown)'
  <2>1. ASSUME OInv, UNCHANGED vars
        PROVE  (Said /\ Overflown)'
    BY <2>1 DEF OInv, vars, Said, Overflown, Emitted, loop, captured, client
  <2> QED
    BY <2>1, SaidStep, OverflownStep DEF OInv
<1>3. OInv => OverflowIsTold
  BY DEF OInv, IInv, TypeOK, Overflown, OverflowIsTold
<1> QED
  BY <1>1, <1>2, <1>3, Invariance, PTL DEF Spec, OInv

-----------------------------------------------------------------------------
(* What is billed was delivered *)

Waiting(e) == \E i \in DOMAIN buffer : buffer[i] = e

\* Usage is captured with the event that carries it, which is then sent or
\* held back; it ends the hold-back, so no retry follows it.
Captured ==
    /\ captured_usage = TRUE <=> Sent("completed") \/ Waiting("completed")
    /\ captured_usage = TRUE =>
          /\ flushed = TRUE
          /\ pc \in {"stream", "flush", "ended", "linger", "closed"}
    /\ pc \in {"stream", "ended", "linger"} /\ flushed = TRUE => buffer = <<>>

\* The row of a turn that named a model says what was captured.
Billed ==
    pc = "closed" /\ model =>
        /\ row.written = TRUE
        /\ row.error = "none" => (row.usage = TRUE <=> Sent("completed"))

BInv == IInv /\ Captured /\ Billed

\* The last event of a flush is the first that was held back.
LEMMA TakeHas ==
    ASSUME NEW b \in Seq(Events), b # <<>>, NEW d
    PROVE  (\E i \in DOMAIN b : b[i] = d)
             <=> (Head(b) = d \/ \E i \in DOMAIN Tail(b) : Tail(b)[i] = d)
<1>1. /\ Len(b) \in Nat \ {0} /\ DOMAIN b = 1..Len(b) /\ DOMAIN Tail(b) = 1..(Len(b) - 1)
      /\ Head(b) = b[1] /\ \A i \in 1..(Len(b) - 1) : Tail(b)[i] = b[i + 1]
  OBVIOUS
<1>2. ASSUME NEW i \in 1..Len(b), b[i] = d
      PROVE  Head(b) = d \/ \E j \in DOMAIN Tail(b) : Tail(b)[j] = d
  <2>1. CASE i = 1
    BY <1>1, <1>2, <2>1
  <2>2. CASE i # 1
    <3>1. i - 1 \in 1..(Len(b) - 1) /\ (i - 1) + 1 = i
      BY <1>1, <2>2
    <3> QED
      BY <1>1, <1>2, <3>1
  <2> QED
    BY <2>1, <2>2
<1>3. \A i \in 1..(Len(b) - 1) : i + 1 \in 1..Len(b)
  BY <1>1
<1>4. 1 \in 1..Len(b)
  BY <1>1
<1> QED
  BY <1>1, <1>2, <1>3, <1>4

\* A row that is written with no error is that of a turn that lingered, or of
\* one that was refused before it captured anything.
LEMMA BilledExit ==
    ASSUME BInv, NEW e \in Errors, Finish(e), UNCHANGED <<loop, client>>,
           e = "none" => pc \in {"linger", "closing"}
    PROVE  (Captured /\ Billed)'
<1>1. Captured'
  BY DEF BInv, Captured, Finish, Sent, Waiting, loop, client
<1>2. UNCHANGED <<sent, model, captured_usage>> /\ captured_usage \in BOOLEAN
  BY DEF Finish, client, turn, BInv, IInv, TypeOK
<1>3. e = "none" => (captured_usage = TRUE <=> Sent("completed"))
  BY DEF BInv, Captured, Waiting
<1>4. model => row' = [written |-> TRUE, error |-> e, usage |-> captured_usage]
  BY DEF Finish
<1>5. Billed'
  BY <1>2, <1>3, <1>4 DEF Billed, Sent
<1> QED
  BY <1>1, <1>5

LEMMA BilledRaise ==
    ASSUME BInv, NEW e \in Errors \ {"none"}, Raise(e)
    PROVE  (Captured /\ Billed)'
<1>1. Or(captured_error, e) \in Errors \ {"none"}
  BY DEF BInv, IInv, TypeOK, Or
<1> QED
  BY <1>1, BilledExit DEF Raise

LEMMA BilledTell ==
    ASSUME BInv, NEW n, Tell(n), pc \in {"auth", "receive", "resolve", "post", "refused"}
    PROVE  (Captured /\ Billed)'
<1>1. CASE SendRaises
  BY <1>1, BilledRaise DEF SendRaises, Errors
<1>2. CASE ~SendRaises
  BY <1>2 DEF Tell, BInv, Captured, Billed, Sent, Waiting, loop, captured
<1> QED
  BY <1>1, <1>2

\* A step that reads and sends nothing, and starts no attempt.
LEMMA BilledStill ==
    ASSUME BInv, UNCHANGED <<buffer, flushed, sent, captured_usage>>, pc' # "closed",
           captured_usage = TRUE => pc' \in {"stream", "flush", "ended", "linger"},
           pc' \in {"stream", "ended", "linger"} /\ flushed = TRUE => buffer = <<>>
    PROVE  (Captured /\ Billed)'
  BY DEF BInv, Captured, Billed, Sent, Waiting

\* Each step keeps it.
LEMMA BilledStep ==
    ASSUME BInv, Next
    PROVE  (Captured /\ Billed)'
<1> USE DEF BInv
<1>1. \A why \in {"client_disconnect", "exception"} : why \in Errors \ {"none"}
  BY DEF Errors
<1>2. captured_usage = TRUE => flushed = TRUE /\ pc \in {"stream", "flush", "ended", "linger", "closed"}
  BY DEF Captured
<1>3. CASE Prelude \/ FromClient
  <2>1. CASE AuthFails \/ ResolveFails \/ ReceiveWithoutModel
    BY <2>1, BilledTell DEF AuthFails, ResolveFails, ReceiveWithoutModel
  <2>2. CASE ReceiveFails
    BY <1>1, <2>2, BilledRaise DEF ReceiveFails
  <2>3. CASE Authenticate \/ Resolve \/ Receive
    BY <1>2, <2>3, BilledStill DEF Authenticate, Resolve, Receive, loop, captured, client
  <2>4. CASE ClientLeaves
    BY <2>4 DEF ClientLeaves, Captured, Billed, Sent, Waiting, turn, loop, captured, client
  <2> QED
    BY <1>3, <2>1, <2>2, <2>3, <2>4 DEF Prelude, FromClient
<1>4. CASE Attempts
  <2>1. CASE UpstreamBreaks
    BY <1>1, <2>1, BilledRaise DEF UpstreamBreaks
  <2>2. CASE Opened
    <3>1. buffer = <<>> \/ flushed = FALSE
      BY <2>2 DEF Opened, IInv, Held, Fresh, Pieces, Begin, TypeOK
    <3> QED
      BY <1>2, <2>2, <3>1, BilledStill DEF Opened, loop, captured, client
  <2>3. CASE RefusedOverflow
    BY <1>2, <2>3, BilledStill DEF RefusedOverflow, client
  <2>4. CASE RefusedEncrypted \/ Backoff
    <3>1. captured_usage # TRUE /\ ~Sent("completed")
      BY <1>2, <2>4 DEF RefusedEncrypted, Backoff, Captured
    <3>2. /\ buffer' = <<>> /\ flushed' = FALSE /\ pc' # "closed"
          /\ UNCHANGED <<sent, captured_usage>>
      BY <2>4 DEF RefusedEncrypted, Backoff, NextAttempt, captured, client
    <3>3. ~Waiting("completed")' /\ ~Sent("completed")'
      BY <3>1, <3>2 DEF Waiting, Sent
    <3> QED
      BY <3>1, <3>2, <3>3 DEF Captured, Billed
  <2>5. CASE RefusedRetried
    BY <1>2, <2>5, BilledStill DEF RefusedRetried, loop, captured, client
  <2>6. CASE RefusedFinally \/ TellRefusal
    BY <2>6, BilledTell DEF RefusedFinally, TellRefusal
  <2> QED
    BY <1>4, <2>1, <2>2, <2>3, <2>4, <2>5, <2>6 DEF Attempts
<1>5. CASE Stream
  <2>0. /\ buffer \in Seq(Events) /\ sent \in Seq(Events) /\ flushed \in BOOLEAN
        /\ captured_usage \in BOOLEAN
    BY DEF IInv, TypeOK
  <2>1. ASSUME NEW e \in Events, Line(e)
        PROVE  (Captured /\ Billed)'
    <3>1. /\ buffer' = Append(buffer, e) /\ sent' = sent /\ pc = "stream"
          /\ flushed' = (flushed \/ e \in Flushing)
          /\ pc' = (IF flushed' THEN "flush" ELSE "stream")
          /\ captured_usage' = (captured_usage \/ e = "completed")
      BY <2>1 DEF Line, Hold, client
    <3>2. Waiting("completed")' <=> e = "completed" \/ Waiting("completed")
      BY <2>0, <3>1, AppendHas DEF Waiting
    <3>3. Sent("completed")' <=> Sent("completed")
      BY <3>1 DEF Sent
    <3>4. captured_usage' = TRUE <=> captured_usage = TRUE \/ e = "completed"
      BY <2>0, <3>1
    <3>5. captured_usage' = TRUE => flushed' = TRUE /\ pc' = "flush"
      BY <1>2, <2>0, <3>1, <3>4 DEF Flushing
    <3>6. ~(pc' \in {"stream", "ended", "linger"} /\ flushed' = TRUE) /\ pc' # "closed"
      BY <2>0, <3>1
    <3> QED
      BY <3>2, <3>3, <3>4, <3>5, <3>6 DEF Captured, Billed
  <2>2. CASE LineOverflow
    BY <2>2 DEF LineOverflow, Captured, Billed, Sent, Waiting, client
  <2>3. CASE LineError
    BY <1>2, <2>3, BilledStill DEF LineError, Captured, captured, client
  <2>4. CASE StreamEnds
    BY <1>2, <2>4, BilledStill DEF StreamEnds, Captured, loop, captured, client
  <2>5. CASE SendNext
    <3>1. CASE SendRaises
      BY <1>1, <3>1, BilledRaise DEF SendRaises
    <3>2. CASE ~SendRaises
      <4>1. /\ sent' = Append(sent, Head(buffer)) /\ buffer' = Tail(buffer) /\ buffer # <<>>
            /\ pc \in {"flush", "drain"}
            /\ UNCHANGED <<pc, flushed, captured_usage>>
        BY <2>5, <3>2 DEF SendNext, captured
      <4>2. Waiting("completed") <=> Head(buffer) = "completed" \/ Waiting("completed")'
        <5>1. (\E i \in DOMAIN buffer : buffer[i] = "completed")
                <=> (Head(buffer) = "completed"
                      \/ \E i \in DOMAIN Tail(buffer) : Tail(buffer)[i] = "completed")
          BY <2>0, <4>1, TakeHas
        <5> QED
          BY <4>1, <5>1, Zenon DEF Waiting
      <4>3. Sent("completed")' <=> Head(buffer) = "completed" \/ Sent("completed")
        <5>1. (\E i \in DOMAIN sent' : sent'[i] = "completed")
                <=> ("completed" = Head(buffer) \/ \E i \in DOMAIN sent : sent[i] = "completed")
          BY <2>0, <4>1, AppendHas
        <5> QED
          BY <5>1, Zenon DEF Sent
      <4> QED
        BY <4>1, <4>2, <4>3 DEF Captured, Billed
    <3> QED
      BY <3>1, <3>2
  <2>6. CASE Flushed
    BY <1>2, <2>6, BilledStill DEF Flushed, loop, captured, client
  <2>7. CASE TellOverflow
    <3>1. CASE SendRaises
      BY <1>1, <3>1, BilledRaise DEF SendRaises
    <3>2. CASE ~SendRaises
      BY <2>7, <3>2, BilledStill DEF TellOverflow, loop, captured
    <3> QED
      BY <3>1, <3>2
  <2> QED
    BY <1>5, <2>1, <2>2, <2>3, <2>4, <2>5, <2>6, <2>7 DEF Stream
<1>6. CASE Ending
  <2>1. CASE RetryStream
    BY <1>2, <2>1, BilledStill DEF RetryStream, loop, captured, client
  <2>2. CASE GiveUp
    BY <1>2, <2>2, BilledStill DEF GiveUp, loop, client
  <2>3. CASE Drained
    BY <1>2, <2>3, BilledStill DEF Drained, loop, captured, client
  <2>4. CASE TurnDone
    BY <1>2, <2>4, BilledStill DEF TurnDone, Captured, loop, captured, client
  <2>5. captured_error \in Errors /\ Or(captured_error, "exception") \in Errors
    BY DEF IInv, TypeOK, Or, Errors
  <2>6. CASE Linger
    BY <2>5, <2>6, BilledExit DEF Linger
  <2>7. CASE CloseAndReturn
    BY <2>5, <2>7, BilledExit DEF CloseAndReturn
  <2> QED
    BY <1>6, <2>1, <2>2, <2>3, <2>4, <2>6, <2>7 DEF Ending
<1> QED
  BY <1>3, <1>4, <1>5, <1>6 DEF Next, Handler

\* Every turn that named a model is metered, and a row with tokens and no error
\* is that of a client that was sent response.completed.
THEOREM BilledDelivered == Spec => []BilledIsDelivered
<1>1. Init => Captured /\ Billed
  BY DEF Init, Captured, Billed, Sent, Waiting
<1>2. BInv /\ [Next]_vars => (Captured /\ Billed)'
  <2>1. ASSUME BInv, UNCHANGED vars
        PROVE  (Captured /\ Billed)'
    BY <2>1 DEF BInv, vars, Captured, Billed, Sent, Waiting, loop, captured, client, turn
  <2> QED
    BY <2>1, BilledStep
<1>3. BInv => BilledIsDelivered
  BY DEF BInv, IInv, TypeOK, Billed, BilledIsDelivered
<1> QED
  BY <1>1, <1>2, <1>3, Invariance, PTL DEF Spec, BInv

=============================================================================
