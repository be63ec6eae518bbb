--------------------------- MODULE ChatTurnProofs ---------------------------
(***************************************************************************)
(* Proofs about ChatTurn, for any set of calls, any counts and streams of  *)
(* any length.                                                             *)
(*                                                                         *)
(* The properties speak of a turn that is over; what makes them inductive  *)
(* is what is known while it streams.  Fresh: nothing is left of an        *)
(* earlier turn.  Sending: which chunk can be followed by what.  Judged:   *)
(* what is noted of the end agrees with how the upstream ended.  Sees: the *)
(* client is where the translator is.  Numbered: the calls the client has  *)
(* put together are those that were given an index, in that order, save    *)
(* one whose first chunk is on its way.  Counted: what was noted and told  *)
(* is what was reported.                                                   *)
(*                                                                         *)
(* At the end, of the dialogue that a turn belongs to (Conversation): what *)
(* a request may cost, that it says what was said, and that calls and      *)
(* their results stay together, for messages of any number and length.     *)
(* Translations are folds, and the induction over their data is by sets:   *)
(* a set that holds the empty sequence and is closed under Append holds    *)
(* every sequence (SeqInduction), and Grown is the least set of dialogues  *)
(* with their pending calls that the caller's steps leave closed.          *)
(* Dialogue: which messages there can be.  Translation: what was sent is   *)
(* their translation.  Threaded: the dialogue is one of Grown.             *)
(***************************************************************************)
EXTENDS ChatTurn, Conversation, SequenceTheorems, WellFoundedInduction, TLAPS

-----------------------------------------------------------------------------
(* The inductive invariant *)

Streams == pc \in {"read", "send", "closing"}
Translated == turn.route # "native"

Fresh ==
    pc \in {"idle", "post"} =>
        /\ \A c \in Calls : index[c] = Unknown
        /\ next = 0 /\ captured = Unknown /\ outcome = "none" /\ fate = "open"
        /\ reported = {} /\ view = NewView /\ answer = "none" /\ row = NoRow

Sending ==
    /\ Streams => answer = "stream" /\ row = NoRow
    /\ pc = "send" =>
        /\ ~Translated => chunk.kind = "line" /\ then = "read"
        /\ Translated =>
            /\ then = "read" => chunk.kind \in {"role", "content", "call", "finish"}
            /\ then = "read" /\ chunk.kind = "finish" => turn.route = "responses"
            /\ then = "error" => chunk.kind = "usage" /\ turn.route = "anthropic"
            /\ then = "done" => chunk.kind = "finish" /\ turn.route = "anthropic"
            /\ then = "closing" => chunk.kind \in {"error", "done"}

Judged ==
    /\ turn.route = "anthropic" /\ Streams =>
        /\ outcome = "none" <=> fate \in {"open", "finished"}
        /\ pc = "read" => fate = "open"
        /\ pc = "send" => (then = "read" <=> fate = "open")
        /\ pc = "closing" => fate # "open"
        /\ pc = "send" /\ chunk.kind \in {"finish", "done"} => fate = "finished"
        /\ pc = "send" /\ chunk.kind \in {"usage", "error"} => fate \in {"failed", "cut"}
    /\ turn.route = "responses" /\ Streams =>
        /\ pc = "read" => fate \in {"open", "finished"}
        /\ pc = "send" => (chunk.kind = "finish" => fate = "finished")
        /\ pc = "send" => (chunk.kind = "done" => fate \in {"finished", "cut"})
        /\ pc = "send" => (chunk.kind = "error" <=> fate = "failed")
        /\ pc = "send" /\ chunk.kind \in {"role", "content", "call"} => fate = "open"
        /\ pc = "closing" => fate # "open"

\* Where the client is when it has seen all that was sent.
Caught ==
    /\ pc = "send" =>
        /\ chunk.kind = "role" => view.phase = "new"
        /\ chunk.kind \in {"content", "call", "usage", "finish", "error"} => view.phase = "open"
        /\ chunk.kind = "done" =>
               view.phase = IF fate = "finished" THEN "finished" ELSE "open"
    /\ pc = "read" => view.phase = IF fate = "finished" THEN "finished" ELSE "open"
    /\ pc = "closing" => (view.phase = "done" <=> fate = "finished")

Sees ==
    /\ view.phase # "confused"
    /\ ~Translated => view.phase = "new" /\ view.calls = <<>>
    /\ Translated /\ Streams /\ connected = TRUE => Caught

Numbered ==
    /\ \A c \in Calls : index[c] < next
    /\ \A c, d \in Calls : index[c] = index[d] /\ index[c] # Unknown => c = d
    /\ \A i \in 1..Len(view.calls) : index[view.calls[i]] = i - 1
    /\ \A c \in Calls : index[c] # Unknown /\ index[c] < Len(view.calls) =>
           view.calls[index[c] + 1] = c
    /\ Len(view.calls) <= next
    /\ pc = "send" /\ chunk.kind = "call" =>
        /\ chunk.call \in Calls
        /\ chunk.index = index[chunk.call]
        /\ connected = TRUE =>
            \/ chunk.index = Len(view.calls) /\ next = Len(view.calls) + 1
            \/ chunk.index < Len(view.calls) /\ next = Len(view.calls)
    /\ pc = "send" /\ chunk.kind = "finish" /\ chunk.reason = "stop" => next = 0
    /\ Translated /\ Streams /\ connected = TRUE /\ ~(pc = "send" /\ chunk.kind = "call") =>
           Len(view.calls) = next

Counted ==
    /\ captured # Unknown => captured \in reported
    /\ turn.route = "anthropic" => \A u \in reported : u <= captured
    /\ Translated =>
        /\ view.usage # Unknown => view.usage = captured /\ fate # "open"
        /\ pc = "send" /\ chunk.usage # Unknown => chunk.usage = captured /\ fate # "open"
        /\ pc = "send" /\ chunk.kind \in {"usage", "finish"} /\ captured > 0 =>
               chunk.usage = captured
        /\ turn.route = "responses" /\ fate \in {"open", "failed", "cut"} => captured = Unknown
        /\ connected = TRUE /\ captured > 0 /\ pc = "send" /\ chunk.kind \in {"done", "error"} =>
               view.usage = captured
        /\ connected = TRUE /\ captured > 0 /\ view.phase \in {"finished", "done", "failed"} =>
               view.usage = captured
    /\ ~Translated =>
        /\ pc = "send" /\ chunk.usage # Unknown => chunk.usage \in reported
        /\ connected = TRUE /\ Streams => view.usage = captured

Ended == TerminatorIsEarned /\ MeteredAsServed /\ CountsAgree

IInv == Fresh /\ Sending /\ Judged /\ Sees /\ Numbered /\ Counted /\ Ended

Opens == \E c \in Calls : CallOpens(c)
Delta == \E c \in Calls : CallDelta(c)

-----------------------------------------------------------------------------
(* Chunks *)

LEMMA Chunks ==
    /\ \A k \in Kinds : /\ Plain(k) \in Chunk
                        /\ Plain(k).kind = k /\ Plain(k).usage = Unknown
    /\ \A i \in Nat, c \in Calls :
        /\ CallChunk(i, c) \in Chunk
        /\ CallChunk(i, c).kind = "call" /\ CallChunk(i, c).usage = Unknown
        /\ CallChunk(i, c).index = i /\ CallChunk(i, c).call = c
    /\ \A reason \in Reasons, u \in Counts :
        /\ FinishChunk(reason, u) \in Chunk
        /\ FinishChunk(reason, u).kind = "finish" /\ FinishChunk(reason, u).usage = u
        /\ FinishChunk(reason, u).reason = reason
    /\ \A u \in Counts :
        /\ UsageChunk(u) \in Chunk
        /\ UsageChunk(u).kind = "usage" /\ UsageChunk(u).usage = u
    /\ \A u \in Counts :
        /\ Line(u) \in Chunk
        /\ Line(u).kind = "line" /\ Line(u).usage = u
<1> USE BoundsAssumption DEF Chunk, Plain, Kinds, Reasons, Counts, Unknown, NoCall
<1>1. \A k \in Kinds : Plain(k) \in Chunk /\ Plain(k).kind = k /\ Plain(k).usage = Unknown
  OBVIOUS
<1>2. \A i \in Nat, c \in Calls :
        /\ CallChunk(i, c) \in Chunk
        /\ CallChunk(i, c).kind = "call" /\ CallChunk(i, c).usage = Unknown
        /\ CallChunk(i, c).index = i /\ CallChunk(i, c).call = c
  BY DEF CallChunk
<1>3. \A reason \in Reasons, u \in Counts :
        /\ FinishChunk(reason, u) \in Chunk
        /\ FinishChunk(reason, u).kind = "finish" /\ FinishChunk(reason, u).usage = u
        /\ FinishChunk(reason, u).reason = reason
  BY DEF FinishChunk
<1>4. \A u \in Counts :
        /\ UsageChunk(u) \in Chunk
        /\ UsageChunk(u).kind = "usage" /\ UsageChunk(u).usage = u
  BY DEF UsageChunk
<1>5. \A u \in Counts :
        /\ Line(u) \in Chunk
        /\ Line(u).kind = "line" /\ Line(u).usage = u
  BY DEF Line
<1> QED
  BY <1>1, <1>2, <1>3, <1>4, <1>5

-----------------------------------------------------------------------------
(* Types *)

LEMMA ReceivedType ==
    ASSUME NEW v \in View, NEW c \in Chunk, c.kind = "call" => c.call \in Calls
    PROVE  Received(v, c) \in View
<1>1. PhaseAfter(v, c) \in Phases
  BY DEF PhaseAfter, Phases, View
<1>2. ASSUME c.kind = "call" PROVE Append(v.calls, c.call) \in Seq(Calls)
  BY <1>2 DEF View
<1> QED
  BY <1>1, <1>2 DEF Received, View, Chunk

\* Every step keeps the types; a call that is shown is a call.
LEMMA StepKeepsTypes ==
    ASSUME TypeOK, Numbered, Next
    PROVE  TypeOK'
<1> USE BoundsAssumption DEF TypeOK, Turn, NoTurn, Routes, Kinds, Reasons, Row, NoRow,
        Errors, Counts, Unknown, Pcs, Thens, Fates, Answers, translator, upstream
<1>1. CASE Begin
  BY <1>1 DEF Begin
<1>2. CASE Untranslatable
  BY <1>2 DEF Untranslatable, Answer
<1>3. CASE PostFails
  BY <1>3 DEF PostFails, Answer
<1>4. CASE Raises
  BY <1>4 DEF Raises
<1>5. CASE NonJson
  BY <1>5 DEF NonJson, Answer
<1>6. CASE Completed
  <2>1. PICK u \in Counts :
          \/ Answer("completion", "none", u)
          \/ Answer("error", "overflow", u)
    BY <1>6 DEF Completed
  <2>2. \A how \in Answers, error \in Errors : Answer(how, error, u) => TypeOK'
    BY <2>1 DEF Answer
  <2> QED
    BY <2>1, <2>2
<1>7. CASE StreamOpens
  BY <1>7, Chunks DEF StreamOpens, Send
<1>8. CASE TextDelta
  BY <1>8, Chunks DEF TextDelta, Event, Send
<1>9. CASE NativeLine
  BY <1>9, Chunks DEF NativeLine, Event, Send, Reports
<1>10. CASE Opens
  BY <1>10, Chunks DEF Opens, CallOpens, NewIndex, Event, Send
<1>11. CASE Delta
  BY <1>11, Chunks DEF Delta, CallDelta, NewIndex, Event, Send
<1>12. CASE AnthropicUsage
  BY <1>12 DEF AnthropicUsage, Event, record_usage, Reports, HighWater
<1>13. CASE AnthropicEnds
  BY <1>13 DEF AnthropicEnds, Event, record_usage, Reports, HighWater
<1>14. CASE AnthropicFails
  BY <1>14, Chunks DEF AnthropicFails, Event, record_usage, Reports, HighWater, Fail, Send
<1>15. CASE ResponsesEnds
  BY <1>15, Chunks DEF ResponsesEnds, Event, Reports, Send, FinishReason, Reported
<1>16. CASE ResponsesFails
  BY <1>16, Chunks DEF ResponsesFails, Event, Send
<1>17. CASE StreamEnds
  BY <1>17, Chunks DEF StreamEnds, AnthropicStreamOver, Fail, Send, FinishReason, Reported
<1>18. CASE StreamAborts
  BY <1>18 DEF StreamAborts, Abort
<1>19. CASE Sent
  <2>1. view' \in View
    BY <1>19, ReceivedType DEF Sent, Show, Numbered
  <2> QED
    BY <1>19, <2>1, Chunks DEF Sent, Show, Sniff, Send, Chunk
<1>20. CASE ClientLeaves
  <2>1. connected' \in BOOLEAN
    BY <1>20, Zenon DEF ClientLeaves
  <2> QED
    BY <1>20, <2>1 DEF ClientLeaves
<1>21. CASE Close
  BY <1>21 DEF Close, Answer
<1>22. CASE NextTurn
  <2>1. view' \in View
    BY <1>22 DEF NextTurn, NewView, View, Phases
  <2>2. connected' \in BOOLEAN /\ ended' \in BOOLEAN
    BY <1>22, Zenon DEF NextTurn
  <2> QED
    BY <1>22, <2>1, <2>2, Chunks DEF NextTurn
<1> QED
  BY <1>1, <1>2, <1>3, <1>4, <1>5, <1>6, <1>7, <1>8, <1>9, <1>10, <1>11, <1>12, <1>13, <1>14,
     <1>15, <1>16, <1>17, <1>18, <1>19, <1>20, <1>21, <1>22
  DEF Next, Handler, Upstream, Opens, Delta

-----------------------------------------------------------------------------
(* The translator *)

\* A turn begins with nothing of the last one.
LEMMA FreshKept ==
    ASSUME TypeOK, TypeOK', IInv, Next
    PROVE  Fresh'
<1> USE DEF IInv, Streams, Translated, translator, upstream, Fresh, Kinds, Reasons, Counts,
        Unknown, Turn, Routes, Row, NoRow
<1>1. CASE Begin
  BY <1>1 DEF Begin
<1>2. CASE Untranslatable
  BY <1>2 DEF Untranslatable, Answer
<1>3. CASE PostFails
  BY <1>3 DEF PostFails, Answer
<1>4. CASE Raises
  BY <1>4 DEF Raises
<1>5. CASE NonJson
  BY <1>5 DEF NonJson, Answer
<1>6. CASE Completed
  BY <1>6 DEF Completed, Answer
<1>7. CASE StreamOpens
  BY <1>7, Chunks DEF StreamOpens, Send
<1>8. CASE TextDelta
  BY <1>8, Chunks DEF TextDelta, Event, Send
<1>9. CASE NativeLine
  BY <1>9, Chunks DEF NativeLine, Event, Send, Reports
<1>10. CASE Opens
  BY <1>10, Chunks DEF Opens, CallOpens, NewIndex, Event, Send
<1>11. CASE Delta
  BY <1>11, Chunks DEF Delta, CallDelta, NewIndex, Event, Send
<1>12. CASE AnthropicUsage
  BY <1>12 DEF AnthropicUsage, Event, record_usage, Reports, HighWater
<1>13. CASE AnthropicEnds
  BY <1>13 DEF AnthropicEnds, Event, record_usage, Reports, HighWater
<1>14. CASE AnthropicFails
  BY <1>14, Chunks DEF AnthropicFails, Event, record_usage, Reports, HighWater, Fail, Send
<1>15. CASE ResponsesEnds
  BY <1>15, Chunks DEF ResponsesEnds, Event, Reports, Send, FinishReason, Reported
<1>16. CASE ResponsesFails
  BY <1>16, Chunks DEF ResponsesFails, Event, Send
<1>17. CASE StreamEnds
  BY <1>17, Chunks DEF StreamEnds, AnthropicStreamOver, Fail, Send, FinishReason, Reported
<1>18. CASE StreamAborts
  BY <1>18 DEF StreamAborts, Abort
<1>19. CASE Sent
  BY <1>19, Chunks DEF Sent, Show, Sniff, Send
<1>20. CASE ClientLeaves
  BY <1>20 DEF ClientLeaves
<1>21. CASE Close
  BY <1>21 DEF Close, Answer
<1>22. CASE NextTurn
  BY <1>22, Chunks DEF NextTurn
<1> QED
  BY <1>1, <1>2, <1>3, <1>4, <1>5, <1>6, <1>7, <1>8, <1>9, <1>10, <1>11, <1>12, <1>13, <1>14,
     <1>15, <1>16, <1>17, <1>18, <1>19, <1>20, <1>21, <1>22
  DEF Next, Handler, Upstream, Opens, Delta

\* What follows a chunk.
LEMMA SendingKept ==
    ASSUME TypeOK, TypeOK', IInv, Next
    PROVE  Sending'
<1> USE DEF IInv, Streams, Translated, translator, upstream, Fresh, Sending, TypeOK, Thens,
        Kinds, Reasons, Counts, Unknown, Turn, Routes, Row, NoRow
<1>1. CASE Begin
  BY <1>1 DEF Begin
<1>2. CASE Untranslatable
  BY <1>2 DEF Untranslatable, Answer
<1>3. CASE PostFails
  BY <1>3 DEF PostFails, Answer
<1>4. CASE Raises
  BY <1>4 DEF Raises
<1>5. CASE NonJson
  BY <1>5 DEF NonJson, Answer
<1>6. CASE Completed
  BY <1>6 DEF Completed, Answer
<1>7. CASE StreamOpens
  BY <1>7, Chunks DEF StreamOpens, Send
<1>8. CASE TextDelta
  BY <1>8, Chunks DEF TextDelta, Event, Send
<1>9. CASE NativeLine
  BY <1>9, Chunks DEF NativeLine, Event, Send, Reports
<1>10. CASE Opens
  BY <1>10, Chunks DEF Opens, CallOpens, NewIndex, Event, Send
<1>11. CASE Delta
  BY <1>11, Chunks DEF Delta, CallDelta, NewIndex, Event, Send
<1>12. CASE AnthropicUsage
  BY <1>12 DEF AnthropicUsage, Event, record_usage, Reports, HighWater
<1>13. CASE AnthropicEnds
  BY <1>13 DEF AnthropicEnds, Event, record_usage, Reports, HighWater
<1>14. CASE AnthropicFails
  BY <1>14, Chunks DEF AnthropicFails, Event, record_usage, Reports, HighWater, Fail, Send
<1>15. CASE ResponsesEnds
  BY <1>15, Chunks DEF ResponsesEnds, Event, Reports, Send, FinishReason, Reported
<1>16. CASE ResponsesFails
  BY <1>16, Chunks DEF ResponsesFails, Event, Send
<1>17. CASE StreamEnds
  BY <1>17, Chunks DEF StreamEnds, AnthropicStreamOver, Fail, Send, FinishReason, Reported
<1>18. CASE StreamAborts
  BY <1>18 DEF StreamAborts, Abort
<1>19. CASE Sent
  BY <1>19, Chunks DEF Sent, Show, Sniff, Send
<1>20. CASE ClientLeaves
  BY <1>20 DEF ClientLeaves
<1>21. CASE Close
  BY <1>21 DEF Close, Answer
<1>22. CASE NextTurn
  BY <1>22, Chunks DEF NextTurn
<1> QED
  BY <1>1, <1>2, <1>3, <1>4, <1>5, <1>6, <1>7, <1>8, <1>9, <1>10, <1>11, <1>12, <1>13, <1>14,
     <1>15, <1>16, <1>17, <1>18, <1>19, <1>20, <1>21, <1>22
  DEF Next, Handler, Upstream, Opens, Delta

\* What is noted of the end agrees with how the upstream ended.
LEMMA JudgedKept ==
    ASSUME TypeOK, TypeOK', IInv, Next
    PROVE  Judged'
<1> USE DEF IInv, Streams, Translated, translator, upstream, Fresh, Sending, Judged, TypeOK,
        Thens, Kinds, Reasons, Counts, Unknown, Turn, Routes, Row, NoRow
<1>1. CASE Begin
  BY <1>1 DEF Begin
<1>2. CASE Untranslatable
  BY <1>2 DEF Untranslatable, Answer
<1>3. CASE PostFails
  BY <1>3 DEF PostFails, Answer
<1>4. CASE Raises
  BY <1>4 DEF Raises
<1>5. CASE NonJson
  BY <1>5 DEF NonJson, Answer
<1>6. CASE Completed
  BY <1>6 DEF Completed, Answer
<1>7. CASE StreamOpens
  BY <1>7, Chunks DEF StreamOpens, Send
<1>8. CASE TextDelta
  BY <1>8, Chunks DEF TextDelta, Event, Send
<1>9. CASE NativeLine
  BY <1>9, Chunks DEF NativeLine, Event, Send, Reports
<1>10. CASE Opens
  BY <1>10, Chunks DEF Opens, CallOpens, NewIndex, Event, Send
<1>11. CASE Delta
  BY <1>11, Chunks DEF Delta, CallDelta, NewIndex, Event, Send
<1>12. CASE AnthropicUsage
  BY <1>12 DEF AnthropicUsage, Event, record_usage, Reports, HighWater
<1>13. CASE AnthropicEnds
  BY <1>13 DEF AnthropicEnds, Event, record_usage, Reports, HighWater
<1>14. CASE AnthropicFails
  BY <1>14, Chunks DEF AnthropicFails, Event, record_usage, Reports, HighWater, Fail, Send
<1>15. CASE ResponsesEnds
  BY <1>15, Chunks DEF ResponsesEnds, Event, Reports, Send, FinishReason, Reported
<1>16. CASE ResponsesFails
  BY <1>16, Chunks DEF ResponsesFails, Event, Send
<1>17. CASE StreamEnds
  BY <1>17, Chunks DEF StreamEnds, AnthropicStreamOver, Fail, Send, FinishReason, Reported
<1>18. CASE StreamAborts
  BY <1>18 DEF StreamAborts, Abort
<1>19. CASE Sent
  BY <1>19, Chunks DEF Sent, Show, Sniff, Send
<1>20. CASE ClientLeaves
  BY <1>20 DEF ClientLeaves
<1>21. CASE Close
  BY <1>21 DEF Close, Answer
<1>22. CASE NextTurn
  BY <1>22, Chunks DEF NextTurn
<1> QED
  BY <1>1, <1>2, <1>3, <1>4, <1>5, <1>6, <1>7, <1>8, <1>9, <1>10, <1>11, <1>12, <1>13, <1>14,
     <1>15, <1>16, <1>17, <1>18, <1>19, <1>20, <1>21, <1>22
  DEF Next, Handler, Upstream, Opens, Delta

-----------------------------------------------------------------------------
(* What the client makes of a chunk *)

\* Every chunk is understood where it is sent.
LEMMA ChunkFits ==
    ASSUME TypeOK, IInv, pc = "send", connected = TRUE, Translated
    PROVE  Understood(view, chunk)
<1> USE DEF TypeOK, IInv, Sending, Judged, Sees, Caught, Numbered, Streams, Translated,
            Turn, Routes, Thens, Kinds, Counts, Unknown
<1>1. CASE chunk.kind \in {"role", "content", "usage", "error"}
  BY <1>1 DEF Understood
<1>2. CASE chunk.kind = "call"
  <2>1. Fits(view, chunk)
    <3>1. /\ chunk.call \in Calls
          /\ chunk.index = index[chunk.call] /\ chunk.index <= Len(view.calls)
      BY <1>2
    <3>2. chunk.index \in Nat
      BY DEF Chunk
    <3>3. view.calls \in Seq(Calls)
      BY DEF View
    <3>4. CASE chunk.index < Len(view.calls)
      <4>1. view.calls[index[chunk.call] + 1] = chunk.call
        BY <3>1, <3>2, <3>4
      <4> QED
        BY <3>1, <3>4, <4>1 DEF Fits
    <3> QED
      BY <3>1, <3>2, <3>3, <3>4 DEF Fits
  <2> QED
    BY <1>2, <2>1 DEF Understood
<1>3. CASE chunk.kind = "finish"
  <2>1. Len(view.calls) = next
    BY <1>3
  <2>2. view.calls \in Seq(Calls)
    BY DEF View
  <2>3. chunk.reason = "stop" => view.calls = <<>>
    BY <1>3, <2>1, <2>2
  <2> QED
    BY <1>3, <2>3 DEF Understood
<1>4. CASE chunk.kind = "done"
  BY <1>4 DEF Understood
<1>5. chunk.kind \in {"role", "content", "call", "usage", "finish", "done", "error"}
  <2>1. chunk.kind \in Kinds
    BY DEF Chunk
  <2> QED
    BY <2>1
<1> QED
  BY <1>1, <1>2, <1>3, <1>4, <1>5

\* ... and moves the client on.
LEMMA ChunkShown ==
    ASSUME TypeOK, IInv, Sent, connected = TRUE, Translated
    PROVE  /\ view'.phase =
                   CASE chunk.kind = "finish" -> "finished"
                     [] chunk.kind = "error" -> "failed"
                     [] chunk.kind = "done" -> IF fate = "finished" THEN "done" ELSE "ended"
                     [] OTHER -> "open"
           /\ chunk.kind # "line"
<1>1. view' = Received(view, chunk)
  BY DEF Sent, Show
<1>2. Understood(view, chunk)
  BY ChunkFits DEF Sent
<1>3. chunk.kind # "line"
  BY <1>2 DEF Understood
<1>4. chunk.kind = "done" => view.phase = IF fate = "finished" THEN "finished" ELSE "open"
  BY DEF IInv, Sees, Caught, Streams, Sent
<1> QED
  BY <1>1, <1>2, <1>3, <1>4 DEF Received, PhaseAfter

LEMMA NobodyIsShown ==
    ASSUME TypeOK, IInv, Sent, connected # TRUE \/ ~Translated
    PROVE  view'.phase = view.phase /\ view'.calls = view.calls
<1>1. CASE connected # TRUE
  BY <1>1 DEF Sent, Show, TypeOK
<1>2. CASE connected = TRUE /\ ~Translated
  <2>1. chunk.kind = "line"
    BY <1>2 DEF IInv, Sending, Sent
  <2>2. view' = Received(view, chunk)
    BY <1>2 DEF Sent, Show
  <2>3. PhaseAfter(view, chunk) = view.phase
    BY <2>1 DEF PhaseAfter
  <2> QED
    BY <2>1, <2>2, <2>3 DEF Received
<1> QED
  BY <1>1, <1>2 DEF TypeOK

\* The client stays where the translator is.
LEMMA SeesKept ==
    ASSUME TypeOK, TypeOK', IInv, Next
    PROVE  Sees'
<1> USE DEF IInv, Streams, Translated, translator, upstream, Fresh, Sending, Judged, Sees,
        Caught, NewView, TypeOK, Thens, Kinds, Reasons, Counts, Unknown, Turn, Routes, Row, NoRow
<1>1. CASE Begin
  BY <1>1 DEF Begin
<1>2. CASE Untranslatable
  BY <1>2 DEF Untranslatable, Answer
<1>3. CASE PostFails
  BY <1>3 DEF PostFails, Answer
<1>4. CASE Raises
  BY <1>4 DEF Raises
<1>5. CASE NonJson
  BY <1>5 DEF NonJson, Answer
<1>6. CASE Completed
  BY <1>6 DEF Completed, Answer
<1>7. CASE StreamOpens
  BY <1>7, Chunks DEF StreamOpens, Send
<1>8. CASE TextDelta
  BY <1>8, Chunks DEF TextDelta, Event, Send
<1>9. CASE NativeLine
  BY <1>9, Chunks DEF NativeLine, Event, Send, Reports
<1>10. CASE Opens
  BY <1>10, Chunks DEF Opens, CallOpens, NewIndex, Event, Send
<1>11. CASE Delta
  BY <1>11, Chunks DEF Delta, CallDelta, NewIndex, Event, Send
<1>12. CASE AnthropicUsage
  BY <1>12 DEF AnthropicUsage, Event, record_usage, Reports, HighWater
<1>13. CASE AnthropicEnds
  BY <1>13 DEF AnthropicEnds, Event, record_usage, Reports, HighWater
<1>14. CASE AnthropicFails
  BY <1>14, Chunks DEF AnthropicFails, Event, record_usage, Reports, HighWater, Fail, Send
<1>15. CASE ResponsesEnds
  BY <1>15, Chunks DEF ResponsesEnds, Event, Reports, Send, FinishReason, Reported
<1>16. CASE ResponsesFails
  BY <1>16, Chunks DEF ResponsesFails, Event, Send
<1>17. CASE StreamEnds
  BY <1>17, Chunks DEF StreamEnds, AnthropicStreamOver, Fail, Send, FinishReason, Reported
<1>18. CASE StreamAborts
  BY <1>18 DEF StreamAborts, Abort
<1>19. CASE Sent
  <2>1. CASE connected = TRUE /\ Translated
    <3>1. connected' = TRUE /\ turn' = turn /\ fate' = fate
      BY <1>19, <2>1 DEF Sent
    <3>2. view'.phase # "confused"
      BY <1>19, <2>1, ChunkShown
    <3>3. Caught'
      BY <1>19, <2>1, <3>1, ChunkShown, Chunks DEF Sent, Show, Sniff, Send
    <3> QED
      BY <2>1, <3>1, <3>2, <3>3
  <2>2. CASE connected # TRUE \/ ~Translated
    BY <1>19, <2>2, NobodyIsShown, Chunks DEF Sent, Show, Sniff, Send
  <2> QED
    BY <2>1, <2>2
<1>20. CASE ClientLeaves
  BY <1>20 DEF ClientLeaves
<1>21. CASE Close
  BY <1>21 DEF Close, Answer
<1>22. CASE NextTurn
  BY <1>22, Chunks DEF NextTurn
<1> QED
  BY <1>1, <1>2, <1>3, <1>4, <1>5, <1>6, <1>7, <1>8, <1>9, <1>10, <1>11, <1>12, <1>13, <1>14,
     <1>15, <1>16, <1>17, <1>18, <1>19, <1>20, <1>21, <1>22
  DEF Next, Handler, Upstream, Opens, Delta

-----------------------------------------------------------------------------
(* Calls and counts *)

\* A new call takes the next index.
LEMMA NewIndexNumbers ==
    ASSUME TypeOK, Numbered, NEW c \in Calls, index[c] = Unknown,
           index' = [index EXCEPT ![c] = next], next' = next + 1
    PROVE  /\ \A d \in Calls : index'[d] < next'
           /\ \A d, e \in Calls : index'[d] = index'[e] /\ index'[d] # Unknown => d = e
           /\ \A i \in 1..Len(view.calls) : index'[view.calls[i]] = i - 1
           /\ \A d \in Calls : index'[d] # Unknown /\ index'[d] < Len(view.calls) =>
                  view.calls[index'[d] + 1] = d
           /\ Len(view.calls) <= next /\ index'[c] = next /\ next >= 0
<1> USE DEF TypeOK, Unknown
<1>1. index'[c] = next /\ \A d \in Calls : d # c => index'[d] = index[d]
  OBVIOUS
<1>2. view.calls \in Seq(Calls)
  BY DEF View
<1>3. \A i \in 1..Len(view.calls) : view.calls[i] \in Calls /\ view.calls[i] # c
  BY <1>2 DEF Numbered
<1>4. \A d \in Calls : index[d] < next
  BY DEF Numbered
<1>5. Len(view.calls) <= next
  BY DEF Numbered
<1>6. \A d, e \in Calls : index'[d] = index'[e] /\ index'[d] # Unknown => d = e
  BY <1>1, <1>4 DEF Numbered
<1>7. \A i \in 1..Len(view.calls) : index'[view.calls[i]] = i - 1
  BY <1>1, <1>3 DEF Numbered
<1>8. \A d \in Calls : index'[d] # Unknown /\ index'[d] < Len(view.calls) =>
          view.calls[index'[d] + 1] = d
  BY <1>1, <1>2, <1>5 DEF Numbered
<1> QED
  BY <1>1, <1>4, <1>5, <1>6, <1>7, <1>8

\* Calls are numbered as they are first shown.
LEMMA NumberedKept ==
    ASSUME TypeOK, TypeOK', IInv, Next
    PROVE  Numbered'
<1> USE DEF IInv, Streams, Translated, translator, upstream, Fresh, Sending, Judged,
        Numbered, NewView, View, TypeOK, Thens, Kinds, Reasons, Counts,
        Unknown, Turn, Routes, Row, NoRow
<1>1. CASE Begin
  BY <1>1 DEF Begin
<1>2. CASE Untranslatable
  BY <1>2 DEF Untranslatable, Answer
<1>3. CASE PostFails
  BY <1>3 DEF PostFails, Answer
<1>4. CASE Raises
  BY <1>4 DEF Raises
<1>5. CASE NonJson
  BY <1>5 DEF NonJson, Answer
<1>6. CASE Completed
  BY <1>6 DEF Completed, Answer
<1>7. CASE StreamOpens
  BY <1>7, Chunks DEF StreamOpens, Send
<1>8. CASE TextDelta
  BY <1>8, Chunks DEF TextDelta, Event, Send
<1>9. CASE NativeLine
  BY <1>9, Chunks DEF NativeLine, Event, Send, Reports
<1>10. CASE Opens
  <2>1. PICK c \in Calls : CallOpens(c)
    BY <1>10 DEF Opens
  <2>2. /\ index[c] = Unknown /\ index' = [index EXCEPT ![c] = next] /\ next' = next + 1
        /\ chunk' = CallChunk(next, c) /\ pc = "read" /\ pc' = "send" /\ Translated
        /\ UNCHANGED <<turn, connected, view>>
    BY <2>1 DEF CallOpens, NewIndex, Event, Send
  <2>3. connected = TRUE => Len(view.calls) = next
    BY <2>2
  <2>4. chunk'.kind = "call" /\ chunk'.call = c /\ chunk'.index = next
    BY <2>2, Chunks
  <2> QED
    BY <2>2, <2>3, <2>4, NewIndexNumbers
<1>11. CASE Delta
  <2>1. PICK c \in Calls : CallDelta(c)
    BY <1>11 DEF Delta
  <2>2. CASE index[c] # Unknown
    BY <2>1, <2>2, Chunks DEF CallDelta, Event, Send
  <2>3. CASE NewIndex(c) /\ index[c] = Unknown
    <3>1. /\ index' = [index EXCEPT ![c] = next] /\ next' = next + 1
          /\ chunk' = CallChunk(next, c) /\ pc = "read" /\ pc' = "send" /\ Translated
          /\ UNCHANGED <<turn, connected, view>>
      BY <2>1, <2>3 DEF CallDelta, NewIndex, Event, Send
    <3>2. connected = TRUE => Len(view.calls) = next
      BY <3>1
    <3>3. chunk'.kind = "call" /\ chunk'.call = c /\ chunk'.index = next
      BY <3>1, Chunks
    <3> QED
      BY <2>3, <3>1, <3>2, <3>3, NewIndexNumbers
  <2>4. CASE UNCHANGED <<pc, chunk, then, index, next>>
    BY <2>1, <2>4 DEF CallDelta, Event
  <2> QED
    BY <2>1, <2>2, <2>3, <2>4 DEF CallDelta
<1>12. CASE AnthropicUsage
  BY <1>12 DEF AnthropicUsage, Event, record_usage, Reports, HighWater
<1>13. CASE AnthropicEnds
  BY <1>13 DEF AnthropicEnds, Event, record_usage, Reports, HighWater
<1>14. CASE AnthropicFails
  BY <1>14, Chunks DEF AnthropicFails, Event, record_usage, Reports, HighWater, Fail, Send
<1>15. CASE ResponsesEnds
  BY <1>15, Chunks DEF ResponsesEnds, Event, Reports, Send, FinishReason, Reported
<1>16. CASE ResponsesFails
  BY <1>16, Chunks DEF ResponsesFails, Event, Send
<1>17. CASE StreamEnds
  BY <1>17, Chunks DEF StreamEnds, AnthropicStreamOver, Fail, Send, FinishReason, Reported
<1>18. CASE StreamAborts
  BY <1>18 DEF StreamAborts, Abort
<1>19. CASE Sent
  <2>1. CASE connected = TRUE /\ Translated
    <3>1. view' = Received(view, chunk) /\ chunk \in Chunk /\ connected' = TRUE
      BY <1>19, <2>1 DEF Sent, Show
    <3>2. ASSUME chunk.kind = "call"
          PROVE  /\ pc' # "send" /\ index' = index /\ next' = next /\ turn' = turn
                 /\ chunk.index \in Nat /\ view.calls \in Seq(Calls)
      BY <1>19, <2>1, <3>2, Chunks DEF Sent, Show, Sniff, Send, Chunk
    <3>3. CASE chunk.kind = "call" /\ chunk.index = Len(view.calls)
      <4>1. /\ view'.calls = Append(view.calls, chunk.call)
            /\ next = Len(view.calls) + 1
        BY <1>19, <2>1, <3>1, <3>3 DEF Received, Sent
      <4>2. /\ Len(view'.calls) = Len(view.calls) + 1
            /\ \A i \in 1..Len(view.calls) : view'.calls[i] = view.calls[i]
            /\ view'.calls[Len(view.calls) + 1] = chunk.call
        BY <1>19, <3>2, <3>3, <4>1 DEF Sent
      <4>3. index[chunk.call] = Len(view.calls) /\ chunk.call \in Calls
        BY <1>19, <3>3 DEF Sent
      <4>4. \A i \in 1..Len(view'.calls) : index'[view'.calls[i]] = i - 1
        <5>1. \A i \in 1..Len(view.calls) : index'[view'.calls[i]] = i - 1
          BY <3>2, <3>3, <4>2
        <5>2. index'[view'.calls[Len(view.calls) + 1]] = Len(view.calls) + 1 - 1
          BY <3>2, <3>3, <4>2, <4>3
        <5> QED
          BY <3>2, <4>2, <5>1, <5>2
      <4>5. ASSUME NEW c \in Calls, index[c] # Unknown, index[c] < Len(view'.calls)
            PROVE  view'.calls[index[c] + 1] = c
        <5>1. CASE index[c] < Len(view.calls)
          <6>1. index[c] \in Nat /\ view.calls[index[c] + 1] = c
            BY <4>5, <5>1
          <6>2. index[c] + 1 \in 1..Len(view.calls)
            BY <3>2, <5>1, <6>1
          <6> QED
            BY <4>2, <6>1, <6>2
        <5>2. CASE index[c] = Len(view.calls)
          BY <3>2, <3>3, <4>2, <4>3, <4>5, <5>2
        <5> QED
          BY <3>2, <3>3, <4>2, <4>5, <5>1, <5>2
      <4> QED
        BY <2>1, <3>1, <3>2, <3>3, <4>1, <4>2, <4>4, <4>5
    <3>4. CASE chunk.kind = "call" /\ chunk.index # Len(view.calls)
      <4>1. view'.calls = view.calls /\ next = Len(view.calls)
        BY <1>19, <2>1, <3>1, <3>4 DEF Received, Sent
      <4> QED
        BY <2>1, <3>1, <3>2, <3>4, <4>1
    <3>5. CASE chunk.kind # "call"
      <4>1. view'.calls = view.calls
        BY <3>1, <3>5 DEF Received
      <4>2. pc' = "send" => chunk' = Plain(then)
        BY <1>19, <2>1 DEF Sent, Show, Sniff, Send
      <4> QED
        BY <1>19, <2>1, <3>1, <3>5, <4>1, <4>2, Chunks DEF Sent, Show, Sniff, Send
    <3> QED
      BY <3>3, <3>4, <3>5
  <2>2. CASE connected # TRUE
    <3>1. view' = view /\ connected' = FALSE
      BY <1>19, <2>2, Zenon DEF Sent, Show, TypeOK
    <3> QED
      BY <1>19, <2>2, <3>1, Chunks DEF Sent, Send
  <2>3. CASE ~Translated
    <3>1. pc' = "read" /\ turn' = turn /\ index' = index /\ next' = next
      BY <1>19, <2>3 DEF Sent, Show, Sniff, Send
    <3>2. view'.calls = view.calls
      BY <1>19, <2>3, NobodyIsShown
    <3> QED
      BY <2>3, <3>1, <3>2
  <2> QED
    BY <2>1, <2>2, <2>3
<1>20. CASE ClientLeaves
  BY <1>20 DEF ClientLeaves
<1>21. CASE Close
  BY <1>21 DEF Close, Answer
<1>22. CASE NextTurn
  BY <1>22, Chunks DEF NextTurn
<1> QED
  BY <1>1, <1>2, <1>3, <1>4, <1>5, <1>6, <1>7, <1>8, <1>9, <1>10, <1>11, <1>12, <1>13, <1>14,
     <1>15, <1>16, <1>17, <1>18, <1>19, <1>20, <1>21, <1>22
  DEF Next, Handler, Upstream, Opens, Delta

\* What is noted and told was reported.
LEMMA CountedKept ==
    ASSUME TypeOK, TypeOK', IInv, Next
    PROVE  Counted'
<1> USE DEF IInv, Streams, Translated, translator, upstream, Fresh, Sending, Judged, Sees,
        Caught, Counted, NewView, TypeOK, Thens, Kinds, Reasons, Counts,
        Unknown, Turn, Routes, Row, NoRow
<1>1. CASE Begin
  BY <1>1, BoundsAssumption DEF Begin
<1>2. CASE Untranslatable
  BY <1>2, BoundsAssumption DEF Untranslatable, Answer
<1>3. CASE PostFails
  BY <1>3, BoundsAssumption DEF PostFails, Answer
<1>4. CASE Raises
  BY <1>4, BoundsAssumption DEF Raises
<1>5. CASE NonJson
  BY <1>5, BoundsAssumption DEF NonJson, Answer
<1>6. CASE Completed
  BY <1>6, BoundsAssumption DEF Completed, Answer
<1>7. CASE StreamOpens
  BY <1>7, Chunks, BoundsAssumption DEF StreamOpens, Send
<1>8. CASE TextDelta
  BY <1>8, Chunks, BoundsAssumption DEF TextDelta, Event, Send
<1>9. CASE NativeLine
  BY <1>9, Chunks, BoundsAssumption DEF NativeLine, Event, Send, Reports
<1>10. CASE Opens
  BY <1>10, Chunks, BoundsAssumption DEF Opens, CallOpens, NewIndex, Event, Send
<1>11. CASE Delta
  BY <1>11, Chunks, BoundsAssumption DEF Delta, CallDelta, NewIndex, Event, Send
<1>12. CASE AnthropicUsage
  BY <1>12, BoundsAssumption DEF AnthropicUsage, Event, record_usage, Reports, HighWater
<1>13. CASE AnthropicEnds
  BY <1>13, BoundsAssumption DEF AnthropicEnds, Event, record_usage, Reports, HighWater
<1>14. CASE AnthropicFails
  BY <1>14, Chunks, BoundsAssumption DEF AnthropicFails, Event, record_usage, Reports,
     HighWater, Fail, Send
<1>15. CASE ResponsesEnds
  BY <1>15, Chunks, BoundsAssumption DEF ResponsesEnds, Event, Reports, Send, FinishReason,
     Reported
<1>16. CASE ResponsesFails
  BY <1>16, Chunks, BoundsAssumption DEF ResponsesFails, Event, Send
<1>17. CASE StreamEnds
  BY <1>17, Chunks, BoundsAssumption DEF StreamEnds, AnthropicStreamOver, Fail, Send,
     FinishReason, Reported
<1>18. CASE StreamAborts
  BY <1>18, BoundsAssumption DEF StreamAborts, Abort
<1>19. CASE Sent
  <2>1. CASE Translated /\ connected = TRUE
    <3>1. /\ view'.usage = IF chunk.usage = Unknown THEN view.usage ELSE chunk.usage
          /\ captured' = captured /\ connected' = TRUE
      BY <1>19, <2>1, ChunkShown DEF Sent, Show, Sniff, Received
    <3> QED
      BY <1>19, <2>1, <3>1, ChunkShown, Chunks DEF Sent, Send
  <2>2. CASE Translated /\ connected # TRUE
    <3>1. view' = view /\ captured' = captured /\ connected' = FALSE
      BY <1>19, <2>2, Zenon DEF Sent, Show, Sniff, TypeOK
    <3> QED
      BY <1>19, <2>2, <3>1, Chunks DEF Sent, Send
  <2>3. CASE ~Translated
    <3>1. pc' = "read" /\ chunk.kind = "line"
      BY <1>19, <2>3 DEF Sent, Send
    <3>2. captured' = IF chunk.usage = Unknown THEN captured ELSE chunk.usage
      BY <1>19, <2>3, <3>1 DEF Sent, Sniff
    <3>3. connected = TRUE =>
          view'.usage = IF chunk.usage = Unknown THEN view.usage ELSE chunk.usage
      BY <1>19 DEF Sent, Show, Received
    <3> QED
      BY <1>19, <2>3, <3>1, <3>2, <3>3 DEF Sent
  <2> QED
    BY <2>1, <2>2, <2>3
<1>20. CASE ClientLeaves
  BY <1>20, BoundsAssumption DEF ClientLeaves
<1>21. CASE Close
  BY <1>21, BoundsAssumption DEF Close, Answer
<1>22. CASE NextTurn
  BY <1>22, Chunks, BoundsAssumption DEF NextTurn
<1> QED
  BY <1>1, <1>2, <1>3, <1>4, <1>5, <1>6, <1>7, <1>8, <1>9, <1>10, <1>11, <1>12, <1>13, <1>14,
     <1>15, <1>16, <1>17, <1>18, <1>19, <1>20, <1>21, <1>22
  DEF Next, Handler, Upstream, Opens, Delta

\* What is true of a turn that is over.
LEMMA EndedKept ==
    ASSUME TypeOK, TypeOK', IInv, Next
    PROVE  Ended'
<1> USE DEF IInv, Streams, Translated, translator, upstream, Fresh, Sending, Judged, Sees,
        Caught, Counted, Ended, TerminatorIsEarned, MeteredAsServed, CountsAgree,
        Streamed, NewView, TypeOK, Thens, Kinds, Reasons, Counts,
        Unknown, Turn, Routes, Row, NoRow
<1>1. CASE Begin
  BY <1>1 DEF Begin
<1>2. CASE Untranslatable
  BY <1>2 DEF Untranslatable, Answer
<1>3. CASE PostFails
  BY <1>3 DEF PostFails, Answer
<1>4. CASE Raises
  BY <1>4 DEF Raises
<1>5. CASE NonJson
  BY <1>5 DEF NonJson, Answer
<1>6. CASE Completed
  BY <1>6 DEF Completed, Answer
<1>7. CASE StreamOpens
  BY <1>7, Chunks DEF StreamOpens, Send
<1>8. CASE TextDelta
  BY <1>8, Chunks DEF TextDelta, Event, Send
<1>9. CASE NativeLine
  BY <1>9, Chunks DEF NativeLine, Event, Send, Reports
<1>10. CASE Opens
  BY <1>10, Chunks DEF Opens, CallOpens, NewIndex, Event, Send
<1>11. CASE Delta
  BY <1>11, Chunks DEF Delta, CallDelta, NewIndex, Event, Send
<1>12. CASE AnthropicUsage
  BY <1>12 DEF AnthropicUsage, Event, record_usage, Reports, HighWater
<1>13. CASE AnthropicEnds
  BY <1>13 DEF AnthropicEnds, Event, record_usage, Reports, HighWater
<1>14. CASE AnthropicFails
  BY <1>14, Chunks DEF AnthropicFails, Event, record_usage, Reports, HighWater, Fail, Send
<1>15. CASE ResponsesEnds
  BY <1>15, Chunks DEF ResponsesEnds, Event, Reports, Send, FinishReason, Reported
<1>16. CASE ResponsesFails
  BY <1>16, Chunks DEF ResponsesFails, Event, Send
<1>17. CASE StreamEnds
  BY <1>17, Chunks DEF StreamEnds, AnthropicStreamOver, Fail, Send, FinishReason, Reported
<1>18. CASE StreamAborts
  BY <1>18 DEF StreamAborts, Abort
<1>19. CASE Sent
  BY <1>19, Chunks DEF Sent, Show, Sniff, Send
<1>20. CASE ClientLeaves
  BY <1>20 DEF ClientLeaves
<1>21. CASE Close
  BY <1>21 DEF Close, Answer
<1>22. CASE NextTurn
  BY <1>22, Chunks DEF NextTurn
<1> QED
  BY <1>1, <1>2, <1>3, <1>4, <1>5, <1>6, <1>7, <1>8, <1>9, <1>10, <1>11, <1>12, <1>13, <1>14,
     <1>15, <1>16, <1>17, <1>18, <1>19, <1>20, <1>21, <1>22
  DEF Next, Handler, Upstream, Opens, Delta

-----------------------------------------------------------------------------
(* Every behaviour *)

LEMMA InitHolds ==
    ASSUME Init
    PROVE  TypeOK /\ IInv
<1> USE BoundsAssumption DEF Init, Unknown, Counts, NoTurn, NoRow, NewView
<1>1. TypeOK
  <2>1. view \in View
    BY DEF View, Phases
  <2>2. connected \in BOOLEAN /\ ended \in BOOLEAN
    BY Zenon
  <2> QED
    BY <2>1, <2>2, Chunks DEF TypeOK, Pcs, Turn, Routes, Thens, Reasons, Errors, Fates,
                     Answers, Kinds
<1>2. Fresh /\ Sending /\ Judged
  BY DEF Fresh, Sending, Judged, Streams
<1>3. Sees /\ Numbered /\ Counted
  BY DEF Sees, Numbered, Counted, Streams, Translated
<1>4. Ended
  BY DEF Ended, TerminatorIsEarned, MeteredAsServed, CountsAgree, Streamed
<1> QED
  BY <1>1, <1>2, <1>3, <1>4 DEF IInv

LEMMA StepHolds ==
    ASSUME TypeOK, IInv, [Next]_vars
    PROVE  TypeOK' /\ IInv'
<1>1. CASE Next
  <2>1. TypeOK'
    BY <1>1, StepKeepsTypes DEF IInv
  <2> QED
    BY <1>1, <2>1, FreshKept, SendingKept, JudgedKept, SeesKept, NumberedKept, CountedKept,
       EndedKept DEF IInv
<1>2. CASE UNCHANGED vars
  BY <1>2 DEF vars, translator, upstream, TypeOK, IInv, Fresh, Sending, Judged, Sees, Caught,
     Numbered, Counted, Ended, TerminatorIsEarned, MeteredAsServed, CountsAgree, Streamed,
     Streams, Translated
<1> QED
  BY <1>1, <1>2

LEMMA Invariant == Spec => [](TypeOK /\ IInv)
<1>1. Init => TypeOK /\ IInv
  BY InitHolds
<1>2. TypeOK /\ IInv /\ [Next]_vars => (TypeOK /\ IInv)'
  BY StepHolds
<1> QED
  BY <1>1, <1>2, PTL DEF Spec

\* Every variable of the chat completions route keeps its type.
THEOREM TypeCorrect == Spec => []TypeOK
BY Invariant, PTL

\* A client that stays is sent the terminator of a completed turn exactly when
\* the upstream completed it.
THEOREM TerminatorEarned == Spec => []TerminatorIsEarned
<1>1. IInv => TerminatorIsEarned
  BY DEF IInv, Ended
<1> QED
  BY <1>1, Invariant, PTL

\* The usage row says a turn failed exactly when it did, where the route looks.
THEOREM MeteredRight == Spec => []MeteredAsServed
<1>1. IInv => MeteredAsServed
  BY DEF IInv, Ended
<1> QED
  BY <1>1, Invariant, PTL

\* The upstream's counts reach the row and the client unchanged.
THEOREM CountsRight == Spec => []CountsAgree
<1>1. IInv => CountsAgree
  BY DEF IInv, Ended
<1> QED
  BY <1>1, Invariant, PTL

-----------------------------------------------------------------------------
(* The stream the client was promised *)

\* A chunk that is shown is a step of the promised stream, or none.
LEMMA SentKeepsPromise ==
    ASSUME TypeOK, IInv, Sent
    PROVE  [Promised!Next]_(Promised!streamVars)
<1> USE DEF Promised!streamVars, Promised!Next
<1>1. CASE connected = TRUE /\ Translated
  <2>1. Understood(view, chunk) /\ view' = Received(view, chunk)
    BY <1>1, ChunkFits DEF Sent, Show
  <2>2. CASE chunk.kind = "call"
    <3>1. view'.phase = "open" /\ view.phase = "open"
      BY <1>1, <2>1, <2>2, ChunkShown DEF Understood
    <3>2. CASE chunk.index = Len(view.calls)
      <4>1. view'.calls = Append(view.calls, chunk.call)
        BY <2>1, <2>2, <3>2 DEF Received
      <4>2. chunk.call \in Calls /\ index[chunk.call] = Len(view.calls)
        BY <2>2, <3>2 DEF IInv, Numbered, Sent
      <4>3. \A i \in DOMAIN view.calls : view.calls[i] # chunk.call
        BY <4>2 DEF IInv, Numbered, TypeOK, View
      <4> QED
        BY <3>1, <4>1, <4>2, <4>3 DEF Promised!OpenCall
    <3>3. CASE chunk.index # Len(view.calls)
      BY <2>1, <2>2, <3>1, <3>3 DEF Received
    <3> QED
      BY <3>2, <3>3
  <2>3. CASE chunk.kind # "call"
    <3>1. view'.calls = view.calls
      BY <2>1, <2>3 DEF Received
    <3>2. view.phase = "new" /\ chunk.kind = "role" /\ view'.phase = "open" => Promised!Open
      BY <3>1 DEF Promised!Open
    <3>3. view.phase = "open" /\ view'.phase = "finished" => Promised!Finish
      BY <3>1 DEF Promised!Finish
    <3>4. view.phase = "finished" /\ view'.phase = "done" => Promised!Complete
      BY <3>1 DEF Promised!Complete
    <3>5. view.phase = "open" /\ view'.phase \in {"failed", "ended"} => Promised!Break
      BY <3>1 DEF Promised!Break
    <3>6. chunk.kind = "done" => view.phase = IF fate = "finished" THEN "finished" ELSE "open"
      BY <1>1 DEF IInv, Sees, Caught, Streams, Sent
    <3> QED
      BY <1>1, <2>1, <2>3, <3>1, <3>2, <3>3, <3>4, <3>5, <3>6, ChunkShown DEF Understood
  <2> QED
    BY <2>2, <2>3
<1>2. CASE connected # TRUE \/ ~Translated
  BY <1>2, NobodyIsShown
<1> QED
  BY <1>1, <1>2 DEF TypeOK

\* What the client sees of a translated stream is the stream it was promised.
THEOREM StreamImplemented == Spec => ImplementsStream
<1>1. Init => Promised!Begin
  BY DEF Init, NewView, Promised!Begin
<1>2. ASSUME TypeOK, IInv, [Next]_vars
      PROVE  [Promised!Next]_(Promised!streamVars)
  <2>1. CASE Sent
    BY <1>2, <2>1, SentKeepsPromise
  <2>2. CASE NextTurn
    BY <2>2 DEF NextTurn, NewView, Promised!Next, Promised!NextStream
  <2>3. CASE UNCHANGED view
    BY <2>3 DEF Promised!streamVars
  <2>4. Next => Sent \/ NextTurn \/ UNCHANGED view
    BY DEF Next, Handler, Upstream, Begin, Untranslatable, PostFails, Raises, NonJson,
       Completed, StreamOpens, Answer, TextDelta, NativeLine, CallOpens, CallDelta,
       AnthropicUsage, AnthropicEnds, AnthropicFails, ResponsesEnds, ResponsesFails,
       Event, StreamEnds, StreamAborts, ClientLeaves, Close
  <2> QED
    BY <1>2, <2>1, <2>2, <2>3, <2>4 DEF vars
<1>3. (TypeOK /\ IInv) /\ [Next]_vars => [Promised!Next]_(Promised!streamVars)
  BY <1>2
<1> QED
  BY <1>1, <1>3, Invariant, PTL DEF Spec, Promised!Spec, ImplementsStream

-----------------------------------------------------------------------------
(* The dialogue a turn belongs to: what its request may cost *)

\* The limits a translated request carries.
Within(q, limits) ==
    /\ limits.thinking # 0 =>
           /\ limits.thinking >= MIN_THINKING_BUDGET
           /\ limits.max_tokens > limits.thinking
           /\ ~limits.sampling
    /\ q.ceiling # 0 => limits.max_tokens = q.ceiling
    /\ q.sampling /\ limits.thinking = 0 => limits.sampling

\* Every budget that is asked for, by either field, is one the upstream takes.
LEMMA BudgetIsTaken ==
    ASSUME NEW q \in Request
    PROVE  _thinking_for(q) \in {0, 1024, 4096, 8192, 16384, 32768}
  BY DEF Request, _thinking_for, THINKING_BUDGETS

\* Fitting the budget under any ceiling, or raising the default for it.
LEMMA LimitsAreWithin ==
    ASSUME NEW q \in Request
    PROVE  Within(q, Limits(q))
<1> DEFINE wanted == _thinking_for(q)
<1>1. wanted \in {0, 1024, 4096, 8192, 16384, 32768}
  BY BudgetIsTaken
<1>2. q.ceiling \in Int /\ q.sampling \in BOOLEAN
  BY DEF Request
<1> DEFINE limits == Limits(q)
<1>3. CASE q.ceiling = 0
  <2>1. /\ limits.thinking = wanted
        /\ limits.max_tokens = IF wanted # 0 THEN Raised(wanted) ELSE 8192
        /\ limits.sampling = (q.sampling /\ wanted = 0)
    BY <1>3 DEF Limits, DEFAULT_MAX_TOKENS
  <2> HIDE DEF wanted, limits
  <2>2. (wanted # 0 => ~limits.sampling) /\ (q.sampling /\ wanted = 0 => limits.sampling)
    <3>1. limits.sampling = (q.sampling /\ wanted = 0)
      BY <2>1
    <3> QED
      BY <1>2, <3>1
  <2>3. wanted # 0 => wanted >= 1024 /\ Raised(wanted) > wanted
    BY <1>1 DEF Raised, DEFAULT_MAX_TOKENS, THINKING_HEADROOM
  <2> QED
    BY <1>3, <2>1, <2>2, <2>3 DEF Within, limits, MIN_THINKING_BUDGET
<1>4. CASE q.ceiling # 0
  <2>1. /\ limits.thinking = IF wanted = 0 THEN 0 ELSE Fitted(wanted, q.ceiling)
        /\ limits.max_tokens = q.ceiling
        /\ limits.sampling = (q.sampling /\ limits.thinking = 0)
    BY <1>4 DEF Limits
  <2>2. Fitted(wanted, q.ceiling) # 0 =>
           /\ Fitted(wanted, q.ceiling) >= 1024
           /\ q.ceiling > Fitted(wanted, q.ceiling)
    BY <1>1, <1>2 DEF Fitted, THINKING_HEADROOM,
                      MIN_THINKING_BUDGET
  <2> HIDE DEF wanted
  <2> QED
    BY <1>2, <1>4, <2>1, <2>2 DEF Within, MIN_THINKING_BUDGET
<1> QED
  BY <1>3, <1>4

\* Whatever efforts and ceilings callers name, and whichever wire a request
\* goes to: thinking leaves room for an answer, is enough for the upstream to
\* take, never raises a ceiling, and takes the sampling parameters with it
\* only when it is really asked for.
THEOREM ThinkingIsFitted == DialogueSpec => []ThinkingFits
<1> USE DEF ThinkingFits
<1>1. DialogueInit => ThinkingFits
  BY DEF DialogueInit
<1>2. ThinkingFits /\ [DialogueNext]_dialogueVars => ThinkingFits'
  <2> SUFFICES ASSUME ThinkingFits, [DialogueNext]_dialogueVars
               PROVE  ThinkingFits'
    OBVIOUS
  <2>1. CASE Ask
    <3>1. PICK q \in Requests :
            /\ request' = q
            /\ sent' = IF q.wire = "anthropic" THEN transform_to_anthropic_messages(q)
                                               ELSE transform_to_responses_format(q)
      BY <2>1 DEF Ask
    <3>2. CASE q.wire = "anthropic"
      <4>1. /\ sent'.thinking = Limits(q).thinking
            /\ sent'.max_tokens = Limits(q).max_tokens
            /\ sent'.sampling = Limits(q).sampling
        BY <3>1, <3>2 DEF transform_to_anthropic_messages
      <4>2. Within(q, Limits(q))
        BY LimitsAreWithin, RequestsAssumption
      <4> QED
        BY <3>1, <4>1, <4>2 DEF Within
    <3>3. CASE q.wire # "anthropic"
      BY <3>1, <3>3 DEF transform_to_responses_format
    <3> QED
      BY <3>2, <3>3
  <2>2. CASE Reply
    BY <2>2 DEF Reply
  <2>3. CASE Instruct \/ Say \/ Return \/ Refuse
    BY <2>3 DEF Instruct, Say, Return, Refuse
  <2>4. CASE UNCHANGED dialogueVars
    BY <2>4 DEF dialogueVars
  <2> QED
    BY <2>1, <2>2, <2>3, <2>4 DEF DialogueNext
<1> QED
  BY <1>1, <1>2, PTL DEF DialogueSpec

-----------------------------------------------------------------------------
(* A dialogue: what FlattenSeq and FoldLeft come to, by induction *)

\* Every set of naturals has a least element.
LEMMA Least ==
    ASSUME NEW T \in SUBSET Nat, T # {}
    PROVE  \E n \in T : \A m \in T : n <= m
<1> DEFINE Less == {p \in Nat \X Nat : p[1] < p[2]}
<1>1. IsWellFoundedOn(Less, Nat)
  BY NatLessThanWellFounded DEF OpToRel
<1>2. \A m, n \in T : m < n => <<m, n>> \in Less
  OBVIOUS
<1> HIDE DEF Less
<1>3. \E n \in T : \A m \in T : <<m, n>> \notin Less
  BY <1>1, WFMin
<1>4. PICK n \in T : \A m \in T : <<m, n>> \notin Less
  BY <1>3
<1>5. \A m \in T : ~(m < n)
  BY <1>2, <1>4
<1> QED
  BY <1>5

\* The function by which FlattenSeq is defined is there: a recursive function
\* over an interval is built one argument after the other.
LEMMA FlattenExists ==
    ASSUME NEW ss, NEW n \in Nat
    PROVE  \E f : f = [i \in 1..n |-> IF i = 1 THEN ss[i] ELSE f[i - 1] \o ss[i]]
<1> DEFINE Good(m) == \E f : f = [i \in 1..m |-> IF i = 1 THEN ss[i] ELSE f[i - 1] \o ss[i]]
           Bad == {m \in Nat : ~Good(m)}
<1>1. Good(0)
  BY DEF Good
<1>2. ASSUME NEW m \in Nat, Good(m) PROVE Good(m + 1)
  <2>1. PICK f : f = [i \in 1..m |-> IF i = 1 THEN ss[i] ELSE f[i - 1] \o ss[i]]
    BY <1>2
  <2> DEFINE g == [i \in 1..(m + 1) |-> IF i = m + 1 THEN (IF m = 0 THEN ss[i] ELSE f[m] \o ss[i]) ELSE f[i]]
  <2>2. g = [i \in 1..(m + 1) |-> IF i = 1 THEN ss[i] ELSE g[i - 1] \o ss[i]]
    <3>1. ASSUME NEW i \in 1..(m + 1)
          PROVE  g[i] = IF i = 1 THEN ss[i] ELSE g[i - 1] \o ss[i]
      <4>1. CASE i = m + 1
        BY <4>1
      <4>2. CASE i # m + 1
        <5>1. i \in 1..m /\ (i # 1 => i - 1 \in 1..m /\ i - 1 # m + 1)
          BY <4>2
        <5>2. g[i] = f[i] /\ (i # 1 => g[i - 1] = f[i - 1])
          BY <5>1
        <5>3. f[i] = IF i = 1 THEN ss[i] ELSE f[i - 1] \o ss[i]
          BY <2>1, <5>1
        <5> QED
          BY <5>2, <5>3
      <4> QED
        BY <4>1, <4>2
    <3> QED
      BY <3>1
  <2> QED
    BY <2>2
<1>3. Bad = {}
  <2>1. ASSUME Bad # {} PROVE FALSE
    <3> HIDE DEF Good
    <3>1. PICK m \in Bad : \A k \in Bad : m <= k
      BY <2>1, Least
    <3>2. m # 0 /\ m - 1 \in Nat /\ Good(m - 1)
      BY <1>1, <3>1
    <3> QED
      BY <1>2, <3>1, <3>2
  <2> QED
    BY <2>1
<1> QED
  BY <1>3

\* FlattenSeq runs through the sequence from its left.
Runs(f, ss) == f = [i \in 1..Len(ss) |-> IF i = 1 THEN ss[i] ELSE f[i - 1] \o ss[i]]

LEMMA FlattenRuns ==
    ASSUME NEW S, NEW ss \in Seq(S), ss # <<>>
    PROVE  \E f : Runs(f, ss) /\ FlattenSeq(ss) = f[Len(ss)]
<1> DEFINE g == CHOOSE f : f = [i \in 1..Len(ss) |-> IF i = 1 THEN ss[i] ELSE f[i - 1] \o ss[i]]
<1>1. Len(ss) \in Nat /\ Len(ss) # 0
  OBVIOUS
<1>2. \E f : f = [i \in 1..Len(ss) |-> IF i = 1 THEN ss[i] ELSE f[i - 1] \o ss[i]]
  BY <1>1, FlattenExists
<1>3. g = [i \in 1..Len(ss) |-> IF i = 1 THEN ss[i] ELSE g[i - 1] \o ss[i]]
  BY <1>2, Zenon
<1>4. FlattenSeq(ss) = g[Len(ss)]
  BY <1>1, Zenon DEF FlattenSeq
<1> HIDE DEF g
<1> QED
  BY <1>3, <1>4 DEF Runs

\* What it comes to, when one more sequence is appended.
LEMMA FlattenEmpty == FlattenSeq(<<>>) = <<>>
  BY DEF FlattenSeq

\* The parts of a sequence with one more element.
LEMMA Appended ==
    ASSUME NEW A, NEW s \in Seq(A), NEW x \in A
    PROVE  /\ Append(s, x) \in Seq(A) /\ Append(s, x) # <<>>
           /\ Len(s) \in Nat /\ Len(Append(s, x)) = Len(s) + 1
           /\ DOMAIN Append(s, x) = 1..(Len(s) + 1)
           /\ Append(s, x)[Len(s) + 1] = x
           /\ \A i \in 1..Len(s) : Append(s, x)[i] = s[i]
  OBVIOUS

LEMMA FlattenAppend ==
    ASSUME NEW S, NEW ss \in Seq(Seq(S)), NEW x \in Seq(S)
    PROVE  FlattenSeq(Append(ss, x)) = FlattenSeq(ss) \o x
<1> DEFINE tt == Append(ss, x)
           n == Len(ss)
<1>1. /\ tt \in Seq(Seq(S)) /\ tt # <<>> /\ Len(tt) = n + 1 /\ n \in Nat
      /\ tt[n + 1] = x /\ \A i \in 1..n : tt[i] = ss[i]
  BY Appended
<1>2. PICK f : Runs(f, tt) /\ FlattenSeq(tt) = f[Len(tt)]
  BY <1>1, FlattenRuns
<1>3. CASE ss = <<>>
  <2>1. n = 0 /\ f[1] = x
    BY <1>1, <1>2, <1>3 DEF Runs
  <2>2. FlattenSeq(ss) = <<>>
    BY <1>3, FlattenEmpty
  <2> QED
    BY <1>1, <1>2, <2>1, <2>2
<1>4. CASE ss # <<>>
  <2>1. PICK g : Runs(g, ss) /\ FlattenSeq(ss) = g[n]
    BY <1>4, FlattenRuns
  <2> DEFINE Bad == {i \in 1..n : f[i] # g[i]}
  <2>2. Bad = {}
    <3>1. SUFFICES ASSUME Bad # {} PROVE FALSE
      OBVIOUS
    <3>2. PICK i \in Bad : \A j \in Bad : i <= j
      <4>1. Bad \in SUBSET Nat
        BY <1>1
      <4> HIDE DEF Bad
      <4> QED
        BY <3>1, <4>1, Least
    <3>3. /\ f[i] = IF i = 1 THEN tt[i] ELSE f[i - 1] \o tt[i]
          /\ g[i] = IF i = 1 THEN ss[i] ELSE g[i - 1] \o ss[i]
      <4>1. i \in 1..n /\ i \in 1..Len(tt)
        BY <1>1, <3>2
      <4> HIDE DEF tt, n
      <4> QED
        BY <1>2, <2>1, <4>1 DEF Runs, n
    <3>4. i # 1 => i - 1 \in 1..n /\ i - 1 \notin Bad
      BY <1>1, <3>2
    <3> HIDE DEF tt
    <3> QED
      BY <1>1, <3>2, <3>3, <3>4
  <2>3. n \in 1..n /\ n + 1 \in 1..Len(tt) /\ n + 1 # 1
    BY <1>1, <1>4
  <2>4. f[n + 1] = f[n] \o tt[n + 1]
    <3> HIDE DEF tt
    <3>1. \A k \in 1..Len(tt) : f[k] = IF k = 1 THEN tt[k] ELSE f[k - 1] \o tt[k]
      BY <1>2 DEF Runs
    <3>2. (n + 1) - 1 = n
      BY <1>1
    <3> HIDE DEF n
    <3> QED
      BY <2>3, <3>1, <3>2
  <2>5. f[n] = g[n]
    BY <2>2, <2>3
  <2> HIDE DEF tt, n
  <2> QED
    BY <1>1, <1>2, <2>1, <2>4, <2>5 DEF tt
<1> QED
  BY <1>3, <1>4


\* FoldLeft takes the elements of a sequence from its right, by index.
Folds(f, ms, N) ==
    f = [s \in SUBSET N |-> IF s = {} THEN <<>>
                            ELSE AddMessage(f[s \ {Max(s)}], ms[Max(s)])]

LEMMA MaxIs ==
    ASSUME NEW m \in Nat, NEW s \in SUBSET (1..(m + 1)), m + 1 \in s
    PROVE  Max(s) = m + 1
<1>1. \E x \in s : \A y \in s : x >= y
  OBVIOUS
<1>2. Max(s) \in s /\ \A y \in s : Max(s) >= y
  BY <1>1 DEF Max
<1>3. Max(s) \in 1..(m + 1) /\ Max(s) >= m + 1
  BY <1>2
<1> HIDE DEF Max
<1> QED
  BY <1>3

LEMMA Interval ==
    ASSUME NEW N \in Nat, NEW k \in 1..N
    PROVE  /\ 1..k \in SUBSET (1..N) /\ 1..k # {} /\ (1..k) \ {k} = 1..(k - 1)
           /\ Max(1..k) = k
<1>1. k \in 1..k /\ \A i \in 1..k : i \in 1..N
  OBVIOUS
<1>2. \A i : i \in (1..k) \ {k} <=> i \in 1..(k - 1)
  OBVIOUS
<1>3. k - 1 \in Nat /\ 1..k \in SUBSET (1..((k - 1) + 1)) /\ (k - 1) + 1 = k
  OBVIOUS
<1>4. Max(1..k) = (k - 1) + 1
  BY <1>1, <1>3, MaxIs
<1> QED
  BY <1>1, <1>2, <1>3, <1>4

\* The function by which FoldLeft is defined is there.
LEMMA FoldExists ==
    ASSUME NEW ms, NEW n \in Nat
    PROVE  \E f : Folds(f, ms, 1..n)
<1> DEFINE Good(m) == \E f : Folds(f, ms, 1..m)
           Bad == {m \in Nat : ~Good(m)}
<1>1. Good(0)
  <2>1. Folds([s \in {{}} |-> <<>>], ms, 1..0)
    BY DEF Folds
  <2> QED
    BY <2>1
<1>2. ASSUME NEW m \in Nat, Good(m) PROVE Good(m + 1)
  <2>1. PICK f : Folds(f, ms, 1..m)
    BY <1>2
  <2> DEFINE Step(h, s) == IF s = {} THEN <<>> ELSE AddMessage(h[s \ {Max(s)}], ms[Max(s)])
             g == [s \in SUBSET (1..(m + 1)) |->
                      IF m + 1 \in s THEN AddMessage(f[s \ {m + 1}], ms[m + 1]) ELSE f[s]]
  <2>2. ASSUME NEW s \in SUBSET (1..(m + 1)) PROVE g[s] = Step(g, s)
    <3>1. CASE m + 1 \in s
      <4>1. Max(s) = m + 1
        BY <3>1, MaxIs
      <4>2. s \ {m + 1} \in SUBSET (1..(m + 1)) /\ m + 1 \notin s \ {m + 1} /\ s # {}
        BY <3>1
      <4>3. g[s \ {m + 1}] = f[s \ {m + 1}]
        BY <4>2
      <4>4. g[s] = AddMessage(f[s \ {m + 1}], ms[m + 1])
        BY <3>1
      <4> HIDE DEF g
      <4> QED
        BY <4>1, <4>2, <4>3, <4>4
    <3>2. CASE m + 1 \notin s
      <4>1. s \in SUBSET (1..m) /\ s \ {Max(s)} \in SUBSET (1..(m + 1)) /\ m + 1 \notin s \ {Max(s)}
        <5>1. \A i \in s : i \in 1..m
          BY <3>2
        <5> QED
          BY <3>2, <5>1
      <4>2. g[s] = f[s] /\ g[s \ {Max(s)}] = f[s \ {Max(s)}]
        BY <3>2, <4>1
      <4>3. f[s] = Step(f, s)
        BY <2>1, <4>1 DEF Folds
      <4> HIDE DEF g
      <4> QED
        BY <4>2, <4>3
    <3> QED
      BY <3>1, <3>2
  <2>3. Folds(g, ms, 1..(m + 1))
    BY <2>2 DEF Folds
  <2> QED
    BY <2>3
<1>3. Bad = {}
  <2>1. ASSUME Bad # {} PROVE FALSE
    <3> HIDE DEF Good
    <3>1. PICK m \in Bad : \A k \in Bad : m <= k
      BY <2>1, Least
    <3>2. m # 0 /\ m - 1 \in Nat /\ Good(m - 1)
      BY <1>1, <3>1
    <3> QED
      BY <1>2, <3>1, <3>2
  <2> QED
    BY <2>1
<1> QED
  BY <1>3

LEMMA FoldRuns ==
    ASSUME NEW A, NEW ms \in Seq(A)
    PROVE  \E f : Folds(f, ms, 1..Len(ms)) /\ FoldLeft(AddMessage, <<>>, ms) = f[1..Len(ms)]
<1> DEFINE g == CHOOSE f : Folds(f, ms, 1..Len(ms))
<1>1. Len(ms) \in Nat /\ DOMAIN ms = 1..Len(ms)
  OBVIOUS
<1>2. \E f : Folds(f, ms, 1..Len(ms))
  BY <1>1, FoldExists
<1>3. Folds(g, ms, 1..Len(ms))
  BY <1>2, Zenon
<1>4. FoldLeft(AddMessage, <<>>, ms) = g[1..Len(ms)]
  BY <1>1, Zenon DEF FoldLeft, MapThenFoldSet, Folds
<1> HIDE DEF g
<1> QED
  BY <1>3, <1>4

\* Folding the messages, when there is one more.
LEMMA FoldEmpty == FoldLeft(AddMessage, <<>>, <<>>) = <<>>
<1>1. <<>> \in Seq({}) /\ 1..Len(<<>>) = {}
  OBVIOUS
<1>2. PICK f : Folds(f, <<>>, {}) /\ FoldLeft(AddMessage, <<>>, <<>>) = f[{}]
  BY <1>1, FoldRuns
<1> QED
  BY <1>2 DEF Folds

LEMMA FoldAppend ==
    ASSUME NEW A, NEW ms \in Seq(A), NEW m \in A
    PROVE  FoldLeft(AddMessage, <<>>, Append(ms, m)) =
               AddMessage(FoldLeft(AddMessage, <<>>, ms), m)
<1> DEFINE ts == Append(ms, m)
           n == Len(ms)
<1>1. /\ ts \in Seq(A) /\ Len(ts) = n + 1 /\ n \in Nat
      /\ ts[n + 1] = m /\ \A i \in 1..n : ts[i] = ms[i]
  BY Appended
<1>2. PICK f : Folds(f, ts, 1..Len(ts)) /\ FoldLeft(AddMessage, <<>>, ts) = f[1..Len(ts)]
  BY <1>1, FoldRuns
<1>3. PICK g : Folds(g, ms, 1..n) /\ FoldLeft(AddMessage, <<>>, ms) = g[1..n]
  BY FoldRuns
<1> HIDE DEF ts, n
<1> DEFINE Bad == {k \in 0..n : f[1..k] # g[1..k]}
<1>4. ASSUME NEW k \in 1..(n + 1) PROVE f[1..k] = AddMessage(f[1..(k - 1)], ts[k])
  <2>1. Len(ts) \in Nat /\ k \in 1..Len(ts)
    BY <1>1
  <2> QED
    BY <1>2, <2>1, Interval DEF Folds
<1>5. ASSUME NEW k \in 1..n PROVE g[1..k] = AddMessage(g[1..(k - 1)], ms[k])
  <2>1. n \in Nat /\ k \in 1..n
    BY <1>1
  <2> QED
    BY <1>3, <2>1, Interval DEF Folds
<1>6. f[{}] = <<>> /\ g[{}] = <<>>
  BY <1>2, <1>3 DEF Folds
<1>7. Bad = {}
  <2>1. SUFFICES ASSUME Bad # {} PROVE FALSE
    OBVIOUS
  <2>2. PICK k \in Bad : \A j \in Bad : k <= j
    <3>1. Bad \in SUBSET Nat
      BY <1>1
    <3> HIDE DEF Bad
    <3> QED
      BY <2>1, <3>1, Least
  <2>3. CASE k = 0
    <3>1. 1..0 = {}
      OBVIOUS
    <3> QED
      BY <1>6, <2>2, <2>3, <3>1
  <2>4. CASE k # 0
    <3>1. k \in 1..n /\ k \in 1..(n + 1) /\ k - 1 \in 0..n /\ k - 1 \notin Bad
      BY <1>1, <2>2, <2>4
    <3>2. f[1..(k - 1)] = g[1..(k - 1)]
      BY <3>1
    <3>3. f[1..k] = g[1..k]
      BY <1>1, <1>4, <1>5, <3>1, <3>2
    <3> QED
      BY <2>2, <3>3
  <2> QED
    BY <2>3, <2>4
<1>8. n \in 0..n /\ n + 1 \in 1..(n + 1) /\ (n + 1) - 1 = n
  BY <1>1
<1>9. f[1..n] = g[1..n]
  BY <1>7, <1>8
<1>10. f[1..(n + 1)] = AddMessage(f[1..n], ts[n + 1])
  BY <1>4, <1>8
<1> QED
  BY <1>1, <1>2, <1>3, <1>9, <1>10 DEF ts


\* Induction over sequences, for a set of them.
LEMMA SeqInduction ==
    ASSUME NEW S, NEW P \in SUBSET Seq(S), <<>> \in P,
           \A s \in P, x \in S : Append(s, x) \in P
    PROVE  P = Seq(S)
<1> DEFINE Bad == {n \in Nat : \E s \in Seq(S) : Len(s) = n /\ s \notin P}
<1>1. Bad = {}
  <2>1. SUFFICES ASSUME Bad # {} PROVE FALSE
    OBVIOUS
  <2>2. Bad \in SUBSET Nat
    OBVIOUS
  <2>3. PICK n \in Bad : \A m \in Bad : n <= m
    <3> HIDE DEF Bad
    <3> QED
      BY <2>1, <2>2, Least
  <2>4. PICK s \in Seq(S) : Len(s) = n /\ s \notin P
    BY <2>3
  <2>5. s # <<>>
    BY <2>4
  <2>6. PICK t \in Seq(S), x \in S : s = Append(t, x)
    BY <2>5, SequenceEmptyOrAppend
  <2>7. Len(t) \in Nat /\ Len(t) = n - 1 /\ n \in Nat
    BY <2>2, <2>3, <2>4, <2>6, Appended
  <2>8. Len(t) \notin Bad
    BY <2>3, <2>7
  <2>9. t \in P
    BY <2>7, <2>8
  <2> QED
    BY <2>4, <2>6, <2>9
<1>2. ASSUME NEW s \in Seq(S) PROVE s \in P
  <2>1. Len(s) \in Nat
    OBVIOUS
  <2>2. Len(s) \notin Bad
    BY <1>1
  <2> QED
    BY <2>1, <2>2
<1> QED
  BY <1>2

\* What is made of the elements of a sequence, when one more is made.
LEMMA FlattenMore ==
    ASSUME NEW T, NEW n \in Nat, NEW h \in [1..(n + 1) -> Seq(T)]
    PROVE  FlattenSeq(h) = FlattenSeq([i \in 1..n |-> h[i]]) \o h[n + 1]
<1> DEFINE g == [i \in 1..n |-> h[i]]
<1>1. g \in Seq(Seq(T)) /\ Len(g) = n
  OBVIOUS
<1>2. h = Append(g, h[n + 1])
  <2>1. h \in Seq(Seq(T)) /\ Len(h) = n + 1 /\ h[n + 1] \in Seq(T)
    OBVIOUS
  <2>2. /\ Append(g, h[n + 1]) \in Seq(Seq(T)) /\ Len(Append(g, h[n + 1])) = n + 1
        /\ \A i \in 1..n : Append(g, h[n + 1])[i] = g[i]
        /\ Append(g, h[n + 1])[n + 1] = h[n + 1]
    <3> HIDE DEF g
    <3> QED
      BY <1>1, <2>1, Appended
  <2>3. \A i \in 1..(n + 1) : h[i] = Append(g, h[n + 1])[i]
    <3> SUFFICES ASSUME NEW i \in 1..(n + 1) PROVE h[i] = Append(g, h[n + 1])[i]
      OBVIOUS
    <3>1. CASE i = n + 1
      BY <2>2, <3>1
    <3>2. CASE i # n + 1
      <4>1. i \in 1..n /\ g[i] = h[i]
        BY <3>2
      <4> HIDE DEF g
      <4> QED
        BY <2>2, <4>1
    <3> QED
      BY <3>1, <3>2
  <2> HIDE DEF g
  <2> QED
    BY <2>1, <2>2, <2>3, SeqEqual
<1>3. h[n + 1] \in Seq(T)
  OBVIOUS
<1> HIDE DEF g
<1>4. FlattenSeq(Append(g, h[n + 1])) = FlattenSeq(g) \o h[n + 1]
  BY <1>1, <1>3, FlattenAppend
<1> QED
  BY <1>2, <1>4 DEF g

\* What FlattenSeq comes to is a sequence of the same elements.
LEMMA FlattenType ==
    ASSUME NEW T, NEW ss \in Seq(Seq(T))
    PROVE  FlattenSeq(ss) \in Seq(T)
<1> DEFINE P == {s \in Seq(Seq(T)) : FlattenSeq(s) \in Seq(T)}
<1>1. <<>> \in P
  <2>1. <<>> \in Seq(Seq(T)) /\ <<>> \in Seq(T)
    OBVIOUS
  <2> QED
    BY <2>1, FlattenEmpty
<1>2. ASSUME NEW s \in P, NEW x \in Seq(T) PROVE Append(s, x) \in P
  <2>1. Append(s, x) \in Seq(Seq(T)) /\ FlattenSeq(s) \o x \in Seq(T)
    OBVIOUS
  <2>2. FlattenSeq(Append(s, x)) = FlattenSeq(s) \o x
    BY FlattenAppend
  <2> QED
    BY <2>1, <2>2
<1>3. P \in SUBSET Seq(Seq(T))
  OBVIOUS
<1> HIDE DEF P
<1>4. P = Seq(Seq(T))
  BY <1>1, <1>2, <1>3, SeqInduction
<1> QED
  BY <1>4 DEF P

-----------------------------------------------------------------------------
(* What is made of each element of a sequence *)

\* What a function makes of each element of a sequence.
Each(M, s) == FlattenSeq([i \in DOMAIN s |-> M[s[i]]])

\* The laws of Each: of no element, of one, of one more, of two sequences.
LEMMA EachEmpty == \A M : Each(M, <<>>) = <<>>
<1>1. SUFFICES ASSUME NEW M PROVE Each(M, <<>>) = <<>>
  OBVIOUS
<1>2. [i \in DOMAIN <<>> |-> M[<<>>[i]]] = <<>>
  OBVIOUS
<1> QED
  BY <1>2, FlattenEmpty DEF Each

LEMMA EachAppend ==
    ASSUME NEW S, NEW T, NEW M \in [S -> Seq(T)], NEW s \in Seq(S), NEW x \in S
    PROVE  Each(M, Append(s, x)) = Each(M, s) \o M[x]
<1> DEFINE t == Append(s, x)
           n == Len(s)
           h == [i \in 1..(n + 1) |-> M[t[i]]]
<1>1. /\ t \in Seq(S) /\ n \in Nat /\ DOMAIN t = 1..(n + 1) /\ DOMAIN s = 1..n
      /\ t[n + 1] = x /\ \A i \in 1..n : t[i] = s[i]
  BY Appended
<1>2. \A i \in 1..(n + 1) : t[i] \in S
  BY <1>1
<1> HIDE DEF t, n
<1>3. h \in [1..(n + 1) -> Seq(T)] /\ h[n + 1] = M[x]
  BY <1>1, <1>2
<1>4. [i \in 1..n |-> h[i]] = [i \in DOMAIN s |-> M[s[i]]]
  BY <1>1
<1>5. h = [i \in DOMAIN t |-> M[t[i]]]
  BY <1>1
<1> HIDE DEF h
<1>6. FlattenSeq(h) = FlattenSeq([i \in 1..n |-> h[i]]) \o h[n + 1]
  BY <1>1, <1>3, FlattenMore
<1> QED
  BY <1>3, <1>4, <1>5, <1>6 DEF Each, t

LEMMA EachType ==
    ASSUME NEW S, NEW T, NEW M \in [S -> Seq(T)], NEW s \in Seq(S)
    PROVE  Each(M, s) \in Seq(T)
<1>1. Len(s) \in Nat /\ DOMAIN s = 1..Len(s) /\ \A i \in DOMAIN s : M[s[i]] \in Seq(T)
  OBVIOUS
<1>2. [i \in DOMAIN s |-> M[s[i]]] \in [1..Len(s) -> Seq(T)]
  BY <1>1
<1>3. [i \in DOMAIN s |-> M[s[i]]] \in Seq(Seq(T))
  BY <1>1, <1>2
<1> QED
  BY <1>3, FlattenType DEF Each

LEMMA EachOne ==
    ASSUME NEW S, NEW T, NEW M \in [S -> Seq(T)], NEW x \in S
    PROVE  Each(M, <<x>>) = M[x]
<1>1. <<>> \in Seq(S) /\ Append(<<>>, x) = <<x>> /\ M[x] \in Seq(T)
  OBVIOUS
<1>2. Each(M, Append(<<>>, x)) = Each(M, <<>>) \o M[x]
  BY <1>1, EachAppend
<1>3. <<>> \o M[x] = M[x]
  BY <1>1, ConcatEmptySeq
<1> QED
  BY <1>1, <1>2, <1>3, EachEmpty

LEMMA AppendLater ==
    ASSUME NEW S, NEW s \in Seq(S), NEW t \in Seq(S), NEW x \in S
    PROVE  s \o Append(t, x) = Append(s \o t, x) /\ s \o t \in Seq(S)
<1>1. Append(t, x) = t \o <<x>> /\ <<x>> \in Seq(S) /\ s \o t \in Seq(S)
  BY AppendIsConcat
<1>2. s \o (t \o <<x>>) = (s \o t) \o <<x>>
  BY <1>1, ConcatAssociative
<1>3. Append(s \o t, x) = (s \o t) \o <<x>>
  BY <1>1, AppendIsConcat
<1> QED
  BY <1>1, <1>2, <1>3

LEMMA EachConcat ==
    ASSUME NEW S, NEW T, NEW M \in [S -> Seq(T)], NEW s \in Seq(S), NEW u \in Seq(S)
    PROVE  Each(M, s \o u) = Each(M, s) \o Each(M, u)
<1> DEFINE P == {t \in Seq(S) : Each(M, s \o t) = Each(M, s) \o Each(M, t)}
<1>1. <<>> \in P
  <2>1. <<>> \in Seq(S) /\ Each(M, s) \in Seq(T)
    BY EachType
  <2>2. s \o <<>> = s /\ Each(M, s) \o <<>> = Each(M, s)
    BY <2>1, ConcatEmptySeq
  <2> QED
    BY <2>1, <2>2, EachEmpty
<1>2. ASSUME NEW t \in P, NEW x \in S PROVE Append(t, x) \in P
  <2>1. Each(M, s \o t) = Each(M, s) \o Each(M, t)
    OBVIOUS
  <2>2. s \o Append(t, x) = Append(s \o t, x) /\ s \o t \in Seq(S)
    BY AppendLater
  <2>3. Each(M, Append(s \o t, x)) = Each(M, s \o t) \o M[x]
    BY <2>2, EachAppend
  <2>4. Each(M, Append(t, x)) = Each(M, t) \o M[x]
    BY EachAppend
  <2>5. Each(M, s) \in Seq(T) /\ Each(M, t) \in Seq(T) /\ M[x] \in Seq(T)
    BY EachType
  <2>6. (Each(M, s) \o Each(M, t)) \o M[x] = Each(M, s) \o (Each(M, t) \o M[x])
    BY <2>5, ConcatAssociative
  <2>7. Append(t, x) \in Seq(S)
    OBVIOUS
  <2> QED
    BY <2>1, <2>2, <2>3, <2>4, <2>6, <2>7
<1>3. P \in SUBSET Seq(S)
  OBVIOUS
<1> HIDE DEF P
<1>4. P = Seq(S)
  BY <1>1, <1>2, <1>3, SeqInduction
<1> QED
  BY <1>4 DEF P

\* A function that keeps every element keeps the sequence.
LEMMA EachKept ==
    ASSUME NEW S, NEW M \in [S -> Seq(S)], NEW u \in Seq(S),
           \A i \in DOMAIN u : M[u[i]] = <<u[i]>>
    PROVE  Each(M, u) = u
<1> DEFINE P == {t \in Seq(S) : (\A i \in DOMAIN t : M[t[i]] = <<t[i]>>) => Each(M, t) = t}
<1>1. <<>> \in P
  <2>1. <<>> \in Seq(S)
    OBVIOUS
  <2> QED
    BY <2>1, EachEmpty
<1>2. ASSUME NEW t \in P, NEW x \in S PROVE Append(t, x) \in P
  <2>1. Append(t, x) \in Seq(S)
    OBVIOUS
  <2>2. SUFFICES ASSUME \A i \in DOMAIN Append(t, x) : M[Append(t, x)[i]] = <<Append(t, x)[i]>>
                 PROVE  Each(M, Append(t, x)) = Append(t, x)
    BY <2>1
  <2>3. M[x] = <<x>> /\ \A i \in DOMAIN t : M[t[i]] = <<t[i]>>
    <3>1. /\ Len(t) \in Nat /\ DOMAIN Append(t, x) = 1..(Len(t) + 1) /\ DOMAIN t = 1..Len(t)
          /\ Append(t, x)[Len(t) + 1] = x /\ \A i \in 1..Len(t) : Append(t, x)[i] = t[i]
      BY Appended
    <3>2. Len(t) + 1 \in DOMAIN Append(t, x) /\ \A i \in DOMAIN t : i \in DOMAIN Append(t, x)
      BY <3>1
    <3> QED
      BY <2>2, <3>1, <3>2
  <2>4. Each(M, t) = t
    BY <2>3
  <2>5. Each(M, Append(t, x)) = Each(M, t) \o M[x]
    BY EachAppend
  <2> QED
    BY <2>3, <2>4, <2>5, AppendIsConcat
<1>3. P \in SUBSET Seq(S)
  OBVIOUS
<1> HIDE DEF P
<1>4. P = Seq(S)
  BY <1>1, <1>2, <1>3, SeqInduction
<1> QED
  BY <1>4 DEF P

\* Nothing is made of a sequence only if nothing is made of each element.
LEMMA EachNothing ==
    ASSUME NEW S, NEW T, NEW M \in [S -> Seq(T)]
    PROVE  \A u \in Seq(S) : Each(M, u) = <<>> => \A i \in DOMAIN u : M[u[i]] = <<>>
<1> DEFINE P == {t \in Seq(S) : Each(M, t) = <<>> => \A i \in DOMAIN t : M[t[i]] = <<>>}
<1>1. <<>> \in P
  OBVIOUS
<1>2. ASSUME NEW t \in P, NEW x \in S PROVE Append(t, x) \in P
  <2>1. Append(t, x) \in Seq(S)
    OBVIOUS
  <2>2. SUFFICES ASSUME Each(M, Append(t, x)) = <<>>
                 PROVE  \A i \in DOMAIN Append(t, x) : M[Append(t, x)[i]] = <<>>
    BY <2>1
  <2>3. Each(M, t) \in Seq(T) /\ M[x] \in Seq(T) /\ Each(M, Append(t, x)) = Each(M, t) \o M[x]
    BY EachType, EachAppend
  <2>4. Each(M, t) \o M[x] = <<>>
    BY <2>2, <2>3
  <2> HIDE DEF P
  <2>5. Each(M, t) = <<>> /\ M[x] = <<>>
    BY <2>3, <2>4, ConcatEqualIffEmpty
  <2> USE DEF P
  <2>6. \A i \in DOMAIN t : M[t[i]] = <<>>
    BY <2>5
  <2>7. /\ Len(t) \in Nat /\ DOMAIN Append(t, x) = 1..(Len(t) + 1) /\ DOMAIN t = 1..Len(t)
        /\ Append(t, x)[Len(t) + 1] = x /\ \A i \in 1..Len(t) : Append(t, x)[i] = t[i]
    BY Appended
  <2> QED
    BY <2>5, <2>6, <2>7
<1>3. P \in SUBSET Seq(S)
  OBVIOUS
<1> HIDE DEF P
<1>4. P = Seq(S)
  BY <1>1, <1>2, <1>3, SeqInduction
<1> QED
  BY <1>4 DEF P

\* Of, as what a function makes of each block.
Kept(types, S) == [b \in S |-> IF b.type \in types THEN <<b>> ELSE <<>>]

LEMMA OfEach ==
    ASSUME NEW S, NEW types
    PROVE  /\ Kept(types, S) \in [S -> Seq(S)]
           /\ \A s \in Seq(S) : Of(types, s) = Each(Kept(types, S), s)
<1>1. Kept(types, S) \in [S -> Seq(S)]
  BY DEF Kept
<1>2. ASSUME NEW s \in Seq(S) PROVE Of(types, s) = Each(Kept(types, S), s)
  <2>1. [i \in DOMAIN s |-> IF s[i].type \in types THEN <<s[i]>> ELSE <<>>] =
        [i \in DOMAIN s |-> Kept(types, S)[s[i]]]
    BY DEF Kept
  <2> QED
    BY <2>1 DEF Of, Gather, Each
<1> QED
  BY <1>1, <1>2

LEMMA OfConcat ==
    ASSUME NEW S, NEW types, NEW s \in Seq(S), NEW t \in Seq(S)
    PROVE  Of(types, s \o t) = Of(types, s) \o Of(types, t)
<1> DEFINE M == Kept(types, S)
<1>1. M \in [S -> Seq(S)]
  BY OfEach
<1>2. \A u \in Seq(S) : Of(types, u) = Each(M, u)
  BY OfEach
<1> HIDE DEF M
<1>3. s \o t \in Seq(S)
  OBVIOUS
<1>4. Each(M, s \o t) = Each(M, s) \o Each(M, t)
  BY <1>1, EachConcat
<1> QED
  BY <1>2, <1>3, <1>4

\* What Of picks, what it keeps whole, and what it finds nothing in.
LEMMA OfLaws ==
    ASSUME NEW S, NEW types
    PROVE  /\ Of(types, <<>>) = <<>>
           /\ \A s \in Seq(S) : Of(types, s) \in Seq({b \in S : b.type \in types})
           /\ \A b \in S : Of(types, <<b>>) = IF b.type \in types THEN <<b>> ELSE <<>>
           /\ \A s \in Seq(S) : (\A i \in DOMAIN s : s[i].type \in types) => Of(types, s) = s
           /\ \A s \in Seq(S) : Of(types, s) = <<>> => \A i \in DOMAIN s : s[i].type \notin types
<1> DEFINE M == Kept(types, S)
           U == {b \in S : b.type \in types}
<1>1. M \in [S -> Seq(S)] /\ \A s \in Seq(S) : Of(types, s) = Each(M, s)
  BY OfEach
<1>2. \A b \in S : M[b] = IF b.type \in types THEN <<b>> ELSE <<>>
  BY DEF Kept
<1>3. M \in [S -> Seq(U)]
  <2>1. ASSUME NEW b \in S PROVE M[b] \in Seq(U)
    <3>1. CASE b.type \in types
      <4>1. b \in U
        BY <3>1
      <4> HIDE DEF M, U
      <4>2. <<b>> \in Seq(U)
        BY <4>1
      <4> QED
        BY <1>2, <3>1, <4>2
    <3>2. CASE b.type \notin types
      <4>1. M[b] = <<>>
        BY <1>2, <3>2
      <4> HIDE DEF M, U
      <4> QED
        BY <4>1, EmptySeq
    <3> QED
      BY <3>1, <3>2
  <2> HIDE DEF M, U
  <2> QED
    BY <1>1, <2>1
<1> HIDE DEF M, U
<1>4. <<>> \in Seq(S) /\ \A b \in S : <<b>> \in Seq(S)
  OBVIOUS
<1>5. Of(types, <<>>) = <<>>
  BY <1>1, <1>4, EachEmpty
<1>6. ASSUME NEW s \in Seq(S) PROVE Of(types, s) \in Seq(U)
  BY <1>1, <1>3, EachType
<1>8. ASSUME NEW b \in S PROVE Of(types, <<b>>) = IF b.type \in types THEN <<b>> ELSE <<>>
  BY <1>1, <1>2, <1>4, EachOne
<1>9. ASSUME NEW s \in Seq(S), \A i \in DOMAIN s : s[i].type \in types
      PROVE  Of(types, s) = s
  <2>1. \A i \in DOMAIN s : s[i] \in S
    OBVIOUS
  <2>2. \A i \in DOMAIN s : M[s[i]] = <<s[i]>>
    BY <1>2, <1>9, <2>1
  <2> QED
    <3>1. Each(M, s) = s
      BY <1>1, <2>2, EachKept
    <3> QED
      BY <1>1, <3>1
<1>10. ASSUME NEW s \in Seq(S), Of(types, s) = <<>>, NEW i \in DOMAIN s
       PROVE  s[i].type \notin types
  <2>1. M[s[i]] = <<>> /\ s[i] \in S
    <3>1. Each(M, s) = <<>>
      BY <1>1, <1>10
    <3> QED
      BY <1>3, <3>1, EachNothing
  <2>2. <<s[i]>> # <<>>
    OBVIOUS
  <2> QED
    BY <1>2, <2>1, <2>2
<1> QED
  BY <1>5, <1>6, <1>8, <1>9, <1>10 DEF U

LEMMA OfType ==
    ASSUME NEW S, NEW K, NEW s \in Seq(S)
    PROVE  Of(K, s) \in Seq({b \in S : b.type \in K})
  BY OfLaws, Zenon

-----------------------------------------------------------------------------
(* The blocks of a dialogue *)

\* The blocks a message has, and those of a request.
Parts == [type : PartKinds, id : Seq(Nat)]
Given == [type : BlockKinds, id : Seq(Nat)]
Results == [type : {"tool_result"}, id : Seq(Nat), parts : Seq(Parts)]
Every == [type : PartKinds \cup BlockKinds, id : Seq(Nat)] \cup Results
Worded == [type : BlockKinds \cup {"image", "void"}, id : Seq(Nat)] \cup Results

Spelled == [p \in Every |-> CASE p.type = "empty" -> <<>>
                              [] p.type = "odd" -> <<Block("text", p.id)>>
                              [] OTHER -> <<p>>]

LEMMA SpelledEach ==
    /\ Spelled \in [Every -> Seq(Worded)]
    /\ \A s \in Seq(Every) : _content_blocks(s) = Each(Spelled, s)
<1>1. ASSUME NEW p \in Every PROVE Spelled[p] \in Seq(Worded)
  <2>1. p.id \in Seq(Nat) /\ Block("text", p.id) \in Worded
    BY DEF Every, Results, Worded, Block, BlockKinds
  <2>2. p.type # "empty" /\ p.type # "odd" => p \in Worded
    BY DEF Every, Worded, PartKinds, BlockKinds
  <2> QED
    BY <2>1, <2>2 DEF Spelled
<1>2. Spelled \in [Every -> Seq(Worded)]
  BY <1>1 DEF Spelled
<1>3. ASSUME NEW s \in Seq(Every) PROVE _content_blocks(s) = Each(Spelled, s)
  <2>1. \A i \in DOMAIN s : s[i] \in Every
    OBVIOUS
  <2>2. [i \in DOMAIN s |-> CASE s[i].type = "empty" -> <<>>
                              [] s[i].type = "odd" -> <<Block("text", s[i].id)>>
                              [] OTHER -> <<s[i]>>] = [i \in DOMAIN s |-> Spelled[s[i]]]
    BY <2>1 DEF Spelled
  <2> QED
    BY <2>2 DEF _content_blocks, Gather, Each
<1> QED
  BY <1>2, <1>3

\* Spelling the parts of a message for Anthropic: what is in words already
\* stays, and where nothing is of an unknown type, it only leaves out what a
\* request has no words for.
LEMMA SpelledLaws ==
    /\ _content_blocks(<<>>) = <<>>
    /\ \A s \in Seq(Every) : _content_blocks(s) \in Seq(Worded)
    /\ \A s \in Seq(Every) : (\A i \in DOMAIN s : s[i].type \notin {"empty", "odd"})
                                 => _content_blocks(s) = s
    /\ \A s \in Seq(Parts) : (\A i \in DOMAIN s : s[i].type # "odd")
                                 => _content_blocks(s) = Of(Sayable, s)
<1>1. _content_blocks(<<>>) = <<>>
  <2>1. <<>> \in Seq(Every)
    OBVIOUS
  <2> QED
    BY <2>1, SpelledEach, EachEmpty
<1>2. ASSUME NEW s \in Seq(Every) PROVE _content_blocks(s) \in Seq(Worded)
  BY SpelledEach, EachType
<1>3. ASSUME NEW s \in Seq(Every), \A i \in DOMAIN s : s[i].type \notin {"empty", "odd"}
      PROVE  _content_blocks(s) = s
  <2>1. Worded \subseteq Every
    BY DEF Worded, Every, PartKinds
  <2>2. Spelled \in [Every -> Seq(Every)]
    BY <2>1, SpelledEach
  <2>3. \A i \in DOMAIN s : s[i] \in Every
    OBVIOUS
  <2>4. \A i \in DOMAIN s : Spelled[s[i]] = <<s[i]>>
    BY <1>3, <2>3 DEF Spelled
  <2> QED
    <3>1. Each(Spelled, s) = s
      <4>1. \A u \in Seq(Every) : (\A i \in DOMAIN u : Spelled[u[i]] = <<u[i]>>)
                                      => Each(Spelled, u) = u
        BY <2>2, EachKept
      <4> QED
        BY <2>4, <4>1
    <3> QED
      BY <3>1, SpelledEach
<1>4. ASSUME NEW s \in Seq(Parts), \A i \in DOMAIN s : s[i].type # "odd"
      PROVE  _content_blocks(s) = Of(Sayable, s)
  <2>1. /\ \A i \in DOMAIN s : s[i] \in Parts
        /\ Parts \subseteq Every
    <3>1. Parts \subseteq Every
      BY DEF Parts, Every
    <3> QED
      BY <3>1
  <2>2. s \in Seq(Every)
    BY <2>1
  <2>3. \A i \in DOMAIN s : Spelled[s[i]] = Kept(Sayable, Every)[s[i]]
    <3> SUFFICES ASSUME NEW i \in DOMAIN s PROVE Spelled[s[i]] = Kept(Sayable, Every)[s[i]]
      OBVIOUS
    <3>1. s[i] \in Every /\ s[i].type \in {"text", "empty", "image", "void"}
      BY <1>4, <2>1 DEF Parts, PartKinds
    <3>2. "empty" \notin Sayable /\ {"text", "image", "void"} \subseteq Sayable
      BY DEF Sayable, BlockKinds, CallKinds
    <3> QED
      BY <3>1, <3>2 DEF Spelled, Kept
  <2>4. [i \in DOMAIN s |-> Spelled[s[i]]] = [i \in DOMAIN s |-> Kept(Sayable, Every)[s[i]]]
    BY <2>3
  <2>5. Each(Spelled, s) = Each(Kept(Sayable, Every), s)
    BY <2>4 DEF Each
  <2> QED
    BY <2>2, <2>5, SpelledEach, OfEach
<1> QED
  BY <1>1, <1>2, <1>3, <1>4

Texts == [type : {"text"}, id : Seq(Nat)]

\* What Keep puts into a dialogue.
Entry(said, whole, chat) == [said |-> said, whole |-> whole, chat |-> chat]
Instructing == {Entry(s, FALSE, Message("system", s)) : s \in Seq(Parts)}
Asking == {Entry(s, FALSE, Message("user", s)) : s \in Seq(Parts)}
Returning == {Entry(<<b>>, FALSE, Message("tool", <<b>>)) : b \in Results}
AnswerEntry(s, w) == Entry(s, w, AnswerMessage(s, IF w THEN Of({"thinking"}, s) ELSE <<>>))
Answering == {AnswerEntry(s, w) : s \in Seq(Given), w \in BOOLEAN}
Entries == Instructing \cup Asking \cup Returning \cup Answering

Roles == {"user", "assistant", "tool"}
Turns == [role : Roles, blocks : Seq(Every)]

\* Every kind of block is one of those of a request.
LEMMA BlocksOfKinds ==
    /\ Texts \subseteq Every /\ Parts \subseteq Every /\ Given \subseteq Every
    /\ Results \subseteq Every /\ Worded \subseteq Every
    /\ Given \subseteq Worded /\ Results \subseteq Worded /\ Texts \subseteq Worded
    /\ Texts \subseteq Given /\ Texts \subseteq Parts
<1>1. /\ {"text"} \subseteq BlockKinds /\ {"text"} \subseteq PartKinds
      /\ {"image", "void", "text"} \subseteq PartKinds
  BY DEF BlockKinds, PartKinds
<1> QED
  BY <1>1 DEF Texts, Parts, Given, Worded, Every

LEMMA Wider ==
    /\ Seq(Texts) \subseteq Seq(Every) /\ Seq(Parts) \subseteq Seq(Every)
    /\ Seq(Given) \subseteq Seq(Every) /\ Seq(Results) \subseteq Seq(Every)
    /\ Seq(Worded) \subseteq Seq(Every) /\ Seq(Given) \subseteq Seq(Worded)
    /\ Seq(Results) \subseteq Seq(Worded) /\ Seq(Texts) \subseteq Seq(Worded)
    /\ Seq(Texts) \subseteq Seq(Given) /\ Seq(Texts) \subseteq Seq(Parts)
  BY BlocksOfKinds, SeqMonotonic

\* Texts are joined into one block.
LEMMA JoinedIs ==
    ASSUME NEW s \in Seq(Every)
    PROVE  /\ Joined(s) \in Seq(Texts)
           /\ Joined(s) = <<>> \/ \E b \in Texts : Joined(s) = <<b>>
<1> DEFINE texts == Of({"text"}, s)
           M == [b \in Every |-> b.id]
<1>1. texts \in Seq({b \in Every : b.type \in {"text"}})
  BY OfType
<1>2. {b \in Every : b.type \in {"text"}} \subseteq Every
  OBVIOUS
<1> HIDE DEF texts
<1>3. texts \in Seq(Every)
  BY <1>1, <1>2, SeqMonotonic
<1>4. M \in [Every -> Seq(Nat)]
  BY DEF Every, Results
<1>5. [i \in DOMAIN texts |-> texts[i].id] = [i \in DOMAIN texts |-> M[texts[i]]]
  BY <1>3
<1> HIDE DEF M
<1>6. Gather(LAMBDA p : p.id, texts) \in Seq(Nat)
  <2>1. Each(M, texts) \in Seq(Nat)
    BY <1>3, <1>4, EachType
  <2> QED
    BY <1>5, <2>1 DEF Gather, Each
<1>7. Block("text", Gather(LAMBDA p : p.id, texts)) \in Texts
  BY <1>6 DEF Block, Texts
<1>8. Joined(s) = IF texts = <<>> THEN <<>> ELSE <<Block("text", Gather(LAMBDA p : p.id, texts))>>
  BY DEF Joined, texts
<1>9. \A b \in Texts : <<b>> \in Seq(Texts)
  OBVIOUS
<1> QED
  BY <1>7, <1>8, <1>9, EmptySeq

\* A result with the text of its parts is one.
Trimmed(b) == [b EXCEPT !.parts = Joined(@)]

LEMMA TrimmedIs ==
    ASSUME NEW b \in Results
    PROVE  /\ Trimmed(b) \in Results /\ Trimmed(b).id = b.id
           /\ <<Trimmed(b)>> \in Seq(Results)
<1>1. /\ b = [type |-> b.type, id |-> b.id, parts |-> b.parts]
      /\ b.type = "tool_result" /\ b.id \in Seq(Nat) /\ b.parts \in Seq(Parts)
  BY DEF Results
<1>2. Joined(b.parts) \in Seq(Parts)
  <2>1. b.parts \in Seq(Every)
    BY <1>1, Wider
  <2>2. Joined(b.parts) \in Seq(Texts)
    BY <2>1, JoinedIs
  <2> QED
    BY <2>2, Wider
<1>3. Trimmed(b) = [type |-> b.type, id |-> b.id, parts |-> Joined(b.parts)]
  BY <1>1 DEF Trimmed
<1>4. Trimmed(b) \in Results /\ Trimmed(b).id = b.id
  BY <1>1, <1>2, <1>3 DEF Results
<1> QED
  BY <1>4

\* What each kind of entry holds.
LEMMA EntryIs ==
    ASSUME NEW e \in Entries
    PROVE  /\ e.chat.role \in {"system", "user", "tool", "assistant"}
           /\ e.chat.role = "system" =>
                  /\ e.said \in Seq(Parts) /\ e.chat.content = e.said
           /\ e.chat.role = "user" =>
                  /\ e.said \in Seq(Parts) /\ e.chat.content = e.said
                  /\ e.chat.tool_calls = <<>> /\ e.chat.reasoning_details = <<>>
                  /\ e.chat.reasoning_content = <<>>
           /\ e.chat.role = "tool" =>
                  /\ e.said \in Seq(Results) /\ e.chat.content = e.said
                  /\ e.chat.tool_calls = <<>>
                  /\ \E b \in Results :
                        e.said = <<b>> /\ _tool_result_block(e.chat) = Trimmed(b)
           /\ e.chat.role = "assistant" =>
                  /\ e.said \in Seq(Given) /\ e.chat.content = Joined(e.said)
                  /\ e.chat.tool_calls = Of(CallKinds, e.said)
                  /\ e.chat.reasoning_content = Of({"thinking"}, e.said)
                  /\ e.chat.reasoning_details =
                        IF e.whole THEN Of({"thinking"}, e.said) ELSE <<>>
<1>1. CASE e \in Instructing
  BY <1>1 DEF Instructing, Entry, Message
<1>2. CASE e \in Asking
  BY <1>2 DEF Asking, Entry, Message
<1>3. CASE e \in Returning
  <2>1. PICK b \in Results : e = Entry(<<b>>, FALSE, Message("tool", <<b>>))
    BY <1>3 DEF Returning
  <2>2. <<b>> \in Seq(Results)
    OBVIOUS
  <2>3. /\ e.said = <<b>> /\ e.chat.role = "tool" /\ e.chat.content = <<b>>
        /\ e.chat.tool_calls = <<>>
    BY <2>1 DEF Entry, Message
  <2>4. _tool_result_block(e.chat) = Trimmed(b)
    <3>1. e.chat.content[1] = b
      BY <2>3
    <3> QED
      BY <3>1 DEF _tool_result_block, Trimmed
  <2> QED
    BY <2>2, <2>3, <2>4
<1>4. CASE e \in Answering
  BY <1>4 DEF Answering, AnswerEntry, Entry, AnswerMessage
<1> QED
  BY <1>1, <1>2, <1>3, <1>4 DEF Entries

\* The calls and the thinking of an answer.
LEMMA CallsAre ==
    ASSUME NEW s \in Seq(Given)
    PROVE  /\ Of(CallKinds, s) \in Seq(Given) /\ Of({"thinking"}, s) \in Seq(Given)
           /\ \A i \in DOMAIN Of(CallKinds, s) : Of(CallKinds, s)[i].type \in CallKinds
           /\ \A i \in DOMAIN Of({"thinking"}, s) : Of({"thinking"}, s)[i].type = "thinking"
<1>1. ASSUME NEW K
      PROVE  /\ Of(K, s) \in Seq(Given)
             /\ \A i \in DOMAIN Of(K, s) : Of(K, s)[i].type \in K
  <2> DEFINE U == {b \in Given : b.type \in K}
  <2>1. U \subseteq Given /\ \A b \in U : b.type \in K
    OBVIOUS
  <2>2. Of(K, s) \in Seq(U)
    BY OfLaws
  <2> HIDE DEF U
  <2>3. Of(K, s) \in Seq(Given)
    BY <2>1, <2>2, SeqMonotonic
  <2>4. \A i \in DOMAIN Of(K, s) : Of(K, s)[i] \in U
    BY <2>2
  <2> QED
    BY <2>1, <2>3, <2>4
<1>2. \A i \in DOMAIN Of({"thinking"}, s) : Of({"thinking"}, s)[i].type \in {"thinking"}
  BY <1>1
<1> QED
  BY <1>1, <1>2

\* The blocks of turns.
Inside == [t \in Turns |-> t.blocks]

LEMMA BlocksLaws ==
    /\ Inside \in [Turns -> Seq(Every)]
    /\ \A ts \in Seq(Turns) : Blocks(ts) = Each(Inside, ts)
    /\ Blocks(<<>>) = <<>>
    /\ \A ts \in Seq(Turns) : Blocks(ts) \in Seq(Every)
    /\ \A ts \in Seq(Turns), t \in Turns : Blocks(Append(ts, t)) = Blocks(ts) \o t.blocks
    /\ \A ts, us \in Seq(Turns) : Blocks(ts \o us) = Blocks(ts) \o Blocks(us)
    /\ \A t \in Turns : Blocks(<<t>>) = t.blocks
<1>1. Inside \in [Turns -> Seq(Every)] /\ \A t \in Turns : Inside[t] = t.blocks
  BY DEF Inside, Turns
<1>2. ASSUME NEW ts \in Seq(Turns) PROVE Blocks(ts) = Each(Inside, ts)
  <2>1. [i \in DOMAIN ts |-> ts[i].blocks] = [i \in DOMAIN ts |-> Inside[ts[i]]]
    BY <1>1
  <2> QED
    BY <2>1 DEF Blocks, Gather, Each
<1>3. <<>> \in Seq(Turns) /\ \A t \in Turns : <<t>> \in Seq(Turns)
  OBVIOUS
<1>4. Blocks(<<>>) = <<>>
  BY <1>2, <1>3, EachEmpty
<1>5. ASSUME NEW ts \in Seq(Turns) PROVE Blocks(ts) \in Seq(Every)
  BY <1>1, <1>2, EachType
<1>6. ASSUME NEW ts \in Seq(Turns), NEW t \in Turns
      PROVE  Blocks(Append(ts, t)) = Blocks(ts) \o t.blocks
  <2>1. Append(ts, t) \in Seq(Turns)
    OBVIOUS
  <2>2. Each(Inside, Append(ts, t)) = Each(Inside, ts) \o Inside[t]
    BY <1>1, EachAppend
  <2> QED
    BY <1>1, <1>2, <2>1, <2>2
<1>7. ASSUME NEW ts \in Seq(Turns), NEW us \in Seq(Turns)
      PROVE  Blocks(ts \o us) = Blocks(ts) \o Blocks(us)
  <2>1. ts \o us \in Seq(Turns)
    OBVIOUS
  <2>2. Inside \in [Turns -> Seq(Every)]
    BY <1>1
  <2>3. Each(Inside, ts \o us) = Each(Inside, ts) \o Each(Inside, us)
    BY <2>2, EachConcat
  <2> QED
    BY <1>2, <2>1, <2>3
<1>8. ASSUME NEW t \in Turns PROVE Blocks(<<t>>) = t.blocks
  <2>1. Each(Inside, <<t>>) = Inside[t]
    BY <1>1, EachOne
  <2> QED
    BY <1>1, <1>2, <1>3, <2>1
<1> QED
  BY <1>1, <1>2, <1>4, <1>5, <1>6, <1>7, <1>8

LEMMA Associative ==
    \A x, y, z \in Seq(Every) : (x \o y) \o z = x \o (y \o z)
  BY ConcatAssociative

\* A sequence that is not empty, as its front and its last element.
LEMMA FrontLast ==
    ASSUME NEW S, NEW s \in Seq(S), s # <<>>
    PROVE  \E t \in Seq(S), x \in S : s = Append(t, x) /\ Front(s) = t /\ Last(s) = x
<1>1. PICK t \in Seq(S), x \in S : s = Append(t, x)
  BY SequenceEmptyOrAppend
<1>2. Len(t) \in Nat /\ Len(s) = Len(t) + 1 /\ s[Len(t) + 1] = x /\ \A i \in 1..Len(t) : s[i] = t[i]
  BY <1>1, Appended
<1>3. SubSeq(s, 1, Len(s) - 1) = t
  <2>1. SubSeq(s, 1, Len(t)) \in Seq(S) /\ Len(SubSeq(s, 1, Len(t))) = Len(t)
        /\ \A i \in 1..Len(t) : SubSeq(s, 1, Len(t))[i] = s[i]
    BY <1>2
  <2>2. SubSeq(s, 1, Len(t)) = t
    BY <1>2, <2>1, SeqEqual
  <2> QED
    BY <1>2, <2>2
<1> QED
  BY <1>1, <1>2, <1>3 DEF Front, Last

-----------------------------------------------------------------------------
(* What the turns of a Messages request say *)

\* Said adds its blocks.
LEMMA SaidAdds ==
    ASSUME NEW ts \in Seq(Turns), NEW role \in Roles, NEW blocks \in Seq(Every)
    PROVE  /\ Said(ts, role, blocks) \in Seq(Turns)
           /\ Blocks(Said(ts, role, blocks)) = Blocks(ts) \o blocks
<1>1. [role |-> role, blocks |-> blocks] \in Turns
  BY DEF Turns
<1>2. CASE blocks = <<>>
  <2>1. Blocks(ts) \o <<>> = Blocks(ts)
    BY BlocksLaws, ConcatEmptySeq
  <2> QED
    BY <1>2, <2>1 DEF Said
<1>3. CASE blocks # <<>>
  <2>1. Said(ts, role, blocks) = Append(ts, [role |-> role, blocks |-> blocks])
    BY <1>3 DEF Said
  <2>2. Blocks(Append(ts, [role |-> role, blocks |-> blocks])) = Blocks(ts) \o blocks
    BY <1>1, BlocksLaws
  <2> QED
    BY <1>1, <2>1, <2>2
<1> QED
  BY <1>2, <1>3

\* What an entry means on the wire of Anthropic is what AddMessage adds of it.
LEMMA MeantIs ==
    ASSUME NEW e \in Entries, e.chat.role # "system"
    PROVE  /\ Meant("anthropic", e) \in Seq(Worded) /\ Meant("responses", e) \in Seq(Worded)
           /\ e.chat.role = "tool" =>
                  /\ Meant("anthropic", e) = <<_tool_result_block(e.chat)>>
                  /\ Meant("responses", e) = e.said
           /\ e.chat.role # "tool" =>
                  Meant("anthropic", e) = e.chat.reasoning_details
                      \o _content_blocks(e.chat.content) \o _tool_use_blocks(e.chat.tool_calls)
<1>1. CASE e.chat.role = "user"
  <2>1. e.said \in Seq(Parts) /\ e.said \in Seq(Every)
    BY <1>1, EntryIs, Wider
  <2>2. _content_blocks(e.said) \in Seq(Worded)
    BY <2>1, SpelledLaws
  <2>3. \A w : Meant(w, e) = _content_blocks(e.said)
    BY <1>1 DEF Meant
  <2>4. <<>> \o _content_blocks(e.said) \o <<>> = _content_blocks(e.said)
    BY <2>2
  <2> QED
    BY <1>1, <2>2, <2>3, <2>4, EntryIs DEF _tool_use_blocks
<1>2. CASE e.chat.role = "tool"
  <2>1. PICK b \in Results : e.said = <<b>> /\ _tool_result_block(e.chat) = Trimmed(b)
    BY <1>2, EntryIs
  <2>2. e.said \in Seq(Worded) /\ <<Trimmed(b)>> \in Seq(Worded)
    <3>1. e.said \in Seq(Results)
      BY <1>2, EntryIs
    <3>2. <<Trimmed(b)>> \in Seq(Results)
      BY TrimmedIs
    <3> QED
      BY <3>1, <3>2, Wider
  <2>3. Meant("anthropic", e) = <<Trimmed(b)>> /\ Meant("responses", e) = e.said
    <3>1. e.said[1] = b
      BY <2>1
    <3> QED
      BY <1>2, <3>1 DEF Meant, Trimmed
  <2> QED
    BY <1>2, <2>1, <2>2, <2>3
<1>3. CASE e.chat.role = "assistant"
  <2> DEFINE c == Joined(e.said)
             k == Of(CallKinds, e.said)
             h == Of({"thinking"}, e.said)
             g == IF k = <<>> THEN h ELSE <<>>
  <2>1. e.said \in Seq(Given) /\ e.said \in Seq(Every)
    BY <1>3, EntryIs, Wider
  <2>2. c \in Seq(Texts) /\ c \in Seq(Every) /\ c \in Seq(Given) /\ k \in Seq(Given) /\ h \in Seq(Given)
    BY <2>1, JoinedIs, CallsAre, Wider
  <2>3. _content_blocks(c) = c
    <3>1. \A i \in DOMAIN c : c[i].type \notin {"empty", "odd"}
      <4>1. \A i \in DOMAIN c : c[i] \in Texts
        BY <2>2
      <4> QED
        BY <4>1 DEF Texts
    <3> QED
      BY <2>2, <3>1, SpelledLaws
  <2>4. <<>> \in Seq(Given)
    OBVIOUS
  <2>5. /\ Meant("anthropic", e) = (IF e.whole THEN h ELSE <<>>) \o c \o k
        /\ Meant("responses", e) = g \o c \o k
    BY <1>3 DEF Meant
  <2>6. /\ e.chat.reasoning_details = IF e.whole THEN h ELSE <<>>
        /\ e.chat.content = c /\ e.chat.tool_calls = k
    BY <1>3, EntryIs
  <2> HIDE DEF c, k, h
  <2>7. ASSUME NEW t \in Seq(Given) PROVE t \o c \o k \in Seq(Given)
    BY <2>2
  <2>8. Meant("anthropic", e) \in Seq(Given) /\ Meant("responses", e) \in Seq(Given)
    <3>1. g \in Seq(Given) /\ (IF e.whole THEN h ELSE <<>>) \in Seq(Given)
      BY <2>2, <2>4
    <3> HIDE DEF g
    <3> QED
      BY <2>5, <2>7, <3>1
  <2>9. Meant("anthropic", e) \in Seq(Worded) /\ Meant("responses", e) \in Seq(Worded)
    BY <2>8, Wider
  <2>10. _content_blocks(e.chat.content) = c /\ _tool_use_blocks(e.chat.tool_calls) = k
    BY <2>3, <2>6 DEF _tool_use_blocks
  <2>11. e.chat.role # "tool"
    BY <1>3
  <2> QED
    BY <2>5, <2>6, <2>9, <2>10, <2>11
<1> QED
  BY <1>1, <1>2, <1>3, EntryIs

\* A result that joins its turn, or any message with a turn of its own, adds
\* what it means.
LEMMA AddMessageAdds ==
    ASSUME NEW ts \in Seq(Turns), NEW e \in Entries
    PROVE  /\ AddMessage(ts, e.chat) \in Seq(Turns)
           /\ e.chat.role = "system" => AddMessage(ts, e.chat) = ts
           /\ e.chat.role # "system" =>
                  Blocks(AddMessage(ts, e.chat)) = Blocks(ts) \o Meant("anthropic", e)
<1>1. CASE e.chat.role = "system"
  BY <1>1 DEF AddMessage
<1>2. CASE e.chat.role = "tool"
  <2> DEFINE r == _tool_result_block(e.chat)
             c == <<r>>
             new == AddMessage(ts, e.chat)
  <2>1. c \in Seq(Every) /\ r \in Every /\ Meant("anthropic", e) = c
    <3>1. r \in Results
      BY <1>2, EntryIs, TrimmedIs
    <3>2. r \in Every
      BY <3>1, BlocksOfKinds
    <3> HIDE DEF r
    <3>3. <<r>> \in Seq(Every)
      BY <3>2
    <3> QED
      BY <1>2, <3>2, <3>3, MeantIs DEF r
  <2>2. new = AddResult(ts, e.chat)
    BY <1>2 DEF AddMessage
  <2>3. CASE ts # <<>> /\ IsResults(Last(ts))
    <3>1. PICK us \in Seq(Turns), t \in Turns : ts = Append(us, t) /\ Front(ts) = us /\ Last(ts) = t
      BY <2>3, FrontLast
    <3> DEFINE v == [t EXCEPT !.blocks = Append(@, r)]
    <3>2. new = Append(us, v)
      BY <2>2, <2>3, <3>1 DEF AddResult
    <3>3. t.blocks \in Seq(Every) /\ v \in Turns /\ v.blocks = t.blocks \o c
      <4>1. t.role \in Roles /\ t.blocks \in Seq(Every) /\ t = [role |-> t.role, blocks |-> t.blocks]
        BY DEF Turns
      <4> HIDE DEF r
      <4>2. Append(t.blocks, r) = t.blocks \o c /\ Append(t.blocks, r) \in Seq(Every)
        BY <2>1, <4>1, AppendIsConcat
      <4> HIDE DEF c
      <4> QED
        BY <4>1, <4>2 DEF Turns
    <3> HIDE DEF r, c, new, v
    <3>4. Append(us, v) \in Seq(Turns)
      BY <3>3
    <3>5. Blocks(Append(us, v)) = Blocks(us) \o (t.blocks \o c)
      BY <3>3, BlocksLaws
    <3>6. Blocks(ts) = Blocks(us) \o t.blocks /\ Blocks(us) \in Seq(Every)
      BY <3>1, BlocksLaws
    <3>7. (Blocks(us) \o t.blocks) \o c = Blocks(us) \o (t.blocks \o c)
      <4>1. Blocks(us) \in Seq(Every) /\ t.blocks \in Seq(Every) /\ c \in Seq(Every)
        BY <2>1, <3>3, <3>6
      <4> QED
        BY <4>1, Associative
    <3>8. new \in Seq(Turns) /\ Blocks(new) = Blocks(ts) \o c
      BY <3>2, <3>4, <3>5, <3>6, <3>7
    <3> QED
      BY <1>2, <2>1, <3>8 DEF new
  <2>4. CASE ~(ts # <<>> /\ IsResults(Last(ts)))
    <3>1. new = Said(ts, "user", c)
      BY <2>2, <2>4 DEF AddResult
    <3>2. "user" \in Roles
      BY DEF Roles
    <3>3. /\ Said(ts, "user", c) \in Seq(Turns)
          /\ Blocks(Said(ts, "user", c)) = Blocks(ts) \o c
      BY <2>1, <3>2, SaidAdds
    <3> QED
      BY <1>2, <2>1, <3>1, <3>3
  <2> QED
    BY <2>3, <2>4
<1>3. CASE e.chat.role \in {"user", "assistant"}
  <2>1. AddMessage(ts, e.chat) = Said(ts, e.chat.role, Meant("anthropic", e))
    BY <1>3, MeantIs DEF AddMessage
  <2>2. Meant("anthropic", e) \in Seq(Every) /\ e.chat.role \in Roles
    BY <1>3, MeantIs, Wider DEF Roles
  <2> QED
    BY <1>3, <2>1, <2>2, SaidAdds
<1> QED
  BY <1>1, <1>2, <1>3, EntryIs

\* What is said, when there is one more entry.
LEMMA SpokenLaws ==
    ASSUME NEW w \in {"anthropic", "responses"}
    PROVE  /\ Spoken(w, <<>>) = <<>>
           /\ \A d \in Seq(Entries) : Spoken(w, d) \in Seq(Worded)
           /\ \A d \in Seq(Entries), e \in Entries :
                 Spoken(w, Append(d, e)) = Spoken(w, d) \o
                    (IF e.chat.role = "system" THEN <<>> ELSE Meant(w, e))
<1> DEFINE Mean(e) == IF e.chat.role = "system" THEN <<>> ELSE Meant(w, e)
           M == [e \in Entries |-> Mean(e)]
<1>1. M \in [Entries -> Seq(Worded)] /\ \A e \in Entries : M[e] = Mean(e)
  <2>1. \A e \in Entries : Mean(e) \in Seq(Worded)
    BY MeantIs, EmptySeq
  <2> HIDE DEF Mean
  <2> QED
    BY <2>1
<1>2. ASSUME NEW d \in Seq(Entries) PROVE Spoken(w, d) = Each(M, d)
  <2>1. \A i \in DOMAIN d : d[i] \in Entries
    OBVIOUS
  <2>2. [i \in DOMAIN d |-> Mean(d[i])] = [i \in DOMAIN d |-> M[d[i]]]
    <3> HIDE DEF Mean, M
    <3> QED
      BY <1>1, <2>1
  <2> HIDE DEF M
  <2> QED
    BY <2>2 DEF Spoken, Gather, Each
<1> HIDE DEF M, Mean
<1>3. Spoken(w, <<>>) = <<>>
  <2>1. <<>> \in Seq(Entries)
    OBVIOUS
  <2> QED
    BY <1>2, <2>1, EachEmpty
<1>4. ASSUME NEW d \in Seq(Entries) PROVE Spoken(w, d) \in Seq(Worded)
  BY <1>1, <1>2, EachType
<1>5. ASSUME NEW d \in Seq(Entries), NEW e \in Entries
      PROVE  Spoken(w, Append(d, e)) = Spoken(w, d) \o Mean(e)
  <2>1. Append(d, e) \in Seq(Entries)
    OBVIOUS
  <2>2. M \in [Entries -> Seq(Worded)]
    BY <1>1
  <2>3. Each(M, Append(d, e)) = Each(M, d) \o M[e]
    BY <2>2, EachAppend
  <2> QED
    BY <1>1, <1>2, <2>1, <2>3
<1> QED
  BY <1>3, <1>4, <1>5 DEF Mean

\* The chat messages of a dialogue.
Chats(d) == [i \in DOMAIN d |-> d[i].chat]
Messages == {e.chat : e \in Entries}

LEMMA ChatsLaws ==
    /\ Chats(<<>>) = <<>>
    /\ \A d \in Seq(Entries) : Chats(d) \in Seq(Messages)
    /\ \A d \in Seq(Entries), e \in Entries : Chats(Append(d, e)) = Append(Chats(d), e.chat)
<1>1. Chats(<<>>) = <<>>
  BY DEF Chats
<1>2. \A e \in Entries : e.chat \in Messages
  BY DEF Messages
<1>3. ASSUME NEW d \in Seq(Entries)
      PROVE  /\ Chats(d) \in Seq(Messages) /\ Len(Chats(d)) = Len(d)
             /\ \A i \in 1..Len(d) : Chats(d)[i] = d[i].chat
  <2>1. Len(d) \in Nat /\ DOMAIN d = 1..Len(d) /\ \A i \in 1..Len(d) : d[i].chat \in Messages
    BY <1>2
  <2>2. Chats(d) \in [1..Len(d) -> Messages]
    BY <2>1 DEF Chats
  <2> QED
    BY <2>1, <2>2 DEF Chats
<1>4. ASSUME NEW d \in Seq(Entries), NEW e \in Entries
      PROVE  Chats(Append(d, e)) = Append(Chats(d), e.chat)
  <2> DEFINE x == Append(d, e)
             n == Len(d)
  <2>1. /\ x \in Seq(Entries) /\ n \in Nat /\ Len(x) = n + 1
        /\ x[n + 1] = e /\ \A i \in 1..n : x[i] = d[i]
    BY Appended
  <2>2. /\ Chats(x) \in Seq(Messages) /\ Len(Chats(x)) = n + 1
        /\ \A i \in 1..(n + 1) : Chats(x)[i] = x[i].chat
    <3> HIDE DEF x
    <3> QED
      BY <1>3, <2>1
  <2>3. /\ Chats(d) \in Seq(Messages) /\ Len(Chats(d)) = n
        /\ \A i \in 1..n : Chats(d)[i] = d[i].chat
    BY <1>3
  <2>4. e.chat \in Messages
    BY <1>2
  <2> DEFINE y == Append(Chats(d), e.chat)
  <2>5. /\ y \in Seq(Messages) /\ Len(y) = n + 1
        /\ y[n + 1] = e.chat /\ \A i \in 1..n : y[i] = Chats(d)[i]
    <3> HIDE DEF n
    <3> QED
      BY <2>3, <2>4, Appended
  <2> HIDE DEF x, n, y
  <2>6. \A i \in 1..(n + 1) : Chats(x)[i] = y[i]
    <3> SUFFICES ASSUME NEW i \in 1..(n + 1) PROVE Chats(x)[i] = y[i]
      OBVIOUS
    <3>1. CASE i = n + 1
      BY <2>1, <2>2, <2>5, <3>1
    <3>2. CASE i # n + 1
      <4>1. i \in 1..n
        BY <2>1, <3>2
      <4> QED
        BY <2>1, <2>2, <2>3, <2>5, <4>1
    <3> QED
      BY <3>1, <3>2
  <2>7. Chats(x) = y
    BY <2>2, <2>5, <2>6, SeqEqual
  <2> QED
    BY <2>7 DEF x, y
<1> QED
  BY <1>1, <1>3, <1>4

\* The turns of a Messages request say what the dialogue says.
Converted(d) == FoldLeft(AddMessage, <<>>, Chats(d))

LEMMA ConvertedLaws ==
    /\ Converted(<<>>) = <<>>
    /\ \A d \in Seq(Entries), e \in Entries :
          Converted(Append(d, e)) = AddMessage(Converted(d), e.chat)
<1>1. Converted(<<>>) = <<>>
  BY ChatsLaws, FoldEmpty DEF Converted
<1>2. ASSUME NEW d \in Seq(Entries), NEW e \in Entries
      PROVE  Converted(Append(d, e)) = AddMessage(Converted(d), e.chat)
  <2>1. Chats(d) \in Seq(Messages) /\ Chats(Append(d, e)) = Append(Chats(d), e.chat)
    BY ChatsLaws
  <2>2. e.chat \in Messages
    BY DEF Messages
  <2>3. FoldLeft(AddMessage, <<>>, Append(Chats(d), e.chat)) =
            AddMessage(FoldLeft(AddMessage, <<>>, Chats(d)), e.chat)
    BY <2>1, <2>2, FoldAppend
  <2> QED
    BY <2>1, <2>3 DEF Converted
<1> QED
  BY <1>1, <1>2

LEMMA ConvertedSays ==
    \A d \in Seq(Entries) :
        /\ Converted(d) \in Seq(Turns)
        /\ Blocks(Converted(d)) = Spoken("anthropic", d)
<1> DEFINE P == {d \in Seq(Entries) : /\ Converted(d) \in Seq(Turns)
                                      /\ Blocks(Converted(d)) = Spoken("anthropic", d)}
<1>1. <<>> \in P
  <2>1. <<>> \in Seq(Entries) /\ <<>> \in Seq(Turns)
    OBVIOUS
  <2> QED
    BY <2>1, ConvertedLaws, BlocksLaws, SpokenLaws
<1>2. ASSUME NEW d \in P, NEW e \in Entries PROVE Append(d, e) \in P
  <2> DEFINE ts == Converted(d)
  <2>1. d \in Seq(Entries) /\ ts \in Seq(Turns) /\ Blocks(ts) = Spoken("anthropic", d)
    OBVIOUS
  <2>2. Append(d, e) \in Seq(Entries) /\ Converted(Append(d, e)) = AddMessage(ts, e.chat)
    BY <2>1, ConvertedLaws
  <2>3. AddMessage(ts, e.chat) \in Seq(Turns)
    BY <2>1, AddMessageAdds
  <2>4. Spoken("anthropic", Append(d, e)) = Spoken("anthropic", d) \o
            (IF e.chat.role = "system" THEN <<>> ELSE Meant("anthropic", e))
    BY <2>1, SpokenLaws
  <2>5. CASE e.chat.role = "system"
    <3>1. AddMessage(ts, e.chat) = ts
      BY <2>1, <2>5, AddMessageAdds
    <3>2. Spoken("anthropic", d) \in Seq(Worded)
      BY <2>1, SpokenLaws
    <3>3. Spoken("anthropic", d) \o <<>> = Spoken("anthropic", d)
      BY <3>2, ConcatEmptySeq
    <3> QED
      BY <2>1, <2>2, <2>3, <2>4, <2>5, <3>1, <3>3
  <2>6. CASE e.chat.role # "system"
    <3>1. Blocks(AddMessage(ts, e.chat)) = Blocks(ts) \o Meant("anthropic", e)
      BY <2>1, <2>6, AddMessageAdds
    <3> QED
      BY <2>1, <2>2, <2>3, <2>4, <2>6, <3>1
  <2> QED
    BY <2>5, <2>6
<1>3. P \in SUBSET Seq(Entries)
  OBVIOUS
<1> HIDE DEF P
<1>4. P = Seq(Entries)
  BY <1>1, <1>2, <1>3, SeqInduction
<1> QED
  BY <1>4 DEF P

\* What is in words can be said.
LEMMA WordedSayable ==
    \A s \in Seq(Worded) : Of(Sayable, s) = s
<1> SUFFICES ASSUME NEW s \in Seq(Worded) PROVE Of(Sayable, s) = s
  OBVIOUS
<1>1. \A i \in DOMAIN s : s[i] \in Worded
  OBVIOUS
<1>2. \A i \in DOMAIN s : s[i].type \in Sayable
  BY <1>1 DEF Worded, Results, Sayable
<1> QED
  BY <1>2, OfLaws

-----------------------------------------------------------------------------
(* What the items of a Responses request say *)

\* An item for each block.
Singly(role, blocks) == [i \in DOMAIN blocks |-> [role |-> role, blocks |-> <<blocks[i]>>]]

LEMMA SinglyIs ==
    ASSUME NEW role \in Roles, NEW bs \in Seq(Every)
    PROVE  /\ Singly(role, bs) \in Seq(Turns) /\ Len(Singly(role, bs)) = Len(bs)
           /\ Blocks(Singly(role, bs)) = bs
<1> DEFINE ss == Singly(role, bs)
           M == [b \in Every |-> <<b>>]
<1>1. Len(bs) \in Nat /\ DOMAIN bs = 1..Len(bs) /\ \A i \in DOMAIN bs : bs[i] \in Every
  OBVIOUS
<1>2. \A b \in Every : [role |-> role, blocks |-> <<b>>] \in Turns
  BY DEF Turns
<1>3. ss \in [1..Len(bs) -> Turns]
  BY <1>1, <1>2 DEF Singly
<1>4. ss \in Seq(Turns) /\ Len(ss) = Len(bs) /\ DOMAIN ss = DOMAIN bs
  BY <1>1, <1>3
<1>5. \A i \in DOMAIN bs : ss[i].blocks = M[bs[i]]
  BY <1>1 DEF Singly
<1>6. [i \in DOMAIN ss |-> ss[i].blocks] = [i \in DOMAIN bs |-> M[bs[i]]]
  <2> HIDE DEF ss, M
  <2> QED
    BY <1>4, <1>5
<1>7. M \in [Every -> Seq(Every)] /\ \A b \in Every : M[b] = <<b>>
  OBVIOUS
<1> HIDE DEF M
<1>8. \A i \in DOMAIN bs : M[bs[i]] = <<bs[i]>>
  BY <1>1, <1>7
<1>9. Each(M, bs) = bs
  BY <1>7, <1>8, EachKept
<1> QED
  BY <1>4, <1>6, <1>9 DEF Blocks, Gather, Each

\* What the items of an entry say.
LEMMA InputItemsSay ==
    ASSUME NEW e \in Entries, e.chat.role # "system"
    PROVE  /\ InputItems(e.chat) \in Seq(Turns)
           /\ CanSend("responses", e.chat) =>
                  Of(Sayable, Blocks(InputItems(e.chat))) = Meant("responses", e)
<1> DEFINE m == e.chat
<1>1. CASE m.role = "user"
  <2>1. /\ e.said \in Seq(Parts) /\ e.said \in Seq(Every) /\ m.content = e.said
        /\ m.tool_calls = <<>> /\ m.reasoning_content = <<>>
    BY <1>1, EntryIs, Wider
  <2> DEFINE t == [role |-> m.role, blocks |-> m.content]
  <2>2. InputItems(m) = <<t>>
    <3>1. m.reasoning_content \o m.content = m.content
      BY <2>1, ConcatEmptySeq
    <3> QED
      BY <1>1, <2>1, <3>1 DEF InputItems
  <2>3. t \in Turns /\ <<t>> \in Seq(Turns) /\ t.blocks = e.said
    <3>1. t \in Turns /\ t.blocks = e.said
      BY <1>1, <2>1 DEF Turns, Roles
    <3> HIDE DEF t
    <3> QED
      BY <3>1
  <2>4. Blocks(<<t>>) = e.said
    <3> HIDE DEF t
    <3> QED
      BY <2>3, BlocksLaws
  <2>5. Meant("responses", e) = _content_blocks(e.said)
    BY <1>1 DEF Meant
  <2>6. ASSUME CanSend("responses", m) PROVE Of(Sayable, e.said) = _content_blocks(e.said)
    <3>1. Of({"void", "odd"}, e.said) = <<>>
      BY <1>1, <2>1, <2>6 DEF CanSend, Unsayable
    <3>2. \A i \in DOMAIN e.said : e.said[i].type \notin {"void", "odd"}
      BY <2>1, <3>1, OfLaws
    <3> QED
      BY <2>1, <3>2, SpelledLaws
  <2> HIDE DEF t
  <2> QED
    BY <2>2, <2>3, <2>4, <2>5, <2>6
<1>2. CASE m.role = "tool"
  <2>1. e.said \in Seq(Results) /\ e.said \in Seq(Every) /\ e.said \in Seq(Worded) /\ m.content = e.said
    BY <1>2, EntryIs, Wider
  <2>2. InputItems(m) = Singly("tool", e.said)
    <3>1. InputItems(m) = Singly(m.role, m.content)
      <4>1. m.tool_calls = <<>>
        BY <1>2, EntryIs
      <4> QED
        BY <1>2, <4>1 DEF InputItems, Singly
    <3> QED
      BY <1>2, <2>1, <3>1
  <2>3. Singly("tool", e.said) \in Seq(Turns) /\ Blocks(Singly("tool", e.said)) = e.said
    BY <2>1, SinglyIs DEF Roles
  <2>4. Meant("responses", e) = e.said
    BY <1>2, MeantIs
  <2> QED
    BY <2>1, <2>2, <2>3, <2>4, WordedSayable
<1>3. CASE m.role = "assistant"
  <2> DEFINE c == Joined(e.said)
             k == Of(CallKinds, e.said)
             h == Of({"thinking"}, e.said)
  <2>1. /\ e.said \in Seq(Given) /\ e.said \in Seq(Every)
        /\ m.content = c /\ m.tool_calls = k /\ m.reasoning_content = h
    BY <1>3, EntryIs, Wider
  <2>2. /\ c \in Seq(Given) /\ k \in Seq(Given) /\ c \in Seq(Every) /\ k \in Seq(Every)
        /\ c \in Seq(Worded) /\ k \in Seq(Worded) /\ h \in Seq(Every) /\ h \in Seq(Worded)
    BY <2>1, JoinedIs, CallsAre, Wider
  <2>3. Meant("responses", e) = (IF k = <<>> THEN h ELSE <<>>) \o c \o k
    BY <1>3 DEF Meant
  <2> HIDE DEF c, k, h
  <2>5. "assistant" \in Roles /\ <<>> \in Seq(Turns)
    BY DEF Roles
  <2>6. CASE k # <<>>
    <3> DEFINE one == Said(<<>>, "assistant", c)
               rest == Singly("assistant", k)
    <3>1. InputItems(m) = one \o rest
      BY <1>3, <2>1, <2>6 DEF InputItems, Singly
    <3>2. one \in Seq(Turns) /\ Blocks(one) = <<>> \o c
      <4>1. one \in Seq(Turns) /\ Blocks(one) = Blocks(<<>>) \o c
        BY <2>2, <2>5, SaidAdds
      <4> QED
        BY <4>1, BlocksLaws
    <3>3. rest \in Seq(Turns) /\ Blocks(rest) = k
      BY <2>2, <2>5, SinglyIs
    <3>4. <<>> \o c = c
      BY <2>2, ConcatEmptySeq
    <3> HIDE DEF one, rest
    <3>5. one \o rest \in Seq(Turns) /\ Blocks(one \o rest) = Blocks(one) \o Blocks(rest)
      <4>1. one \o rest \in Seq(Turns)
        BY <3>2, <3>3
      <4> QED
        BY <3>2, <3>3, <4>1, BlocksLaws
    <3>6. Blocks(one \o rest) = c \o k
      BY <3>2, <3>3, <3>4, <3>5
    <3>7. Meant("responses", e) = c \o k /\ c \o k \in Seq(Worded)
      BY <2>2, <2>3, <2>6
    <3> QED
      BY <3>1, <3>5, <3>6, <3>7, WordedSayable
  <2>7. CASE k = <<>>
    <3> DEFINE t == [role |-> m.role, blocks |-> h \o c]
    <3>1. InputItems(m) = <<t>>
      BY <1>3, <2>1, <2>7 DEF InputItems
    <3>2. h \o c \in Seq(Every) /\ h \o c \in Seq(Worded)
      BY <2>2
    <3>3. t \in Turns /\ t.blocks = h \o c
      BY <1>3, <2>5, <3>2 DEF Turns
    <3> HIDE DEF t
    <3>4. <<t>> \in Seq(Turns) /\ Blocks(<<t>>) = h \o c
      BY <3>3, BlocksLaws
    <3>5. Meant("responses", e) = h \o c
      <4>1. Meant("responses", e) = h \o c \o <<>>
        BY <2>3, <2>7
      <4> QED
        BY <3>2, <4>1, ConcatEmptySeq
    <3> QED
      BY <3>1, <3>2, <3>4, <3>5, WordedSayable
  <2> QED
    BY <2>6, <2>7
<1> QED
  BY <1>1, <1>2, <1>3, EntryIs

\* The items of a Responses request.
Itemized(d) == Gather(LAMBDA m : IF m.role = "system" THEN <<>> ELSE InputItems(m), Chats(d))
Itemize == [m \in Messages |-> IF m.role = "system" THEN <<>> ELSE InputItems(m)]

LEMMA ItemizedLaws ==
    /\ Itemized(<<>>) = <<>>
    /\ \A d \in Seq(Entries) : Itemized(d) \in Seq(Turns)
    /\ \A d \in Seq(Entries), e \in Entries :
          Itemized(Append(d, e)) = Itemized(d) \o
              (IF e.chat.role = "system" THEN <<>> ELSE InputItems(e.chat))
<1>1. Itemize \in [Messages -> Seq(Turns)]
  <2>1. \A e \in Entries : (IF e.chat.role = "system" THEN <<>> ELSE InputItems(e.chat)) \in Seq(Turns)
    BY InputItemsSay, EmptySeq
  <2>2. \A m \in Messages : (IF m.role = "system" THEN <<>> ELSE InputItems(m)) \in Seq(Turns)
    BY <2>1 DEF Messages
  <2> QED
    BY <2>2 DEF Itemize
<1>2. ASSUME NEW d \in Seq(Entries) PROVE Itemized(d) = Each(Itemize, Chats(d))
  <2>1. Chats(d) \in Seq(Messages)
    BY ChatsLaws
  <2> DEFINE ms == Chats(d)
  <2>2. \A i \in DOMAIN ms : ms[i] \in Messages
    BY <2>1
  <2> HIDE DEF ms
  <2>3. [i \in DOMAIN ms |-> IF ms[i].role = "system" THEN <<>> ELSE InputItems(ms[i])] =
        [i \in DOMAIN ms |-> Itemize[ms[i]]]
    BY <2>2 DEF Itemize
  <2> QED
    BY <2>3 DEF Itemized, Gather, Each, ms
<1>3. Itemized(<<>>) = <<>>
  <2>1. <<>> \in Seq(Entries)
    OBVIOUS
  <2> QED
    BY <1>2, <2>1, ChatsLaws, EachEmpty
<1>4. ASSUME NEW d \in Seq(Entries) PROVE Itemized(d) \in Seq(Turns)
  <2>1. Chats(d) \in Seq(Messages)
    BY ChatsLaws
  <2> QED
    <3>1. Each(Itemize, Chats(d)) \in Seq(Turns)
      BY <1>1, <2>1, EachType
    <3> QED
      BY <1>2, <3>1
<1>5. ASSUME NEW d \in Seq(Entries), NEW e \in Entries
      PROVE  Itemized(Append(d, e)) = Itemized(d) \o
                 (IF e.chat.role = "system" THEN <<>> ELSE InputItems(e.chat))
  <2>1. Append(d, e) \in Seq(Entries)
    OBVIOUS
  <2>2. Chats(d) \in Seq(Messages) /\ Chats(Append(d, e)) = Append(Chats(d), e.chat)
    BY ChatsLaws
  <2>3. e.chat \in Messages
    BY DEF Messages
  <2>4. Each(Itemize, Append(Chats(d), e.chat)) = Each(Itemize, Chats(d)) \o Itemize[e.chat]
    BY <1>1, <2>2, <2>3, EachAppend
  <2>5. Itemize[e.chat] = IF e.chat.role = "system" THEN <<>> ELSE InputItems(e.chat)
    BY <2>3 DEF Itemize
  <2> QED
    BY <1>2, <2>1, <2>2, <2>4, <2>5
<1> QED
  BY <1>3, <1>4, <1>5

\* The items of a Responses request say what a dialogue says that can be sent.
LEMMA ItemizedSays ==
    \A d \in Seq(Entries) :
        (\A i \in DOMAIN d : CanSend("responses", d[i].chat)) =>
            Of(Sayable, Blocks(Itemized(d))) = Spoken("responses", d)
<1> DEFINE Able(d) == \A i \in DOMAIN d : CanSend("responses", d[i].chat)
           Says(d) == Of(Sayable, Blocks(Itemized(d))) = Spoken("responses", d)
           P == {d \in Seq(Entries) : Able(d) => Says(d)}
<1>1. <<>> \in P
  <2>1. <<>> \in Seq(Entries)
    OBVIOUS
  <2>2. Says(<<>>)
    BY ItemizedLaws, BlocksLaws, SpokenLaws, OfLaws
  <2> HIDE DEF Says
  <2> QED
    BY <2>1, <2>2
<1>2. ASSUME NEW d \in P, NEW e \in Entries PROVE Append(d, e) \in P
  <2>1. d \in Seq(Entries) /\ (Able(d) => Says(d)) /\ Append(d, e) \in Seq(Entries)
    <3> HIDE DEF Able, Says
    <3> QED
      OBVIOUS
  <2>2. SUFFICES ASSUME Able(Append(d, e)) PROVE Says(Append(d, e))
    <3> HIDE DEF Able, Says
    <3> QED
      BY <2>1
  <2>3. Able(d) /\ CanSend("responses", e.chat)
    <3>1. /\ Len(d) \in Nat /\ DOMAIN d = 1..Len(d) /\ DOMAIN Append(d, e) = 1..(Len(d) + 1)
          /\ Append(d, e)[Len(d) + 1] = e /\ \A i \in 1..Len(d) : Append(d, e)[i] = d[i]
      BY <2>1, Appended
    <3>2. \A i \in 1..(Len(d) + 1) : CanSend("responses", Append(d, e)[i].chat)
      BY <2>2, <3>1
    <3>3. Len(d) + 1 \in 1..(Len(d) + 1) /\ \A i \in 1..Len(d) : i \in 1..(Len(d) + 1)
      BY <3>1
    <3>4. CanSend("responses", Append(d, e)[Len(d) + 1].chat)
      BY <3>2, <3>3
    <3>5. \A i \in 1..Len(d) : CanSend("responses", d[i].chat)
      BY <3>1, <3>2, <3>3
    <3> QED
      BY <3>1, <3>4, <3>5
  <2>4. Of(Sayable, Blocks(Itemized(d))) = Spoken("responses", d)
    BY <2>1, <2>3
  <2>5. /\ Itemized(d) \in Seq(Turns) /\ Blocks(Itemized(d)) \in Seq(Every)
        /\ Spoken("responses", d) \in Seq(Worded)
    BY <2>1, ItemizedLaws, BlocksLaws, SpokenLaws
  <2>6. CASE e.chat.role = "system"
    <3>1. Itemized(Append(d, e)) = Itemized(d) \o <<>>
      BY <2>1, <2>6, ItemizedLaws
    <3>2. Spoken("responses", Append(d, e)) = Spoken("responses", d) \o <<>>
      BY <2>1, <2>6, SpokenLaws
    <3>3. Itemized(d) \o <<>> = Itemized(d)
      BY <2>5, ConcatEmptySeq
    <3>4. Spoken("responses", d) \o <<>> = Spoken("responses", d)
      BY <2>5, ConcatEmptySeq
    <3> QED
      BY <2>4, <3>1, <3>2, <3>3, <3>4
  <2>7. CASE e.chat.role # "system"
    <3> DEFINE its == InputItems(e.chat)
    <3>1. Itemized(Append(d, e)) = Itemized(d) \o its
      BY <2>1, <2>7, ItemizedLaws
    <3>2. its \in Seq(Turns) /\ Of(Sayable, Blocks(its)) = Meant("responses", e)
      BY <2>3, <2>7, InputItemsSay
    <3>3. Spoken("responses", Append(d, e)) = Spoken("responses", d) \o Meant("responses", e)
      BY <2>1, <2>7, SpokenLaws
    <3> HIDE DEF its
    <3>4. Blocks(Itemized(d) \o its) = Blocks(Itemized(d)) \o Blocks(its) /\ Blocks(its) \in Seq(Every)
      BY <2>5, <3>2, BlocksLaws
    <3>5. Of(Sayable, Blocks(Itemized(d)) \o Blocks(its)) =
              Of(Sayable, Blocks(Itemized(d))) \o Of(Sayable, Blocks(its))
      <4>1. \A s, t \in Seq(Every) : Of(Sayable, s \o t) = Of(Sayable, s) \o Of(Sayable, t)
        BY OfConcat
      <4> QED
        BY <2>5, <3>4, <4>1
    <3> QED
      BY <2>4, <3>1, <3>2, <3>3, <3>4, <3>5
  <2> QED
    BY <2>6, <2>7
<1>3. P \in SUBSET Seq(Entries)
  OBVIOUS
<1> HIDE DEF P
<1>4. P = Seq(Entries)
  BY <1>1, <1>2, <1>3, SeqInduction
<1> QED
  BY <1>4 DEF P

-----------------------------------------------------------------------------
(* A request says what was said *)

\* The texts of what each element of a sequence becomes.
EachText(M, S) == [x \in S |-> Of({"text"}, M[x])]

LEMMA TextsOfEach ==
    ASSUME NEW S, NEW T, NEW M \in [S -> Seq(T)]
    PROVE  \A s \in Seq(S) : Of({"text"}, Each(M, s)) = Each(EachText(M, S), s)
<1> DEFINE N == EachText(M, S)
<1>0. N \in [S -> Seq(T)] /\ \A x \in S : N[x] = Of({"text"}, M[x])
  <2>1. ASSUME NEW x \in S PROVE Of({"text"}, M[x]) \in Seq(T)
    <3>1. M[x] \in Seq(T)
      OBVIOUS
    <3>2. Of({"text"}, M[x]) \in Seq({b \in T : b.type \in {"text"}})
      BY <3>1, OfType
    <3>3. {b \in T : b.type \in {"text"}} \subseteq T
      OBVIOUS
    <3> QED
      BY <3>2, <3>3, SeqMonotonic
  <2> QED
    BY <2>1 DEF EachText
<1> HIDE DEF N
<1> DEFINE P == {s \in Seq(S) : Of({"text"}, Each(M, s)) = Each(N, s)}
<1>1. <<>> \in P
  <2>1. <<>> \in Seq(S)
    OBVIOUS
  <2>2. Each(M, <<>>) = <<>> /\ Each(N, <<>>) = <<>>
    BY EachEmpty
  <2>3. Of({"text"}, <<>>) = <<>>
    BY OfLaws
  <2> QED
    BY <2>1, <2>2, <2>3
<1>2. ASSUME NEW s \in P, NEW x \in S PROVE Append(s, x) \in P
  <2>1. s \in Seq(S) /\ Of({"text"}, Each(M, s)) = Each(N, s) /\ Append(s, x) \in Seq(S)
    OBVIOUS
  <2>2. /\ Each(M, Append(s, x)) = Each(M, s) \o M[x]
        /\ Each(N, Append(s, x)) = Each(N, s) \o N[x]
    BY <1>0, <2>1, EachAppend
  <2>3. Each(M, s) \in Seq(T) /\ M[x] \in Seq(T)
    BY <2>1, EachType
  <2>4. Of({"text"}, Each(M, s) \o M[x]) = Of({"text"}, Each(M, s)) \o Of({"text"}, M[x])
    <3>1. \A u, v \in Seq(T) : Of({"text"}, u \o v) = Of({"text"}, u) \o Of({"text"}, v)
      BY OfConcat
    <3> QED
      BY <2>3, <3>1
  <2> QED
    BY <1>0, <2>1, <2>2, <2>4
<1>3. P \in SUBSET Seq(S)
  OBVIOUS
<1> HIDE DEF P
<1>4. P = Seq(S)
  BY <1>1, <1>2, <1>3, SeqInduction
<1> QED
  BY <1>4 DEF P, N

\* A content as an instruction: a list of parts is nothing that is claimed.
Tellable == [type : {"text", "raw"}, id : Seq(Nat)]

LEMMA FormattedIs ==
    ASSUME NEW s \in Seq(Parts)
    PROVE  /\ Joined(s) \in Seq(Tellable) /\ Formatted(s) \in Seq(Tellable)
           /\ Of({"text"}, Joined(s)) = Joined(s)
           /\ Of({"text"}, Formatted(s)) = IF IsString(s) THEN Joined(s) ELSE <<>>
<1> DEFINE M == [p \in Parts |-> p.id]
           raw == Block("raw", Gather(LAMBDA p : p.id, s))
<1>1. Joined(s) \in Seq(Texts)
  <2>1. s \in Seq(Every)
    BY Wider
  <2> QED
    BY <2>1, JoinedIs
<1>2. Joined(s) \in Seq(Tellable)
  <2>1. Texts \subseteq Tellable
    BY DEF Texts, Tellable
  <2> QED
    BY <1>1, <2>1, SeqMonotonic
<1>3. Of({"text"}, Joined(s)) = Joined(s)
  <2> DEFINE j == Joined(s)
  <2>1. \A i \in DOMAIN j : j[i] \in Texts
    BY <1>1
  <2> HIDE DEF j
  <2>2. \A i \in DOMAIN j : j[i].type \in {"text"}
    BY <2>1 DEF Texts
  <2> QED
    BY <1>1, <2>2, OfLaws DEF j
<1>4. raw \in Tellable /\ raw.type = "raw"
  <2>1. M \in [Parts -> Seq(Nat)]
    BY DEF Parts
  <2>2. [i \in DOMAIN s |-> s[i].id] = [i \in DOMAIN s |-> M[s[i]]]
    OBVIOUS
  <2> HIDE DEF M
  <2>3. Each(M, s) \in Seq(Nat)
    BY <2>1, EachType
  <2>4. Gather(LAMBDA p : p.id, s) \in Seq(Nat)
    BY <2>2, <2>3 DEF Gather, Each
  <2> QED
    BY <2>4 DEF Block, Tellable
<1>5. Formatted(s) = IF IsString(s) THEN Joined(s) ELSE <<raw>>
  BY DEF Formatted
<1> HIDE DEF raw
<1>6. <<raw>> \in Seq(Tellable) /\ Of({"text"}, <<raw>>) = <<>>
  <2>1. <<raw>> \in Seq(Tellable)
    BY <1>4
  <2>2. Of({"text"}, <<raw>>) = IF raw.type \in {"text"} THEN <<raw>> ELSE <<>>
    BY <1>4, OfLaws
  <2> QED
    BY <1>4, <2>1, <2>2
<1> QED
  BY <1>2, <1>3, <1>5, <1>6

\* The instructions of a request are those of the dialogue.
TellAs(w, parts) == IF w = "anthropic" THEN Joined(parts) ELSE Formatted(parts)
Briefing(w, d) ==
    Gather(LAMBDA m : IF m.role = "system" THEN TellAs(w, m.content) ELSE <<>>, Chats(d))

LEMMA BriefingInstructed ==
    ASSUME NEW w, NEW d \in Seq(Entries)
    PROVE  Of({"text"}, Briefing(w, d)) = Instructed(w, d)
<1> DEFINE Tell(e) == IF e.chat.role = "system" THEN TellAs(w, e.said) ELSE <<>>
           Hold(e) == IF e.chat.role = "system" /\ (w = "anthropic" \/ IsString(e.said))
                      THEN Joined(e.said) ELSE <<>>
           M == [e \in Entries |-> Tell(e)]
           N == [e \in Entries |-> Hold(e)]
<1>1. ASSUME NEW e \in Entries
      PROVE  Tell(e) \in Seq(Tellable) /\ Hold(e) \in Seq(Tellable) /\ Of({"text"}, Tell(e)) = Hold(e)
  <2>1. CASE e.chat.role = "system"
    <3>1. e.said \in Seq(Parts)
      BY <2>1, EntryIs
    <3>2. /\ Joined(e.said) \in Seq(Tellable) /\ Formatted(e.said) \in Seq(Tellable)
          /\ Of({"text"}, Joined(e.said)) = Joined(e.said)
          /\ Of({"text"}, Formatted(e.said)) = IF IsString(e.said) THEN Joined(e.said) ELSE <<>>
      BY <3>1, FormattedIs
    <3> QED
      BY <2>1, <3>2, EmptySeq DEF TellAs
  <2>2. CASE e.chat.role # "system"
    <3>1. Of({"text"}, <<>>) = <<>>
      BY OfLaws
    <3> QED
      BY <2>2, <3>1, EmptySeq
  <2> QED
    BY <2>1, <2>2
<1>2. \A i \in DOMAIN d : d[i] \in Entries
  OBVIOUS
<1>3. \A i \in DOMAIN d : d[i].chat.role = "system" => d[i].chat.content = d[i].said
  BY <1>2, EntryIs
<1>4. DOMAIN Chats(d) = DOMAIN d /\ \A i \in DOMAIN d : Chats(d)[i] = d[i].chat
  BY DEF Chats
<1>5. Briefing(w, d) = Each(M, d)
  <2>1. [i \in DOMAIN Chats(d) |->
            IF Chats(d)[i].role = "system" THEN TellAs(w, Chats(d)[i].content) ELSE <<>>] =
        [i \in DOMAIN d |-> Tell(d[i])]
    BY <1>3, <1>4
  <2>2. [i \in DOMAIN d |-> Tell(d[i])] = [i \in DOMAIN d |-> M[d[i]]]
    <3> HIDE DEF Tell
    <3> QED
      BY <1>2
  <2> HIDE DEF M, Tell
  <2> QED
    BY <2>1, <2>2 DEF Briefing, Gather, Each
<1>6. Instructed(w, d) = Each(N, d)
  <2>1. [i \in DOMAIN d |-> Hold(d[i])] = [i \in DOMAIN d |-> N[d[i]]]
    <3> HIDE DEF Hold
    <3> QED
      BY <1>2
  <2> HIDE DEF N
  <2> QED
    BY <2>1 DEF Instructed, Gather, Each
<1>7. /\ M \in [Entries -> Seq(Tellable)] /\ N \in [Entries -> Seq(Tellable)]
      /\ \A e \in Entries : Of({"text"}, M[e]) = N[e]
  <2> HIDE DEF Tell, Hold
  <2> QED
    BY <1>1
<1> HIDE DEF M, N
<1>8. Of({"text"}, Each(M, d)) = Each(N, d)
  <2>1. EachText(M, Entries) = N
    BY <1>7 DEF EachText
  <2>2. M \in [Entries -> Seq(Tellable)]
    BY <1>7
  <2>3. Of({"text"}, Each(M, d)) = Each(EachText(M, Entries), d)
    BY <2>2, TextsOfEach
  <2> QED
    BY <2>1, <2>3
<1> QED
  BY <1>5, <1>6, <1>8

\* What is left of a dialogue, when there is one more entry.
LEMMA SendableLaws ==
    ASSUME NEW w
    PROVE  /\ Sendable(w, <<>>) = <<>>
           /\ \A d \in Seq(Entries) : Sendable(w, d) \in Seq(Entries)
           /\ \A d \in Seq(Entries), e \in Entries :
                 Sendable(w, Append(d, e)) =
                     Sendable(w, d) \o (IF CanSend(w, e.chat) THEN <<e>> ELSE <<>>)
<1> DEFINE M == [e \in Entries |-> IF CanSend(w, e.chat) THEN <<e>> ELSE <<>>]
<1>1. /\ M \in [Entries -> Seq(Entries)]
      /\ \A e \in Entries : M[e] = IF CanSend(w, e.chat) THEN <<e>> ELSE <<>>
  OBVIOUS
<1>2. ASSUME NEW d \in Seq(Entries) PROVE Sendable(w, d) = Each(M, d)
  <2>1. [i \in DOMAIN d |-> IF CanSend(w, d[i].chat) THEN <<d[i]>> ELSE <<>>] =
        [i \in DOMAIN d |-> M[d[i]]]
    BY <1>1
  <2> HIDE DEF M
  <2> QED
    BY <2>1 DEF Sendable, Gather, Each
<1> HIDE DEF M
<1>3. Sendable(w, <<>>) = <<>>
  <2>1. <<>> \in Seq(Entries)
    OBVIOUS
  <2> QED
    BY <1>2, <2>1, EachEmpty
<1>4. ASSUME NEW d \in Seq(Entries) PROVE Sendable(w, d) \in Seq(Entries)
  BY <1>1, <1>2, EachType
<1>5. ASSUME NEW d \in Seq(Entries), NEW e \in Entries
      PROVE  Sendable(w, Append(d, e)) =
                 Sendable(w, d) \o (IF CanSend(w, e.chat) THEN <<e>> ELSE <<>>)
  <2>1. Append(d, e) \in Seq(Entries)
    OBVIOUS
  <2>2. M \in [Entries -> Seq(Entries)]
    BY <1>1
  <2>3. Each(M, Append(d, e)) = Each(M, d) \o M[e]
    BY <2>2, EachAppend
  <2> QED
    BY <1>1, <1>2, <2>1, <2>3
<1> QED
  BY <1>3, <1>4, <1>5

\* What every state of a dialogue knows.
Dialogue ==
    /\ dialogue \in Seq(Entries)
    /\ pending \in SUBSET Seq(Nat)
    /\ serial \in Nat

Translation ==
    phase = "model" =>
        /\ request.wire \in {"anthropic", "responses"}
        /\ \A i \in DOMAIN dialogue : CanSend(request.wire, dialogue[i].chat)
        /\ sent.system = Briefing(request.wire, dialogue)
        /\ sent.turns = IF request.wire = "anthropic" THEN Converted(dialogue)
                                                      ELSE Itemized(dialogue)

\* Serial numbers are ids.
LEMMA Serials ==
    ASSUME NEW K, NEW kinds \in Seq(K), serial \in Nat
    PROVE  /\ Len(kinds) \in Nat
           /\ New(kinds) \in Seq([type : K, id : Seq(Nat)])
<1>1. Len(kinds) \in Nat /\ DOMAIN kinds = 1..Len(kinds) /\ \A i \in DOMAIN kinds : kinds[i] \in K
  OBVIOUS
<1>2. ASSUME NEW i \in DOMAIN kinds
      PROVE  Block(kinds[i], <<serial + i>>) \in [type : K, id : Seq(Nat)]
  <2>1. serial + i \in Nat
    BY <1>1
  <2>2. <<serial + i>> \in Seq(Nat)
    BY <2>1
  <2> QED
    BY <1>1, <2>2 DEF Block
<1>3. [i \in DOMAIN kinds |-> Block(kinds[i], <<serial + i>>)]
          \in [1..Len(kinds) -> [type : K, id : Seq(Nat)]]
  BY <1>1, <1>2
<1> QED
  BY <1>1, <1>3 DEF New

\* What an instruction, a message, a result and an answer add.
LEMMA InstructAdds ==
    ASSUME Dialogue, Instruct
    PROVE  \E e \in Entries : e.chat.role = "system" /\ dialogue' = Append(dialogue, e) /\ serial' \in Nat
<1>1. PICK kinds \in Contents :
        Keep(New(kinds), FALSE, Message("system", New(kinds)), Len(kinds))
  BY DEF Instruct
<1> DEFINE parts == New(kinds)
           e == Entry(parts, FALSE, Message("system", parts))
<1>2. kinds \in Seq(PartKinds)
  BY ContentsAssumption
<1>3. Len(kinds) \in Nat /\ parts \in Seq(Parts)
  BY <1>2, Serials DEF Dialogue, Parts
<1>4. serial' = serial + Len(kinds) /\ dialogue' = Append(dialogue, e)
  BY <1>1 DEF Keep, Entry
<1> HIDE DEF parts
<1>5. e \in Entries /\ e.chat.role = "system"
  BY <1>3 DEF Entries, Instructing, Entry, Message
<1> HIDE DEF e
<1> QED
  BY <1>3, <1>4, <1>5 DEF Dialogue

LEMMA SayAdds ==
    ASSUME Dialogue, Say
    PROVE  \E e \in Entries : e.chat.role = "user" /\ dialogue' = Append(dialogue, e) /\ serial' \in Nat
<1>1. PICK kinds \in Contents :
        Keep(New(kinds), FALSE, Message("user", New(kinds)), Len(kinds))
  BY DEF Say
<1> DEFINE parts == New(kinds)
           e == Entry(parts, FALSE, Message("user", parts))
<1>2. kinds \in Seq(PartKinds)
  BY ContentsAssumption
<1>3. Len(kinds) \in Nat /\ parts \in Seq(Parts)
  BY <1>2, Serials DEF Dialogue, Parts
<1>4. serial' = serial + Len(kinds) /\ dialogue' = Append(dialogue, e)
  BY <1>1 DEF Keep, Entry
<1> HIDE DEF parts
<1>5. e \in Entries /\ e.chat.role = "user"
  BY <1>3 DEF Entries, Asking, Entry, Message
<1> HIDE DEF e
<1> QED
  BY <1>3, <1>4, <1>5 DEF Dialogue

LEMMA ReturnAdds ==
    ASSUME Dialogue, Return
    PROVE  \E e \in Entries :
              /\ e.chat.role = "tool" /\ dialogue' = Append(dialogue, e) /\ serial' \in Nat
              /\ Ids(e.said) \subseteq pending /\ pending' = pending \ Ids(e.said)
<1>1. PICK id \in pending, kinds \in Contents :
        LET result == <<[type |-> "tool_result", id |-> id, parts |-> New(kinds)]>> IN
        /\ Keep(result, FALSE, Message("tool", result), Len(kinds))
        /\ pending' = pending \ {id}
  BY DEF Return
<1> DEFINE b == [type |-> "tool_result", id |-> id, parts |-> New(kinds)]
           e == Entry(<<b>>, FALSE, Message("tool", <<b>>))
<1>2. b \in Results /\ b.id = id /\ Len(kinds) \in Nat
  <2>1. kinds \in Seq(PartKinds)
    BY ContentsAssumption
  <2>2. Len(kinds) \in Nat /\ New(kinds) \in Seq(Parts)
    BY <2>1, Serials DEF Dialogue, Parts
  <2> QED
    BY <2>2 DEF Dialogue, Results
<1>3. serial' = serial + Len(kinds) /\ dialogue' = Append(dialogue, e) /\ pending' = pending \ {id}
  BY <1>1 DEF Keep, Entry
<1>4. e \in Entries /\ e.chat.role = "tool" /\ e.said = <<b>>
  BY <1>2 DEF Entries, Returning, Entry, Message
<1>5. Ids(<<b>>) = {id}
  BY <1>2 DEF Ids
<1> HIDE DEF e
<1>6. Ids(e.said) = {id}
  BY <1>4, <1>5
<1>7. serial' \in Nat
  BY <1>2, <1>3 DEF Dialogue
<1> QED
  BY <1>3, <1>4, <1>6, <1>7

LEMMA ReplyAdds ==
    ASSUME Dialogue, Reply
    PROVE  \E e \in Entries :
              /\ e.chat.role = "assistant" /\ dialogue' = Append(dialogue, e) /\ serial' \in Nat
              /\ pending' = CallIds(e.said)
<1> DEFINE whole == request.wire = "anthropic" /\ ~request.stream
<1>1. PICK kinds \in Shapes :
        /\ Keep(New(kinds), whole,
                IF whole THEN transform_anthropic_to_completions(New(kinds))
                         ELSE Assembled(New(kinds)),
                Len(kinds))
        /\ pending' = Ids(Of(CallKinds, New(kinds)))
  BY DEF Reply
<1> DEFINE bs == New(kinds)
           e == AnswerEntry(bs, whole)
<1>2. kinds \in Seq(BlockKinds)
  BY ShapesAssumption
<1>3. Len(kinds) \in Nat /\ bs \in Seq(Given)
  BY <1>2, Serials DEF Dialogue, Given
<1>4. whole \in BOOLEAN
  OBVIOUS
<1>5. serial' = serial + Len(kinds) /\ pending' = CallIds(bs)
  BY <1>1 DEF Keep, CallIds
<1>6. dialogue' = Append(dialogue, e)
  <2>1. (IF whole THEN transform_anthropic_to_completions(bs) ELSE Assembled(bs)) =
        AnswerMessage(bs, IF whole THEN Of({"thinking"}, bs) ELSE <<>>)
    BY DEF transform_anthropic_to_completions, Assembled
  <2> QED
    BY <1>1, <2>1 DEF Keep, AnswerEntry, Entry
<1> HIDE DEF bs, whole
<1>7. e \in Entries /\ e.chat.role = "assistant" /\ e.said = bs
  BY <1>3, <1>4 DEF Entries, Answering, AnswerEntry, Entry, AnswerMessage
<1> HIDE DEF e
<1> QED
  BY <1>3, <1>5, <1>6, <1>7 DEF Dialogue

\* The calls of an answer have ids.
LEMMA CallIdsType ==
    ASSUME NEW e \in Entries, e.chat.role = "assistant"
    PROVE  CallIds(e.said) \in SUBSET Seq(Nat)
<1> DEFINE bs == Of(CallKinds, e.said)
<1>1. bs \in Seq(Given)
  BY EntryIs, CallsAre
<1>2. \A i \in DOMAIN bs : bs[i].id \in Seq(Nat)
  <2>1. \A i \in DOMAIN bs : bs[i] \in Given
    BY <1>1
  <2> HIDE DEF bs
  <2> QED
    BY <2>1 DEF Given
<1> HIDE DEF bs
<1>3. Ids(bs) \in SUBSET Seq(Nat)
  BY <1>2 DEF Ids
<1> QED
  BY <1>3 DEF CallIds, bs

\* Every step keeps what is known of the dialogue and of its request.
LEMMA DialogueKept ==
    ASSUME Dialogue, Translation, [DialogueNext]_dialogueVars
    PROVE  (Dialogue /\ Translation)'
<1>1. CASE Instruct
  <2>1. dialogue' \in Seq(Entries) /\ serial' \in Nat
    BY <1>1, InstructAdds DEF Dialogue
  <2>2. phase' = "caller" /\ pending' = pending
    BY <1>1 DEF Instruct
  <2> QED
    BY <2>1, <2>2 DEF Dialogue, Translation
<1>2. CASE Say
  <2>1. dialogue' \in Seq(Entries) /\ serial' \in Nat
    BY <1>2, SayAdds DEF Dialogue
  <2>2. phase' = "caller" /\ pending' = pending
    BY <1>2 DEF Say
  <2> QED
    BY <2>1, <2>2 DEF Dialogue, Translation
<1>3. CASE Return
  <2>1. dialogue' \in Seq(Entries) /\ serial' \in Nat /\ pending' \in SUBSET Seq(Nat)
    BY <1>3, ReturnAdds DEF Dialogue
  <2>2. phase' = "caller"
    BY <1>3 DEF Return
  <2> QED
    BY <2>1, <2>2 DEF Dialogue, Translation
<1>4. CASE Ask
  <2>1. PICK q \in Requests :
          /\ Translatable(q.wire) /\ request' = q
          /\ sent' = IF q.wire = "anthropic" THEN transform_to_anthropic_messages(q)
                                             ELSE transform_to_responses_format(q)
    BY <1>4 DEF Ask
  <2>2. dialogue' = dialogue /\ pending' = pending /\ serial' = serial
    BY <1>4 DEF Ask
  <2>3. q.wire \in {"anthropic", "responses"}
    BY RequestsAssumption DEF Request
  <2>4. \A i \in DOMAIN dialogue : CanSend(q.wire, dialogue[i].chat)
    BY <2>1 DEF Translatable, History
  <2>5. /\ sent'.system = Briefing(q.wire, dialogue)
        /\ sent'.turns = IF q.wire = "anthropic" THEN Converted(dialogue) ELSE Itemized(dialogue)
    <3>1. History = Chats(dialogue)
      BY DEF History, Chats
    <3>2. /\ _responses_input_items = Itemized(dialogue)
          /\ FoldLeft(AddMessage, <<>>, History) = Converted(dialogue)
      BY <3>1 DEF _responses_input_items, Itemized, Converted
    <3>3. CASE q.wire = "anthropic"
      <4>1. Instructions(Joined) = Briefing(q.wire, dialogue)
        BY <3>1, <3>3 DEF Instructions, Briefing, TellAs, Gather
      <4> QED
        BY <2>1, <3>2, <3>3, <4>1 DEF transform_to_anthropic_messages
    <3>4. CASE q.wire # "anthropic"
      <4>1. Instructions(Formatted) = Briefing(q.wire, dialogue)
        BY <3>1, <3>4 DEF Instructions, Briefing, TellAs, Gather
      <4> QED
        BY <2>1, <3>2, <3>4, <4>1 DEF transform_to_responses_format
    <3> QED
      BY <3>3, <3>4
  <2>6. Dialogue'
    BY <2>2 DEF Dialogue
  <2>7. Translation'
    BY <2>1, <2>2, <2>3, <2>4, <2>5 DEF Translation
  <2> QED
    BY <2>6, <2>7
<1>5. CASE Refuse
  <2>1. PICK q \in Requests : dialogue' = Sendable(q.wire, dialogue)
    BY <1>5 DEF Refuse
  <2>2. phase' = "caller" /\ pending' = pending /\ serial' = serial
    BY <1>5 DEF Refuse, Asks
  <2>3. dialogue' \in Seq(Entries)
    BY <2>1, SendableLaws DEF Dialogue
  <2> QED
    BY <2>2, <2>3 DEF Dialogue, Translation
<1>6. CASE Reply
  <2>1. PICK e \in Entries : /\ dialogue' = Append(dialogue, e) /\ serial' \in Nat
                             /\ e.chat.role = "assistant" /\ pending' = CallIds(e.said)
    BY <1>6, ReplyAdds
  <2>2. phase' = "caller"
    BY <1>6 DEF Reply
  <2>3. pending' \in SUBSET Seq(Nat)
    BY <2>1, CallIdsType
  <2>4. dialogue' \in Seq(Entries)
    BY <2>1 DEF Dialogue
  <2> QED
    BY <2>1, <2>2, <2>3, <2>4 DEF Dialogue, Translation
<1>7. CASE UNCHANGED dialogueVars
  BY <1>7 DEF dialogueVars, Dialogue, Translation
<1> QED
  BY <1>1, <1>2, <1>3, <1>4, <1>5, <1>6, <1>7 DEF DialogueNext

LEMMA DialogueInvariant == DialogueSpec => [](Dialogue /\ Translation)
<1>1. DialogueInit => Dialogue /\ Translation
  <2>1. <<>> \in Seq(Entries) /\ {} \in SUBSET Seq(Nat) /\ 0 \in Nat
    OBVIOUS
  <2> QED
    BY <2>1 DEF DialogueInit, Dialogue, Translation
<1>2. (Dialogue /\ Translation) /\ [DialogueNext]_dialogueVars => (Dialogue /\ Translation)'
  BY DialogueKept
<1> QED
  BY <1>1, <1>2, PTL DEF DialogueSpec

\* A request says what was said in the dialogue, once, in order and nothing
\* else, whatever upstreams it has been through: what Meant and Instructed name
\* is all that is left out, and all the thinking that crosses to another wire
\* (chat_to_anthropic.py:99-114, 160-199, 249-254; chat_completions.py:152-211).
THEOREM SaidAndSent == DialogueSpec => []SaidIsSent
<1>1. Dialogue /\ Translation => SaidIsSent
  <2>1. SUFFICES ASSUME Dialogue, Translation, phase = "model"
                 PROVE  /\ Of(Sayable, Blocks(sent.turns)) = Spoken(request.wire, dialogue)
                        /\ Of({"text"}, sent.system) = Instructed(request.wire, dialogue)
    BY DEF SaidIsSent
  <2>2. Of({"text"}, sent.system) = Instructed(request.wire, dialogue)
    BY <2>1, BriefingInstructed DEF Dialogue, Translation
  <2>3. CASE request.wire = "anthropic"
    <3>1. sent.turns = Converted(dialogue) /\ dialogue \in Seq(Entries)
      BY <2>1, <2>3 DEF Dialogue, Translation
    <3>2. Blocks(Converted(dialogue)) = Spoken("anthropic", dialogue)
      BY <3>1, ConvertedSays
    <3>3. Spoken("anthropic", dialogue) \in Seq(Worded)
      BY <3>1, SpokenLaws
    <3> QED
      BY <2>2, <2>3, <3>1, <3>2, <3>3, WordedSayable
  <2>4. CASE request.wire = "responses"
    <3>1. /\ sent.turns = Itemized(dialogue) /\ dialogue \in Seq(Entries)
          /\ \A i \in DOMAIN dialogue : CanSend("responses", dialogue[i].chat)
      BY <2>1, <2>4 DEF Dialogue, Translation
    <3> QED
      BY <2>2, <2>4, <3>1, ItemizedSays
  <2> QED
    BY <2>1, <2>3, <2>4 DEF Translation
<1> QED
  BY <1>1, DialogueInvariant, PTL

-----------------------------------------------------------------------------
(* How a dialogue grows *)

\* How a dialogue grows, and what is pending then: the dialogues with their
\* pending calls are the least set that is closed under it.
Pairs == Seq(Entries) \X SUBSET Seq(Nat)

Grows(R) ==
    /\ <<<<>>, {}>> \in R
    /\ \A d \in Seq(Entries), p \in SUBSET Seq(Nat), e \in Entries : <<d, p>> \in R =>
          /\ e.chat.role \in {"system", "user"} /\ p = {} => <<Append(d, e), {}>> \in R
          /\ e.chat.role = "assistant" /\ p = {} => <<Append(d, e), CallIds(e.said)>> \in R
          /\ e.chat.role = "tool" /\ Ids(e.said) \subseteq p =>
                <<Append(d, e), p \ Ids(e.said)>> \in R

Grown == {t \in Pairs : \A R \in SUBSET Pairs : Grows(R) => t \in R}

\* What holds of the empty dialogue, and is kept as it grows, holds of all.
LEMMA GrownInduction ==
    ASSUME NEW R \in SUBSET Pairs, Grows(R)
    PROVE  Grown \subseteq R
  BY DEF Grown

\* The dialogues that grow so are closed under it themselves.
LEMMA GrownGrows == Grown \in SUBSET Pairs /\ Grows(Grown)
<1>1. Grown \in SUBSET Pairs
  BY DEF Grown
<1>2. <<<<>>, {}>> \in Grown
  <2>1. <<>> \in Seq(Entries) /\ {} \in SUBSET Seq(Nat)
    OBVIOUS
  <2>2. <<<<>>, {}>> \in Pairs
    BY <2>1 DEF Pairs
  <2> QED
    BY <2>2 DEF Grown, Grows
<1>3. ASSUME NEW d \in Seq(Entries), NEW p \in SUBSET Seq(Nat), NEW e \in Entries, <<d, p>> \in Grown
      PROVE  /\ e.chat.role \in {"system", "user"} /\ p = {} => <<Append(d, e), {}>> \in Grown
             /\ e.chat.role = "assistant" /\ p = {} => <<Append(d, e), CallIds(e.said)>> \in Grown
             /\ e.chat.role = "tool" /\ Ids(e.said) \subseteq p =>
                   <<Append(d, e), p \ Ids(e.said)>> \in Grown
  <2>1. Append(d, e) \in Seq(Entries)
    OBVIOUS
  <2>2. \A R \in SUBSET Pairs : Grows(R) => <<d, p>> \in R
    BY <1>3 DEF Grown
  <2>3. ASSUME e.chat.role \in {"system", "user"}, p = {} PROVE <<Append(d, e), {}>> \in Grown
    <3>1. <<Append(d, e), {}>> \in Pairs
      BY <2>1 DEF Pairs
    <3>2. ASSUME NEW R \in SUBSET Pairs, Grows(R) PROVE <<Append(d, e), {}>> \in R
      BY <2>2, <2>3, <3>2 DEF Grows
    <3> QED
      BY <3>1, <3>2 DEF Grown
  <2>4. ASSUME e.chat.role = "assistant", p = {} PROVE <<Append(d, e), CallIds(e.said)>> \in Grown
    <3>1. <<Append(d, e), CallIds(e.said)>> \in Pairs
      BY <2>1, <2>4, CallIdsType DEF Pairs
    <3>2. ASSUME NEW R \in SUBSET Pairs, Grows(R) PROVE <<Append(d, e), CallIds(e.said)>> \in R
      BY <2>2, <2>4, <3>2 DEF Grows
    <3> QED
      BY <3>1, <3>2 DEF Grown
  <2>5. ASSUME e.chat.role = "tool", Ids(e.said) \subseteq p
        PROVE  <<Append(d, e), p \ Ids(e.said)>> \in Grown
    <3>1. <<Append(d, e), p \ Ids(e.said)>> \in Pairs
      BY <2>1 DEF Pairs
    <3>2. ASSUME NEW R \in SUBSET Pairs, Grows(R) PROVE <<Append(d, e), p \ Ids(e.said)>> \in R
      BY <2>2, <2>5, <3>2 DEF Grows
    <3> QED
      BY <3>1, <3>2 DEF Grown
  <2> QED
    BY <2>3, <2>4, <2>5
<1> QED
  BY <1>1, <1>2, <1>3 DEF Grows

\* Only what the caller says can be refused.
LEMMA OthersCanBeSent ==
    ASSUME NEW w, NEW e \in Entries, e.chat.role # "user"
    PROVE  CanSend(w, e.chat)
<1> DEFINE c == e.chat.content
<1>1. CASE e.chat.role = "system"
  BY <1>1 DEF CanSend
<1>2. CASE e.chat.role # "system"
  <2>1. c \in Seq(Texts \cup Results)
    <3>1. Texts \subseteq Texts \cup Results /\ Results \subseteq Texts \cup Results
      OBVIOUS
    <3>2. c \in Seq(Texts) \/ c \in Seq(Results)
      BY <1>2, EntryIs, JoinedIs, Wider
    <3> HIDE DEF c
    <3> QED
      BY <3>1, <3>2, SeqMonotonic
  <2>2. {b \in Texts \cup Results : b.type \in Unsayable(w)} = {}
    BY DEF Texts, Results, Unsayable
  <2>3. Of(Unsayable(w), c) \in Seq({})
    <3> DEFINE K == Unsayable(w)
               S == Texts \cup Results
    <3> HIDE DEF K, S
    <3>1. \A s \in Seq(S) : Of(K, s) \in Seq({b \in S : b.type \in K})
      BY OfLaws
    <3>2. Of(K, c) \in Seq({b \in S : b.type \in K})
      BY <2>1, <3>1 DEF S
    <3> QED
      BY <2>2, <3>2 DEF S, K
  <2>4. \A s \in Seq({}) : s = <<>>
    OBVIOUS
  <2> QED
    BY <2>3, <2>4 DEF CanSend
<1> QED
  BY <1>1, <1>2

\* A dialogue without what was refused is one that could have grown so.
LEMMA SendableGrown ==
    ASSUME NEW w, NEW t \in Grown
    PROVE  <<Sendable(w, t[1]), t[2]>> \in Grown
<1> DEFINE R == {u \in Pairs : <<Sendable(w, u[1]), u[2]>> \in Grown}
<1>1. <<<<>>, {}>> \in R
  <2>1. <<>> \in Seq(Entries) /\ {} \in SUBSET Seq(Nat)
    OBVIOUS
  <2>2. <<<<>>, {}>> \in Pairs
    BY <2>1 DEF Pairs
  <2>3. <<<<>>, {}>> \in Grown
    BY GrownGrows DEF Grows
  <2> QED
    BY <2>2, <2>3, SendableLaws
<1>2. ASSUME NEW d \in Seq(Entries), NEW p \in SUBSET Seq(Nat), NEW e \in Entries, <<d, p>> \in R
      PROVE  /\ e.chat.role \in {"system", "user"} /\ p = {} => <<Append(d, e), {}>> \in R
             /\ e.chat.role = "assistant" /\ p = {} => <<Append(d, e), CallIds(e.said)>> \in R
             /\ e.chat.role = "tool" /\ Ids(e.said) \subseteq p =>
                   <<Append(d, e), p \ Ids(e.said)>> \in R
  <2> DEFINE s == Sendable(w, d)
  <2>1. s \in Seq(Entries) /\ <<s, p>> \in Grown
    BY <1>2, SendableLaws
  <2>2. Sendable(w, Append(d, e)) = s \o (IF CanSend(w, e.chat) THEN <<e>> ELSE <<>>)
    BY SendableLaws
  <2>3. Append(d, e) \in Seq(Entries)
    OBVIOUS
  <2> HIDE DEF s
  <2>4. s \o <<e>> = Append(s, e) /\ s \o <<>> = s
    BY <2>1, AppendIsConcat, ConcatEmptySeq
  <2>5. CASE CanSend(w, e.chat)
    <3>1. Sendable(w, Append(d, e)) = Append(s, e)
      BY <2>2, <2>4, <2>5
    <3>2. /\ e.chat.role \in {"system", "user"} /\ p = {} => <<Append(s, e), {}>> \in Grown
          /\ e.chat.role = "assistant" /\ p = {} => <<Append(s, e), CallIds(e.said)>> \in Grown
          /\ e.chat.role = "tool" /\ Ids(e.said) \subseteq p =>
                <<Append(s, e), p \ Ids(e.said)>> \in Grown
      BY <2>1, GrownGrows DEF Grows
    <3>3. /\ <<Append(d, e), {}>> \in Pairs
          /\ e.chat.role = "assistant" => <<Append(d, e), CallIds(e.said)>> \in Pairs
          /\ <<Append(d, e), p \ Ids(e.said)>> \in Pairs
      BY <2>3, CallIdsType DEF Pairs
    <3> QED
      BY <3>1, <3>2, <3>3
  <2>6. CASE ~CanSend(w, e.chat)
    <3>1. e.chat.role = "user"
      BY <2>6, OthersCanBeSent
    <3>2. Sendable(w, Append(d, e)) = s
      BY <2>2, <2>4, <2>6
    <3>3. <<Append(d, e), {}>> \in Pairs
      BY <2>3 DEF Pairs
    <3> QED
      BY <2>1, <3>1, <3>2, <3>3
  <2> QED
    BY <2>5, <2>6
<1>3. R \in SUBSET Pairs
  OBVIOUS
<1> HIDE DEF R
<1>4. Grows(R)
  BY <1>1, <1>2 DEF Grows
<1> QED
  BY <1>3, <1>4, GrownInduction DEF R

\* A dialogue of the specification is one of them.
Threaded ==
    /\ <<dialogue, pending>> \in Grown
    /\ phase = "model" => pending = {}

LEMMA ThreadedKept ==
    ASSUME Dialogue, Threaded, [DialogueNext]_dialogueVars
    PROVE  Threaded'
<1>1. /\ dialogue \in Seq(Entries) /\ pending \in SUBSET Seq(Nat)
      /\ <<dialogue, pending>> \in Grown /\ (phase = "model" => pending = {})
  BY DEF Dialogue, Threaded
<1>2. \A e \in Entries :
          /\ e.chat.role \in {"system", "user"} /\ pending = {} => <<Append(dialogue, e), {}>> \in Grown
          /\ e.chat.role = "assistant" /\ pending = {} => <<Append(dialogue, e), CallIds(e.said)>> \in Grown
          /\ e.chat.role = "tool" /\ Ids(e.said) \subseteq pending =>
                <<Append(dialogue, e), pending \ Ids(e.said)>> \in Grown
  BY <1>1, GrownGrows DEF Grows
<1>3. SUFFICES <<dialogue', pending'>> \in Grown /\ (phase' = "model" => pending' = {})
  BY DEF Threaded, Grown, Pairs, Grows
<1>4. CASE Instruct
  <2>1. phase' = "caller" /\ pending' = {} /\ pending = {}
    BY <1>4 DEF Instruct
  <2> QED
    BY <1>2, <1>4, <2>1, InstructAdds
<1>5. CASE Say
  <2>1. phase' = "caller" /\ pending' = {} /\ pending = {}
    BY <1>5 DEF Say
  <2> QED
    BY <1>2, <1>5, <2>1, SayAdds
<1>6. CASE Return
  <2>1. phase' = "caller"
    BY <1>6 DEF Return
  <2> QED
    BY <1>2, <1>6, <2>1, ReturnAdds
<1>7. CASE Ask
  BY <1>1, <1>7 DEF Ask, Asks
<1>8. CASE Refuse
  <2>1. PICK q \in Requests : dialogue' = Sendable(q.wire, dialogue)
    BY <1>8 DEF Refuse
  <2>2. phase' = "caller" /\ pending' = pending
    BY <1>8 DEF Refuse, Asks
  <2>3. <<Sendable(q.wire, <<dialogue, pending>>[1]), <<dialogue, pending>>[2]>> \in Grown
    BY <1>1, SendableGrown
  <2> QED
    BY <2>1, <2>2, <2>3
<1>9. CASE Reply
  <2>1. phase' = "caller" /\ pending = {}
    BY <1>1, <1>9 DEF Reply
  <2> QED
    BY <1>2, <1>9, <2>1, ReplyAdds
<1>10. CASE UNCHANGED dialogueVars
  BY <1>1, <1>10 DEF dialogueVars
<1> QED
  BY <1>4, <1>5, <1>6, <1>7, <1>8, <1>9, <1>10 DEF DialogueNext

LEMMA ThreadedInvariant == DialogueSpec => []Threaded
<1>1. DialogueInit => Threaded
  <2>1. <<<<>>, {}>> \in Grown
    BY GrownGrows DEF Grows
  <2> QED
    BY <2>1 DEF DialogueInit, Threaded
<1>2. Dialogue /\ Threaded /\ [DialogueNext]_dialogueVars => Threaded'
  BY ThreadedKept
<1> QED
  BY <1>1, <1>2, DialogueInvariant, PTL DEF DialogueSpec

-----------------------------------------------------------------------------
(* Calls and their results *)

\* Which calls and results blocks carry.
LEMMA CarriesNone ==
    ASSUME NEW K, NEW S, NEW s \in Seq(S), \A b \in S : b.type \notin K
    PROVE  Ids(Of(K, s)) = {}
<1>2. Of(K, s) \in Seq({b \in S : b.type \in K})
  BY OfType
<1>3. {b \in S : b.type \in K} = {}
  OBVIOUS
<1>4. \A u \in Seq({}) : DOMAIN u = {}
  OBVIOUS
<1>5. DOMAIN Of(K, s) = {}
  BY <1>2, <1>3, <1>4
<1> QED
  BY <1>5 DEF Ids

LEMMA IdsConcat ==
    ASSUME NEW s \in Seq(Every), NEW t \in Seq(Every)
    PROVE  Ids(s \o t) = Ids(s) \cup Ids(t)
<1>1. /\ Len(s) \in Nat /\ Len(t) \in Nat /\ DOMAIN s = 1..Len(s) /\ DOMAIN t = 1..Len(t)
      /\ DOMAIN (s \o t) = 1..(Len(s) + Len(t))
      /\ \A i \in 1..Len(s) : (s \o t)[i] = s[i]
      /\ \A i \in 1..Len(t) : (s \o t)[Len(s) + i] = t[i]
  OBVIOUS
<1>2. ASSUME NEW x PROVE x \in Ids(s \o t) <=> x \in Ids(s) \cup Ids(t)
  <2> DEFINE u == s \o t
             n == Len(s)
             k == Len(t)
  <2>1. /\ n \in Nat /\ k \in Nat /\ DOMAIN s = 1..n /\ DOMAIN t = 1..k /\ DOMAIN u = 1..(n + k)
        /\ \A i \in 1..n : u[i] = s[i]
        /\ \A i \in 1..k : u[n + i] = t[i]
    BY <1>1
  <2> HIDE DEF u, n, k
  <2>2. ASSUME x \in Ids(u) PROVE x \in Ids(s) \cup Ids(t)
    <3>1. PICK i \in 1..(n + k) : x = u[i].id
      BY <2>1, <2>2 DEF Ids
    <3>2. CASE i \in 1..n
      BY <2>1, <3>1, <3>2 DEF Ids
    <3>3. CASE i \notin 1..n
      <4>1. i - n \in 1..k /\ n + (i - n) = i
        BY <2>1, <3>1, <3>3
      <4>2. u[n + (i - n)] = t[i - n]
        BY <2>1, <4>1
      <4> QED
        BY <2>1, <3>1, <4>1, <4>2 DEF Ids
    <3> QED
      BY <3>2, <3>3
  <2>3. ASSUME x \in Ids(s) PROVE x \in Ids(u)
    <3>1. PICK i \in 1..n : x = s[i].id
      BY <2>1, <2>3 DEF Ids
    <3>2. i \in 1..(n + k) /\ u[i] = s[i]
      BY <2>1
    <3> QED
      BY <2>1, <3>1, <3>2 DEF Ids
  <2>4. ASSUME x \in Ids(t) PROVE x \in Ids(u)
    <3>1. PICK i \in 1..k : x = t[i].id
      BY <2>1, <2>4 DEF Ids
    <3>2. n + i \in 1..(n + k) /\ u[n + i] = t[i]
      BY <2>1
    <3> QED
      BY <2>1, <3>1, <3>2 DEF Ids
  <2> QED
    BY <2>2, <2>3, <2>4 DEF u
<1> QED
  BY <1>2

LEMMA CarriedConcat ==
    ASSUME NEW s \in Seq(Every), NEW t \in Seq(Every)
    PROVE  /\ CallIds(s \o t) = CallIds(s) \cup CallIds(t)
           /\ ResultIds(s \o t) = ResultIds(s) \cup ResultIds(t)
<1>1. ASSUME NEW K PROVE Ids(Of(K, s \o t)) = Ids(Of(K, s)) \cup Ids(Of(K, t))
  <2>1. /\ \A u, v \in Seq(Every) : Of(K, u \o v) = Of(K, u) \o Of(K, v)
        /\ \A u \in Seq(Every) : Of(K, u) \in Seq({b \in Every : b.type \in K})
    BY OfType, OfConcat
  <2>2. {b \in Every : b.type \in K} \subseteq Every
    OBVIOUS
  <2>3. Of(K, s) \in Seq({b \in Every : b.type \in K}) /\ Of(K, t) \in Seq({b \in Every : b.type \in K})
    BY <2>1
  <2>4. Of(K, s) \in Seq(Every) /\ Of(K, t) \in Seq(Every)
    BY <2>2, <2>3, SeqMonotonic
  <2>5. Of(K, s \o t) = Of(K, s) \o Of(K, t)
    BY <2>1
  <2> QED
    BY <2>4, <2>5, IdsConcat
<1> QED
  BY <1>1 DEF CallIds, ResultIds

Shown == [type : {"text", "image", "void"}, id : Seq(Nat)]
Thoughts == {b \in Given : b.type \in {"thinking"}}
CallsGiven == {b \in Given : b.type \in CallKinds}

\* What blocks of each kind carry.
LEMMA KindsCarry ==
    /\ \A s \in Seq(Parts) : CallIds(s) = {} /\ ResultIds(s) = {}
    /\ \A s \in Seq(Shown) : CallIds(s) = {} /\ ResultIds(s) = {}
    /\ \A s \in Seq(Texts) : CallIds(s) = {} /\ ResultIds(s) = {}
    /\ \A s \in Seq(Thoughts) : CallIds(s) = {} /\ ResultIds(s) = {}
    /\ \A s \in Seq(Given) : ResultIds(s) = {}
    /\ \A s \in Seq(Results) : CallIds(s) = {} /\ ResultIds(s) = Ids(s)
    /\ \A s \in Seq(CallsGiven) : CallIds(s) = Ids(s) /\ ResultIds(s) = {}
<1>1. CallKinds = {"tool_use", "cut"}
  BY DEF CallKinds
<1>2. ASSUME NEW s \in Seq(Parts) PROVE CallIds(s) = {} /\ ResultIds(s) = {}
  <2>1. \A b \in Parts : b.type \notin CallKinds /\ b.type \notin {"tool_result"}
    BY <1>1 DEF Parts, PartKinds
  <2> QED
    BY <2>1, CarriesNone DEF CallIds, ResultIds
<1>3. ASSUME NEW s \in Seq(Shown) PROVE CallIds(s) = {} /\ ResultIds(s) = {}
  <2>1. \A b \in Shown : b.type \notin CallKinds /\ b.type \notin {"tool_result"}
    BY <1>1 DEF Shown
  <2> QED
    BY <2>1, CarriesNone DEF CallIds, ResultIds
<1>4. ASSUME NEW s \in Seq(Texts) PROVE CallIds(s) = {} /\ ResultIds(s) = {}
  <2>1. \A b \in Texts : b.type \notin CallKinds /\ b.type \notin {"tool_result"}
    BY <1>1 DEF Texts
  <2> QED
    BY <2>1, CarriesNone DEF CallIds, ResultIds
<1>5. ASSUME NEW s \in Seq(Thoughts) PROVE CallIds(s) = {} /\ ResultIds(s) = {}
  <2>1. \A b \in Thoughts : b.type \notin CallKinds /\ b.type \notin {"tool_result"}
    BY <1>1 DEF Thoughts
  <2> QED
    BY <2>1, CarriesNone DEF CallIds, ResultIds
<1>6. ASSUME NEW s \in Seq(Given) PROVE ResultIds(s) = {}
  <2>1. \A b \in Given : b.type \notin {"tool_result"}
    BY DEF Given, BlockKinds, CallKinds
  <2> QED
    BY <2>1, CarriesNone DEF ResultIds
<1>7. ASSUME NEW s \in Seq(Results) PROVE CallIds(s) = {} /\ ResultIds(s) = Ids(s)
  <2>1. \A b \in Results : b.type \notin CallKinds /\ b.type \in {"tool_result"}
    BY <1>1 DEF Results
  <2>2. CallIds(s) = {}
    BY <2>1, CarriesNone DEF CallIds
  <2>3. \A i \in DOMAIN s : s[i] \in Results
    OBVIOUS
  <2>4. \A i \in DOMAIN s : s[i].type \in {"tool_result"}
    BY <2>1, <2>3
  <2>5. Of({"tool_result"}, s) = s
    BY <2>4, OfLaws
  <2> QED
    BY <2>2, <2>5 DEF ResultIds
<1>8. ASSUME NEW s \in Seq(CallsGiven) PROVE CallIds(s) = Ids(s) /\ ResultIds(s) = {}
  <2>1. \A b \in CallsGiven : b.type \in CallKinds /\ b.type \notin {"tool_result"}
    BY <1>1 DEF CallsGiven
  <2>2. ResultIds(s) = {}
    BY <2>1, CarriesNone DEF ResultIds
  <2>3. \A i \in DOMAIN s : s[i] \in CallsGiven
    OBVIOUS
  <2>4. \A i \in DOMAIN s : s[i].type \in CallKinds
    BY <2>1, <2>3
  <2>5. Of(CallKinds, s) = s
    BY <2>4, OfLaws
  <2> QED
    BY <2>2, <2>5 DEF CallIds
<1> QED
  BY <1>2, <1>3, <1>4, <1>5, <1>6, <1>7, <1>8

\* A part is shown as a text, an image or what cannot be sent.
LEMMA PartsShown ==
    ASSUME NEW s \in Seq(Parts)
    PROVE  _content_blocks(s) \in Seq(Shown)
<1> DEFINE M == [p \in Parts |-> Spelled[p]]
<1>1. \A p \in Parts : p \in Every /\ Spelled[p] \in Seq(Shown)
  <2> SUFFICES ASSUME NEW p \in Parts PROVE p \in Every /\ Spelled[p] \in Seq(Shown)
    OBVIOUS
  <2>1. p \in Every
    BY BlocksOfKinds
  <2>2. p.type \in PartKinds /\ p.id \in Seq(Nat) /\ p = [type |-> p.type, id |-> p.id]
    BY DEF Parts
  <2>3. Block("text", p.id) \in Shown
    BY <2>2 DEF Shown, Block
  <2>4. p.type # "empty" /\ p.type # "odd" => p \in Shown
    BY <2>2 DEF Shown, PartKinds
  <2> QED
    BY <2>1, <2>3, <2>4 DEF Spelled
<1>2. M \in [Parts -> Seq(Shown)]
  BY <1>1
<1>3. \A i \in DOMAIN s : s[i] \in Parts
  OBVIOUS
<1>4. [i \in DOMAIN s |-> M[s[i]]] = [i \in DOMAIN s |-> Spelled[s[i]]]
  BY <1>3
<1> HIDE DEF M
<1>5. Each(M, s) \in Seq(Shown)
  BY <1>2, EachType
<1>6. s \in Seq(Every)
  BY Wider
<1> QED
  BY <1>4, <1>5, <1>6, SpelledEach DEF Each

\* What a message carries, once it is translated.
LEMMA MeantCarries ==
    ASSUME NEW e \in Entries
    PROVE  /\ e.chat.role = "user" =>
                  /\ CallIds(Meant("anthropic", e)) = {} /\ ResultIds(Meant("anthropic", e)) = {}
           /\ e.chat.role = "assistant" =>
                  /\ CallIds(Meant("anthropic", e)) = CallIds(e.said)
                  /\ ResultIds(Meant("anthropic", e)) = {}
           /\ e.chat.role = "tool" =>
                  \E b, r \in Results :
                      /\ e.said = <<b>> /\ e.chat.content = <<b>> /\ <<b>> \in Seq(Every)
                      /\ _tool_result_block(e.chat) = r /\ r.id = b.id
                      /\ CallIds(<<b>>) = {} /\ ResultIds(<<b>>) = Ids(e.said)
                      /\ ResultIds(<<r>>) = Ids(e.said) /\ Ids(e.said) = {b.id}
<1>1. ASSUME e.chat.role = "user"
      PROVE  CallIds(Meant("anthropic", e)) = {} /\ ResultIds(Meant("anthropic", e)) = {}
  <2>1. Meant("anthropic", e) = _content_blocks(e.said) /\ e.said \in Seq(Parts)
    BY <1>1, EntryIs DEF Meant
  <2> QED
    BY <2>1, PartsShown, KindsCarry
<1>2. ASSUME e.chat.role = "assistant"
      PROVE  /\ CallIds(Meant("anthropic", e)) = CallIds(e.said)
             /\ ResultIds(Meant("anthropic", e)) = {}
  <2> DEFINE c == Joined(e.said)
             k == Of(CallKinds, e.said)
             h == IF e.whole THEN Of({"thinking"}, e.said) ELSE <<>>
  <2>1. Meant("anthropic", e) = h \o c \o k /\ e.said \in Seq(Given)
    BY <1>2, EntryIs DEF Meant
  <2>2. c \in Seq(Texts) /\ c \in Seq(Every)
    BY <2>1, JoinedIs, Wider
  <2>3. k \in Seq(CallsGiven) /\ k \in Seq(Every)
    <3>1. k \in Seq(CallsGiven)
      BY <2>1, OfType DEF CallsGiven
    <3>2. k \in Seq(Every)
      BY <2>1, CallsAre, Wider
    <3> QED
      BY <3>1, <3>2
  <2>4. h \in Seq(Thoughts) /\ h \in Seq(Every)
    <3>1. Of({"thinking"}, e.said) \in Seq(Thoughts)
      BY <2>1, OfLaws DEF Thoughts
    <3>2. Of({"thinking"}, e.said) \in Seq(Every)
      BY <2>1, CallsAre, Wider
    <3>3. <<>> \in Seq(Thoughts) /\ <<>> \in Seq(Every)
      OBVIOUS
    <3> QED
      BY <3>1, <3>2, <3>3
  <2>5. CallIds(e.said) = Ids(k)
    BY DEF CallIds
  <2> HIDE DEF c, k, h
  <2>6. h \o c \in Seq(Every)
    BY <2>2, <2>4
  <2>7. /\ CallIds(h) = {} /\ ResultIds(h) = {} /\ CallIds(c) = {} /\ ResultIds(c) = {}
        /\ CallIds(k) = Ids(k) /\ ResultIds(k) = {}
    BY <2>2, <2>3, <2>4, KindsCarry
  <2>8. CallIds(h \o c) = {} /\ ResultIds(h \o c) = {}
    BY <2>2, <2>4, <2>7, CarriedConcat
  <2>9. CallIds(h \o c \o k) = {} \cup Ids(k) /\ ResultIds(h \o c \o k) = {}
    BY <2>3, <2>6, <2>7, <2>8, CarriedConcat
  <2> QED
    BY <2>1, <2>5, <2>9
<1>3. ASSUME e.chat.role = "tool"
      PROVE  \E b, r \in Results :
                 /\ e.said = <<b>> /\ e.chat.content = <<b>> /\ <<b>> \in Seq(Every)
                 /\ _tool_result_block(e.chat) = r /\ r.id = b.id
                 /\ CallIds(<<b>>) = {} /\ ResultIds(<<b>>) = Ids(e.said)
                 /\ ResultIds(<<r>>) = Ids(e.said) /\ Ids(e.said) = {b.id}
  <2>1. PICK b \in Results : e.said = <<b>> /\ _tool_result_block(e.chat) = Trimmed(b)
    BY <1>3, EntryIs
  <2> DEFINE r == Trimmed(b)
  <2>2. e.chat.content = <<b>>
    BY <1>3, <2>1, EntryIs
  <2>3. r \in Results /\ r.id = b.id
    BY TrimmedIs
  <2> HIDE DEF r
  <2>4. <<b>> \in Seq(Results) /\ <<r>> \in Seq(Results)
    BY <2>3
  <2>5. <<b>> \in Seq(Every)
    BY <2>4, Wider
  <2>6. CallIds(<<b>>) = {} /\ ResultIds(<<b>>) = Ids(<<b>>) /\ ResultIds(<<r>>) = Ids(<<r>>)
    BY <2>4, KindsCarry
  <2>7. Ids(<<b>>) = {b.id} /\ Ids(<<r>>) = {r.id}
    BY DEF Ids
  <2> QED
    BY <2>1, <2>2, <2>3, <2>5, <2>6, <2>7 DEF r
<1> QED
  BY <1>1, <1>2, <1>3

\* A turn of results has no call.
LEMMA ResultsCarryNoCall ==
    ASSUME NEW t \in Turns, IsResults(t)
    PROVE  CallIds(t.blocks) = {}
<1> DEFINE bs == t.blocks
           U == {b \in Every : b.type = "tool_result"}
<1>1. bs \in Seq(Every)
  BY DEF Turns
<1>2. \A i \in DOMAIN bs : bs[i] \in U
  BY <1>1 DEF IsResults
<1> HIDE DEF bs, U
<1>3. Len(bs) \in Nat /\ DOMAIN bs = 1..Len(bs) /\ bs \in [1..Len(bs) -> Every]
  BY <1>1
<1>4. bs \in [1..Len(bs) -> U]
  BY <1>2, <1>3
<1>5. bs \in Seq(U)
  BY <1>3, <1>4
<1>6. \A b \in U : b.type \notin CallKinds
  BY DEF U, CallKinds
<1> QED
  BY <1>5, <1>6, CarriesNone DEF CallIds, bs

\* The turns of a Messages request while calls are pending: all that belong
\* to those of the last turn but one are on the last one, or pending.
Left(ts, i, p) == IF i + 1 = Len(ts) THEN p ELSE {}

Paired(ts, i, p) ==
    /\ ts[i].blocks # <<>>
    /\ i < Len(ts) /\ CallIds(ts[i].blocks) # {} =>
          /\ ts[i + 1].role = "user"
          /\ IsResults(ts[i + 1])
          /\ ResultIds(ts[i + 1].blocks) \cup Left(ts, i, p) = CallIds(ts[i].blocks)
    /\ ResultIds(ts[i].blocks) # {} => i > 1 /\ CallIds(ts[i - 1].blocks) # {}

Awaits(ts, p) ==
    /\ p = {} /\ Len(ts) > 0 => CallIds(ts[Len(ts)].blocks) = {}
    /\ p # {} =>
          /\ Len(ts) > 0
          /\ \/ CallIds(ts[Len(ts)].blocks) = p
             \/ IsResults(ts[Len(ts)]) /\ Len(ts) > 1 /\ CallIds(ts[Len(ts) - 1].blocks) # {}

Together(ts, p) ==
    /\ ts \in Seq(Turns)
    /\ \A i \in 1..Len(ts) : Paired(ts, i, p)
    /\ Awaits(ts, p)

\* A turn of the user's own or of the model's: nothing was pending.
LEMMA NewTurn ==
    ASSUME NEW ts, Together(ts, {}), NEW t \in Turns, t.blocks # <<>>, ResultIds(t.blocks) = {}
    PROVE  Together(Append(ts, t), CallIds(t.blocks))
<1> DEFINE x == Append(ts, t)
           n == Len(ts)
           q == CallIds(t.blocks)
<1>1. ts \in Seq(Turns) /\ (\A i \in 1..n : Paired(ts, i, {})) /\ Awaits(ts, {})
  BY DEF Together
<1>2. /\ x \in Seq(Turns) /\ n \in Nat /\ Len(x) = n + 1 /\ x[n + 1] = t
      /\ \A i \in 1..n : x[i] = ts[i]
  BY <1>1, Appended
<1>3. n > 0 => CallIds(ts[n].blocks) = {}
  BY <1>1 DEF Awaits
<1> HIDE DEF x
<1>4. ASSUME NEW i \in 1..(n + 1) PROVE Paired(x, i, q)
  <2>1. CASE i = n + 1
    <3>1. x[i] = t /\ ~(i < Len(x))
      BY <1>2, <2>1
    <3> QED
      BY <3>1 DEF Paired
  <2>2. CASE i \in 1..n
    <3>1. x[i] = ts[i] /\ Paired(ts, i, {}) /\ i \in Nat
      BY <1>1, <1>2, <2>2
    <3>2. i > 1 => x[i - 1] = ts[i - 1]
      BY <1>2, <2>2
    <3>3. CASE i = n
      <4>1. CallIds(x[i].blocks) = {}
        BY <1>2, <1>3, <3>1, <3>3
      <4> QED
        BY <3>1, <3>2, <4>1 DEF Paired
    <3>4. CASE i # n
      <4>1. i < n /\ i < Len(x) /\ x[i + 1] = ts[i + 1] /\ Left(x, i, q) = {} /\ Left(ts, i, {}) = {}
        BY <1>2, <2>2, <3>4 DEF Left
      <4> QED
        BY <3>1, <3>2, <4>1 DEF Paired
    <3> QED
      BY <3>3, <3>4
  <2> QED
    BY <1>2, <2>1, <2>2
<1>5. Awaits(x, q)
  BY <1>2 DEF Awaits
<1> QED
  BY <1>2, <1>4, <1>5 DEF Together, x

\* The first result of a turn of calls.
LEMMA FirstResult ==
    ASSUME NEW ts, NEW p, p # {}, Together(ts, p), CallIds(ts[Len(ts)].blocks) = p,
           NEW t \in Turns, t.blocks # <<>>, t.role = "user", IsResults(t),
           ResultIds(t.blocks) # {}, ResultIds(t.blocks) \subseteq p
    PROVE  Together(Append(ts, t), p \ ResultIds(t.blocks))
<1> DEFINE x == Append(ts, t)
           n == Len(ts)
           q == p \ ResultIds(t.blocks)
<1>1. ts \in Seq(Turns) /\ (\A i \in 1..n : Paired(ts, i, p)) /\ Awaits(ts, p)
  BY DEF Together
<1>2. /\ x \in Seq(Turns) /\ n \in Nat /\ Len(x) = n + 1 /\ x[n + 1] = t
      /\ \A i \in 1..n : x[i] = ts[i]
  BY <1>1, Appended
<1>3. n > 0 /\ n \in 1..n /\ CallIds(ts[n].blocks) = p /\ ts[n] \in Turns
  BY <1>1, <1>2 DEF Awaits
<1>4. ~IsResults(ts[n])
  BY <1>3, ResultsCarryNoCall
<1>5. CallIds(t.blocks) = {}
  BY ResultsCarryNoCall
<1> HIDE DEF x
<1>6. ASSUME NEW i \in 1..(n + 1) PROVE Paired(x, i, q)
  <2>1. CASE i = n + 1
    <3>1. x[i] = t /\ ~(i < Len(x)) /\ i > 1 /\ x[i - 1] = ts[n]
      BY <1>2, <1>3, <2>1
    <3> QED
      BY <1>3, <3>1 DEF Paired
  <2>2. CASE i \in 1..n
    <3>1. x[i] = ts[i] /\ Paired(ts, i, p) /\ i \in Nat
      BY <1>1, <1>2, <2>2
    <3>2. i > 1 => x[i - 1] = ts[i - 1]
      BY <1>2, <2>2
    <3>3. CASE i = n
      <4>1. i < Len(x) /\ x[i + 1] = t /\ CallIds(x[i].blocks) = p /\ Left(x, i, q) = q
        BY <1>2, <1>3, <3>1, <3>3 DEF Left
      <4>2. ResultIds(t.blocks) \cup q = p
        OBVIOUS
      <4> HIDE DEF q
      <4> QED
        BY <3>1, <3>2, <4>1, <4>2 DEF Paired
    <3>4. CASE i # n
      <4>1. i < n /\ i < Len(x) /\ x[i + 1] = ts[i + 1] /\ Left(x, i, q) = {}
        BY <1>2, <2>2, <3>4 DEF Left
      <4>2. CASE i + 1 = n
        <5>1. CallIds(ts[i].blocks) = {}
          BY <1>4, <3>1, <4>1, <4>2 DEF Paired
        <5> QED
          BY <3>1, <3>2, <5>1 DEF Paired
      <4>3. CASE i + 1 # n
        <5>1. Left(ts, i, p) = {}
          BY <4>3 DEF Left
        <5> QED
          BY <3>1, <3>2, <4>1, <5>1 DEF Paired
      <4> QED
        BY <4>2, <4>3
    <3> QED
      BY <3>3, <3>4
  <2> QED
    BY <1>2, <2>1, <2>2
<1>7. Awaits(x, q)
  <2>1. Len(x) > 1 /\ x[Len(x)] = t /\ x[Len(x) - 1] = ts[n]
    BY <1>2, <1>3
  <2>2. CallIds(x[Len(x)].blocks) = {}
    BY <1>5, <2>1
  <2> QED
    BY <1>3, <2>1, <2>2 DEF Awaits
<1> QED
  BY <1>2, <1>6, <1>7 DEF Together, x

\* One more result of the calls of a turn.
LEMMA NextResult ==
    ASSUME NEW us \in Seq(Turns), NEW t \in Turns, NEW v \in Turns,
           NEW p, p # {}, Together(Append(us, t), p),
           IsResults(t), v.role = t.role, v.blocks # <<>>, IsResults(v),
           NEW r, r \subseteq p, ResultIds(v.blocks) = ResultIds(t.blocks) \cup r
    PROVE  Together(Append(us, v), p \ r)
<1> DEFINE x == Append(us, t)
           y == Append(us, v)
           n == Len(us)
           q == p \ r
<1>1. /\ x \in Seq(Turns) /\ n \in Nat /\ Len(x) = n + 1 /\ x[n + 1] = t
      /\ \A i \in 1..n : x[i] = us[i]
  BY Appended
<1>2. /\ y \in Seq(Turns) /\ Len(y) = n + 1 /\ y[n + 1] = v
      /\ \A i \in 1..n : y[i] = us[i]
  BY Appended
<1>3. (\A i \in 1..Len(x) : Paired(x, i, p)) /\ Awaits(x, p)
  BY DEF Together
<1> HIDE DEF x, y
<1>4. CallIds(t.blocks) = {} /\ CallIds(v.blocks) = {}
  BY ResultsCarryNoCall
<1>5. n + 1 > 1 /\ CallIds(x[n].blocks) # {} /\ n \in 1..n
  BY <1>1, <1>3, <1>4 DEF Awaits
<1>6. ASSUME NEW i \in 1..(n + 1) PROVE Paired(y, i, q)
  <2>1. CASE i = n + 1
    <3>1. y[i] = v /\ ~(i < Len(y)) /\ i > 1 /\ y[i - 1] = x[n]
      BY <1>1, <1>2, <1>5, <2>1
    <3> QED
      BY <1>5, <3>1 DEF Paired
  <2>2. CASE i \in 1..n
    <3>1. y[i] = x[i] /\ Paired(x, i, p) /\ i \in Nat /\ i < Len(x) /\ i < Len(y)
      BY <1>1, <1>2, <1>3, <2>2
    <3>2. i > 1 => y[i - 1] = x[i - 1]
      BY <1>1, <1>2, <2>2
    <3>3. CASE i = n
      <4>1. x[i + 1] = t /\ y[i + 1] = v /\ Left(x, i, p) = p /\ Left(y, i, q) = q
        BY <1>1, <1>2, <3>3 DEF Left
      <4>2. ResultIds(v.blocks) \cup q = ResultIds(t.blocks) \cup p
        OBVIOUS
      <4> HIDE DEF q
      <4> QED
        BY <3>1, <3>2, <4>1, <4>2 DEF Paired
    <3>4. CASE i # n
      <4>1. y[i + 1] = x[i + 1] /\ Left(x, i, p) = {} /\ Left(y, i, q) = {}
        BY <1>1, <1>2, <2>2, <3>4 DEF Left
      <4> QED
        BY <3>1, <3>2, <4>1 DEF Paired
    <3> QED
      BY <3>3, <3>4
  <2> QED
    BY <1>1, <2>1, <2>2
<1>7. Awaits(y, q)
  <2>1. Len(y) > 1 /\ y[Len(y)] = v /\ y[Len(y) - 1] = x[n]
    BY <1>1, <1>2, <1>5
  <2>2. CallIds(y[Len(y)].blocks) = {}
    BY <1>4, <2>1
  <2> QED
    BY <1>5, <2>1, <2>2 DEF Awaits
<1> QED
  BY <1>2, <1>6, <1>7 DEF Together, y

LEMMA OthersSaid ==
    ASSUME NEW ts, NEW e \in Entries, e.chat.role \in {"user", "assistant"}
    PROVE  AddMessage(ts, e.chat) = Said(ts, e.chat.role, Meant("anthropic", e))
  BY MeantIs DEF AddMessage

LEMMA OneResult ==
    ASSUME NEW b \in Results, NEW r \in Roles
    PROVE  [role |-> r, blocks |-> <<b>>] \in Turns
<1>1. <<b>> \in Seq(Results)
  OBVIOUS
<1>2. <<b>> \in Seq(Every)
  BY <1>1, Wider
<1> QED
  BY <1>2 DEF Turns

\* A turn of results with another one.
LEMMA MoreResults ==
    ASSUME NEW t \in Turns, IsResults(t), NEW b \in Results
    PROVE  LET v == [t EXCEPT !.blocks = Append(@, b)] IN
           /\ v \in Turns /\ v.role = t.role /\ v.blocks # <<>> /\ IsResults(v)
           /\ ResultIds(v.blocks) = ResultIds(t.blocks) \cup {b.id}
<1> DEFINE v == [t EXCEPT !.blocks = Append(@, b)]
           bs == t.blocks
<1>1. /\ bs \in Seq(Every) /\ t.role \in Roles /\ t = [role |-> t.role, blocks |-> bs]
  BY DEF Turns
<1>2. <<b>> \in Seq(Results)
  OBVIOUS
<1>3. <<b>> \in Seq(Every) /\ b \in Every /\ b.type = "tool_result"
  BY <1>2, Wider, BlocksOfKinds DEF Results
<1>4. v.role = t.role /\ v.blocks = Append(bs, b)
  BY <1>1
<1>5. v \in Turns
  <2>1. Append(bs, b) \in Seq(Every)
    BY <1>1, <1>3
  <2> HIDE DEF bs
  <2> QED
    BY <1>1, <2>1 DEF Turns, bs
<1>6. t.role = "user" /\ \A i \in DOMAIN bs : bs[i].type = "tool_result"
  BY DEF IsResults
<1> HIDE DEF v, bs
<1>7. bs \o <<b>> = Append(bs, b)
  BY <1>1, <1>3, AppendIsConcat
<1>8. /\ Append(bs, b) \in Seq(Every) /\ Append(bs, b) # <<>>
      /\ \A i \in DOMAIN Append(bs, b) : Append(bs, b)[i].type = "tool_result"
  <2>1. /\ Append(bs, b) \in Seq(Every) /\ Append(bs, b) # <<>> /\ Len(bs) \in Nat
        /\ DOMAIN Append(bs, b) = 1..(Len(bs) + 1) /\ DOMAIN bs = 1..Len(bs)
        /\ Append(bs, b)[Len(bs) + 1] = b
        /\ \A i \in 1..Len(bs) : Append(bs, b)[i] = bs[i]
    BY <1>1, <1>3, Appended
  <2>2. ASSUME NEW i \in 1..(Len(bs) + 1) PROVE Append(bs, b)[i].type = "tool_result"
    <3>1. CASE i = Len(bs) + 1
      BY <1>3, <2>1, <3>1
    <3>2. CASE i # Len(bs) + 1
      <4>1. i \in 1..Len(bs)
        BY <2>1, <3>2
      <4> QED
        BY <1>6, <2>1, <4>1
    <3> QED
      BY <3>1, <3>2
  <2> QED
    BY <2>1, <2>2
<1>10. IsResults(v)
  BY <1>4, <1>6, <1>8 DEF IsResults
<1>11. ResultIds(bs \o <<b>>) = ResultIds(bs) \cup ResultIds(<<b>>)
  BY <1>1, <1>3, CarriedConcat
<1>12. ResultIds(<<b>>) = {b.id}
  <2>1. ResultIds(<<b>>) = Ids(<<b>>)
    BY <1>2, KindsCarry
  <2> QED
    BY <2>1 DEF Ids
<1>13. v.blocks # <<>>
  BY <1>4, <1>8
<1> QED
  BY <1>4, <1>5, <1>7, <1>10, <1>11, <1>12, <1>13 DEF v, bs

\* Each kind of message keeps the results together.
LEMMA TurnsTogether ==
    ASSUME NEW ts, NEW p, NEW e \in Entries, Together(ts, p)
    PROVE  /\ e.chat.role = "system" => Together(AddMessage(ts, e.chat), p)
           /\ e.chat.role = "user" /\ p = {} => Together(AddMessage(ts, e.chat), {})
           /\ e.chat.role = "assistant" /\ p = {} =>
                 Together(AddMessage(ts, e.chat), CallIds(e.said))
           /\ e.chat.role = "tool" /\ Ids(e.said) \subseteq p =>
                 Together(AddMessage(ts, e.chat), p \ Ids(e.said))
<1>1. ASSUME e.chat.role = "system" PROVE AddMessage(ts, e.chat) = ts
  BY <1>1 DEF AddMessage
<1>2. ASSUME e.chat.role \in {"user", "assistant"}, p = {}
      PROVE  Together(AddMessage(ts, e.chat), CallIds(Meant("anthropic", e)))
  <2> DEFINE m == Meant("anthropic", e)
             t == [role |-> e.chat.role, blocks |-> m]
  <2>1. AddMessage(ts, e.chat) = Said(ts, e.chat.role, m)
    BY <1>2, OthersSaid
  <2>2. m \in Seq(Every) /\ ResultIds(m) = {}
    BY <1>2, MeantIs, MeantCarries, Wider
  <2> HIDE DEF m
  <2>3. CASE m = <<>>
    <3>1. AddMessage(ts, e.chat) = ts
      BY <2>1, <2>3 DEF Said
    <3>2. <<>> \in Seq(Texts)
      OBVIOUS
    <3>3. CallIds(m) = {}
      BY <2>3, <3>2, KindsCarry
    <3> QED
      BY <1>2, <3>1, <3>3 DEF m
  <2>4. CASE m # <<>>
    <3>1. AddMessage(ts, e.chat) = Append(ts, t)
      BY <2>1, <2>4 DEF Said
    <3>2. t \in Turns /\ t.blocks = m
      BY <1>2, <2>2 DEF Turns, Roles
    <3> HIDE DEF t
    <3>3. Together(Append(ts, t), CallIds(t.blocks))
      BY <1>2, <2>2, <2>4, <3>2, NewTurn
    <3> QED
      BY <3>1, <3>2, <3>3 DEF m
  <2> QED
    BY <2>3, <2>4
<1>3. ASSUME e.chat.role = "tool", Ids(e.said) \subseteq p
      PROVE  Together(AddMessage(ts, e.chat), p \ Ids(e.said))
  <2>1. PICK b \in Results, r \in Results :
            /\ e.said = <<b>> /\ Ids(e.said) = {r.id}
            /\ _tool_result_block(e.chat) = r /\ ResultIds(<<r>>) = {r.id}
    BY <1>3, MeantCarries
  <2>2. p # {} /\ {r.id} \subseteq p /\ p \ Ids(e.said) = p \ {r.id}
    BY <1>3, <2>1
  <2>3. /\ ts \in Seq(Turns) /\ Len(ts) \in Nat /\ Len(ts) > 0
        /\ \/ CallIds(ts[Len(ts)].blocks) = p
           \/ IsResults(ts[Len(ts)]) /\ Len(ts) > 1 /\ CallIds(ts[Len(ts) - 1].blocks) # {}
    BY <2>2 DEF Together, Awaits
  <2>4. AddMessage(ts, e.chat) = AddResult(ts, e.chat)
    BY <1>3 DEF AddMessage
  <2>5. ts # <<>> /\ Last(ts) = ts[Len(ts)] /\ ts[Len(ts)] \in Turns
    BY <2>3 DEF Last
  <2>6. CASE IsResults(ts[Len(ts)])
    <3>1. PICK us \in Seq(Turns), t \in Turns : ts = Append(us, t) /\ Front(ts) = us /\ Last(ts) = t
      BY <2>3, <2>5, FrontLast
    <3> DEFINE v == [t EXCEPT !.blocks = Append(@, r)]
    <3>2. AddMessage(ts, e.chat) = Append(us, v)
      BY <2>1, <2>4, <2>5, <2>6, <3>1 DEF AddResult
    <3>3. IsResults(t)
      BY <2>5, <2>6, <3>1
    <3>4. /\ v \in Turns /\ v.role = t.role /\ v.blocks # <<>> /\ IsResults(v)
          /\ ResultIds(v.blocks) = ResultIds(t.blocks) \cup {r.id}
      BY <3>3, MoreResults
    <3>5. Together(Append(us, t), p)
      BY <3>1
    <3> HIDE DEF v
    <3>6. Together(Append(us, v), p \ {r.id})
      BY <2>2, <3>3, <3>4, <3>5, NextResult
    <3> QED
      BY <2>2, <3>2, <3>6
  <2>7. CASE ~IsResults(ts[Len(ts)])
    <3> DEFINE t == [role |-> "user", blocks |-> <<r>>]
    <3>1. AddMessage(ts, e.chat) = Append(ts, t)
      <4>1. AddResult(ts, e.chat) = Said(ts, "user", <<r>>)
        BY <2>1, <2>5, <2>7 DEF AddResult
      <4> QED
        BY <2>4, <4>1 DEF Said
    <3>2. t \in Turns /\ t.blocks # <<>> /\ t.role = "user" /\ t.blocks = <<r>>
      BY OneResult DEF Roles
    <3>3. IsResults(t)
      <4>1. \A i \in DOMAIN <<r>> : <<r>>[i] = r
        OBVIOUS
      <4>2. r.type = "tool_result"
        BY DEF Results
      <4> QED
        BY <4>1, <4>2 DEF IsResults
    <3>4. ResultIds(t.blocks) = {r.id}
      BY <2>1
    <3> HIDE DEF t
    <3>5. CallIds(ts[Len(ts)].blocks) = p
      BY <2>3, <2>7
    <3>6. Together(Append(ts, t), p \ ResultIds(t.blocks))
      BY <2>2, <3>2, <3>3, <3>4, <3>5, FirstResult
    <3> QED
      BY <2>2, <3>1, <3>4, <3>6
  <2> QED
    BY <2>6, <2>7
<1> QED
  BY <1>1, <1>2, <1>3, MeantCarries

\* So they are in the turns of every dialogue.
LEMMA ConvertedTogether ==
    ASSUME NEW t \in Grown
    PROVE  Together(Converted(t[1]), t[2])
<1> DEFINE R == {u \in Pairs : Together(Converted(u[1]), u[2])}
<1>1. <<<<>>, {}>> \in R
  <2>1. <<>> \in Seq(Entries) /\ {} \in SUBSET Seq(Nat) /\ <<>> \in Seq(Turns) /\ Len(<<>>) = 0
    OBVIOUS
  <2>2. Together(<<>>, {})
    BY <2>1 DEF Together, Awaits
  <2>3. <<<<>>, {}>> \in Pairs
    BY <2>1 DEF Pairs
  <2> QED
    BY <2>2, <2>3, ConvertedLaws
<1>2. ASSUME NEW d \in Seq(Entries), NEW p \in SUBSET Seq(Nat), NEW e \in Entries, <<d, p>> \in R
      PROVE  /\ e.chat.role \in {"system", "user"} /\ p = {} => <<Append(d, e), {}>> \in R
             /\ e.chat.role = "assistant" /\ p = {} => <<Append(d, e), CallIds(e.said)>> \in R
             /\ e.chat.role = "tool" /\ Ids(e.said) \subseteq p =>
                   <<Append(d, e), p \ Ids(e.said)>> \in R
  <2>1. Together(Converted(d), p)
    BY <1>2
  <2>2. Append(d, e) \in Seq(Entries)
    OBVIOUS
  <2>3. Converted(Append(d, e)) = AddMessage(Converted(d), e.chat)
    BY ConvertedLaws
  <2>4. /\ e.chat.role = "system" => Together(Converted(Append(d, e)), p)
        /\ e.chat.role = "user" /\ p = {} => Together(Converted(Append(d, e)), {})
        /\ e.chat.role = "assistant" /\ p = {} => Together(Converted(Append(d, e)), CallIds(e.said))
        /\ e.chat.role = "tool" /\ Ids(e.said) \subseteq p =>
              Together(Converted(Append(d, e)), p \ Ids(e.said))
    BY <2>1, <2>3, TurnsTogether
  <2>5. /\ <<Append(d, e), {}>> \in Pairs
        /\ e.chat.role = "assistant" => <<Append(d, e), CallIds(e.said)>> \in Pairs
        /\ <<Append(d, e), p \ Ids(e.said)>> \in Pairs
    BY <2>2, CallIdsType DEF Pairs
  <2> QED
    BY <2>4, <2>5
<1>3. R \in SUBSET Pairs
  OBVIOUS
<1> HIDE DEF R
<1>4. Grows(R)
  BY <1>1, <1>2 DEF Grows
<1> QED
  BY <1>3, <1>4, GrownInduction DEF R

\* The items of a Responses request while calls are pending: a call is, or
\* its result comes later.
Answered(ts, p) ==
    /\ ts \in Seq(Turns)
    /\ \A i \in 1..Len(ts) :
          /\ \A id \in CallIds(ts[i].blocks) :
                id \in p \/ \E j \in (i + 1)..Len(ts) : id \in ResultIds(ts[j].blocks)
          /\ Len(ts[i].blocks) > 1 => CallIds(ts[i].blocks) = {}

\* More items, which answer what is no longer pending.
LEMMA MoreItems ==
    ASSUME NEW ts, NEW p, Answered(ts, p), NEW us \in Seq(Turns), NEW q,
           \A id \in p : id \in q \/ \E j \in 1..Len(us) : id \in ResultIds(us[j].blocks),
           \A j \in 1..Len(us) : /\ CallIds(us[j].blocks) \subseteq q
                                 /\ Len(us[j].blocks) > 1 => CallIds(us[j].blocks) = {}
    PROVE  Answered(ts \o us, q)
<1> DEFINE x == ts \o us
           n == Len(ts)
           k == Len(us)
<1>1. ts \in Seq(Turns)
  BY DEF Answered
<1>2. /\ x \in Seq(Turns) /\ n \in Nat /\ k \in Nat /\ Len(x) = n + k
      /\ \A i \in 1..n : x[i] = ts[i]
      /\ \A j \in 1..k : x[n + j] = us[j]
  BY <1>1
<1>3. \A i \in 1..n :
          /\ \A id \in CallIds(ts[i].blocks) :
                id \in p \/ \E j \in (i + 1)..n : id \in ResultIds(ts[j].blocks)
          /\ Len(ts[i].blocks) > 1 => CallIds(ts[i].blocks) = {}
  BY DEF Answered
<1> HIDE DEF x
<1>4. ASSUME NEW i \in 1..(n + k)
      PROVE  /\ \A id \in CallIds(x[i].blocks) :
                   id \in q \/ \E j \in (i + 1)..Len(x) : id \in ResultIds(x[j].blocks)
             /\ Len(x[i].blocks) > 1 => CallIds(x[i].blocks) = {}
  <2>1. CASE i \in 1..n
    <3>1. x[i] = ts[i]
      BY <1>2, <2>1
    <3>2. ASSUME NEW id \in CallIds(ts[i].blocks)
          PROVE  id \in q \/ \E j \in (i + 1)..Len(x) : id \in ResultIds(x[j].blocks)
      <4>1. id \in p \/ \E j \in (i + 1)..n : id \in ResultIds(ts[j].blocks)
        BY <1>3, <2>1
      <4>2. CASE id \in p
        <5>1. CASE id \in q
          BY <5>1
        <5>2. CASE id \notin q
          <6>1. PICK j \in 1..k : id \in ResultIds(us[j].blocks)
            BY <4>2, <5>2
          <6>2. n + j \in (i + 1)..Len(x) /\ x[n + j] = us[j]
            BY <1>2, <2>1
          <6> QED
            BY <6>1, <6>2
        <5> QED
          BY <5>1, <5>2
      <4>3. CASE \E j \in (i + 1)..n : id \in ResultIds(ts[j].blocks)
        <5>1. PICK j \in (i + 1)..n : id \in ResultIds(ts[j].blocks)
          BY <4>3
        <5>2. j \in (i + 1)..Len(x) /\ x[j] = ts[j]
          BY <1>2, <2>1
        <5> QED
          BY <5>1, <5>2
      <4> QED
        BY <4>1, <4>2, <4>3
    <3> QED
      BY <1>3, <2>1, <3>1, <3>2
  <2>2. CASE i \notin 1..n
    <3>1. i - n \in 1..k /\ n + (i - n) = i
      BY <1>2, <2>2
    <3>2. x[i] = us[i - n]
      <4>1. x[n + (i - n)] = us[i - n]
        BY <1>2, <3>1
      <4> QED
        BY <3>1, <4>1
    <3> QED
      BY <3>1, <3>2
  <2> QED
    BY <2>1, <2>2
<1> QED
  BY <1>2, <1>4 DEF Answered, x

\* What the items of a message carry.
LEMMA UserItems ==
    ASSUME NEW e \in Entries, e.chat.role = "user"
    PROVE  LET us == InputItems(e.chat) IN
           us \in Seq(Turns) /\ \A j \in 1..Len(us) : CallIds(us[j].blocks) = {}
<1>1. /\ e.said \in Seq(Parts) /\ e.chat.content = e.said /\ e.chat.tool_calls = <<>>
      /\ e.chat.reasoning_content = <<>>
  BY EntryIs
<1>2. InputItems(e.chat) = <<[role |-> "user", blocks |-> e.said]>>
  <2>1. e.chat.reasoning_content \o e.chat.content = e.said
    BY <1>1, ConcatEmptySeq
  <2> QED
    BY <1>1, <2>1 DEF InputItems
<1>3. CallIds(e.said) = {}
  BY <1>1, KindsCarry
<1>4. InputItems(e.chat) \in Seq(Turns)
  BY InputItemsSay
<1> QED
  BY <1>2, <1>3, <1>4

LEMMA ToolItems ==
    ASSUME NEW e \in Entries, e.chat.role = "tool"
    PROVE  LET us == InputItems(e.chat) IN
           /\ us \in Seq(Turns) /\ Len(us) = 1
           /\ CallIds(us[1].blocks) = {} /\ ResultIds(us[1].blocks) = Ids(e.said)
<1>1. PICK b \in Results : /\ e.said = <<b>> /\ e.chat.content = <<b>>
                           /\ CallIds(<<b>>) = {} /\ ResultIds(<<b>>) = Ids(e.said)
  BY MeantCarries
<1>2. e.chat.tool_calls = <<>>
  BY EntryIs
<1>3. InputItems(e.chat) = Singly(e.chat.role, e.chat.content)
  BY <1>2 DEF InputItems, Singly
<1>4. InputItems(e.chat) = Singly("tool", <<b>>)
  BY <1>1, <1>3
<1>5. Len(Singly("tool", <<b>>)) = 1 /\ Singly("tool", <<b>>)[1].blocks = <<b>>
  BY DEF Singly
<1>6. InputItems(e.chat) \in Seq(Turns)
  BY InputItemsSay
<1> QED
  BY <1>1, <1>4, <1>5, <1>6

LEMMA AnswerItems ==
    ASSUME NEW e \in Entries, e.chat.role = "assistant"
    PROVE  LET us == InputItems(e.chat) IN
           /\ us \in Seq(Turns)
           /\ \A j \in 1..Len(us) : /\ CallIds(us[j].blocks) \subseteq CallIds(e.said)
                                    /\ Len(us[j].blocks) > 1 => CallIds(us[j].blocks) = {}
<1> DEFINE c == Joined(e.said)
           k == Of(CallKinds, e.said)
           h == Of({"thinking"}, e.said)
           us == InputItems(e.chat)
<1>1. /\ e.said \in Seq(Given) /\ e.said \in Seq(Every)
      /\ e.chat.content = c /\ e.chat.tool_calls = k /\ e.chat.reasoning_content = h
  BY EntryIs, Wider
<1>2. us \in Seq(Turns)
  BY InputItemsSay
<1>3. /\ c \in Seq(Texts) /\ c \in Seq(Every) /\ k \in Seq(CallsGiven) /\ k \in Seq(Every)
      /\ h \in Seq(Thoughts) /\ h \in Seq(Every)
  <2>1. k \in Seq(CallsGiven)
    BY <1>1, OfType DEF CallsGiven
  <2>2. k \in Seq(Every) /\ h \in Seq(Every)
    BY <1>1, CallsAre, Wider
  <2>3. h \in Seq(Thoughts)
    BY <1>1, OfType DEF Thoughts
  <2> QED
    BY <1>1, <2>1, <2>2, <2>3, JoinedIs, Wider
<1>4. CallIds(e.said) = Ids(k)
  BY DEF CallIds
<1> HIDE DEF c, k, h
<1>5. CallIds(c) = {} /\ CallIds(h \o c) = {}
  <2>1. CallIds(c) = {} /\ CallIds(h) = {}
    BY <1>3, KindsCarry
  <2> QED
    BY <1>3, <2>1, CarriedConcat
<1> DEFINE Ok(t) == /\ CallIds(t.blocks) \subseteq Ids(k)
                    /\ Len(t.blocks) > 1 => CallIds(t.blocks) = {}
<1>6. CASE k = <<>>
  <2> DEFINE bs == h \o c
  <2>1. us = <<[role |-> "assistant", blocks |-> bs]>>
    BY <1>1, <1>6 DEF InputItems
  <2>2. CallIds(bs) = {}
    BY <1>5
  <2> HIDE DEF bs, us
  <2>3. \A j \in 1..Len(us) : us[j].blocks = bs
    BY <2>1
  <2> QED
    BY <1>2, <1>4, <2>2, <2>3 DEF us
<1>7. CASE k # <<>>
  <2> DEFINE one == Said(<<>>, "assistant", c)
             rest == Singly("assistant", k)
  <2>1. us = one \o rest
    BY <1>1, <1>7 DEF InputItems, Singly
  <2>2. "assistant" \in Roles /\ <<>> \in Seq(Turns)
    BY DEF Roles
  <2>3. one \in Seq(Turns) /\ rest \in Seq(Turns) /\ Len(rest) = Len(k)
    BY <1>3, <2>2, SaidAdds, SinglyIs
  <2>4. \A i \in 1..Len(one) : Ok(one[i])
    <3>1. one = <<>> \/ one = <<[role |-> "assistant", blocks |-> c]>>
      BY DEF Said
    <3> HIDE DEF one
    <3>2. ASSUME one = <<[role |-> "assistant", blocks |-> c]>>, NEW i \in 1..Len(one)
          PROVE  one[i].blocks = c
      BY <3>2
    <3> QED
      BY <1>5, <3>1, <3>2
  <2>5. \A i \in 1..Len(rest) : Ok(rest[i])
    <3> SUFFICES ASSUME NEW i \in 1..Len(rest) PROVE Ok(rest[i])
      OBVIOUS
    <3>1. i \in DOMAIN k /\ k[i] \in CallsGiven /\ k[i].id \in Ids(k)
      <4>1. Len(rest) = Len(k) /\ DOMAIN k = 1..Len(k)
        BY <1>3, <2>3
      <4>2. i \in DOMAIN k
        BY <4>1
      <4>3. k[i] \in CallsGiven
        BY <1>3, <4>2
      <4> QED
        BY <4>2, <4>3 DEF Ids
    <3>2. rest[i].blocks = <<k[i]>>
      BY <3>1 DEF Singly
    <3>3. <<k[i]>> \in Seq(CallsGiven)
      BY <3>1
    <3>4. CallIds(<<k[i]>>) = Ids(<<k[i]>>)
      BY <3>3, KindsCarry
    <3>5. Ids(<<k[i]>>) = {k[i].id}
      BY DEF Ids
    <3>6. ~(Len(<<k[i]>>) > 1)
      OBVIOUS
    <3> HIDE DEF rest
    <3> QED
      BY <3>1, <3>2, <3>4, <3>5, <3>6
  <2> HIDE DEF one, rest, Ok
  <2>6. \A j \in 1..Len(one \o rest) : Ok((one \o rest)[j])
    <3> SUFFICES ASSUME NEW j \in 1..Len(one \o rest) PROVE Ok((one \o rest)[j])
      OBVIOUS
    <3>1. /\ Len(one) \in Nat /\ Len(rest) \in Nat /\ Len(one \o rest) = Len(one) + Len(rest)
          /\ \A i \in 1..(Len(one) + Len(rest)) :
                (one \o rest)[i] = IF i <= Len(one) THEN one[i] ELSE rest[i - Len(one)]
      BY <2>3
    <3>2. CASE j <= Len(one)
      <4>1. j \in 1..Len(one) /\ (one \o rest)[j] = one[j]
        BY <3>1, <3>2
      <4> QED
        BY <2>4, <4>1
    <3>3. CASE ~(j <= Len(one))
      <4>1. j - Len(one) \in 1..Len(rest) /\ (one \o rest)[j] = rest[j - Len(one)]
        BY <3>1, <3>3
      <4> QED
        BY <2>5, <4>1
    <3> QED
      BY <3>2, <3>3
  <2>7. \A j \in 1..Len(us) : Ok(us[j])
    BY <2>1, <2>6
  <2> HIDE DEF us
  <2> QED
    BY <1>2, <1>4, <2>7 DEF Ok, us
<1> QED
  BY <1>6, <1>7

\* Each kind of message keeps the calls answered.
LEMMA ItemsAnswered ==
    ASSUME NEW d \in Seq(Entries), NEW p, NEW e \in Entries, Answered(Itemized(d), p)
    PROVE  /\ e.chat.role = "system" => Answered(Itemized(Append(d, e)), p)
           /\ e.chat.role = "user" /\ p = {} => Answered(Itemized(Append(d, e)), {})
           /\ e.chat.role = "assistant" /\ p = {} =>
                 Answered(Itemized(Append(d, e)), CallIds(e.said))
           /\ e.chat.role = "tool" /\ Ids(e.said) \subseteq p =>
                 Answered(Itemized(Append(d, e)), p \ Ids(e.said))
<1> DEFINE ts == Itemized(d)
           us == InputItems(e.chat)
<1>1. ts \in Seq(Turns) /\ Answered(ts, p)
  BY ItemizedLaws
<1>2. Itemized(Append(d, e)) = ts \o (IF e.chat.role = "system" THEN <<>> ELSE us)
  BY ItemizedLaws
<1> HIDE DEF ts
<1>3. ASSUME e.chat.role = "system" PROVE Answered(ts \o <<>>, p)
  <2>1. ts \o <<>> = ts
    BY <1>1, ConcatEmptySeq
  <2> QED
    BY <1>1, <2>1
<1>4. ASSUME e.chat.role = "user", p = {} PROVE Answered(ts \o us, {})
  <2>1. us \in Seq(Turns) /\ \A j \in 1..Len(us) : CallIds(us[j].blocks) = {}
    BY <1>4, UserItems
  <2> HIDE DEF us
  <2> QED
    BY <1>1, <1>4, <2>1, MoreItems
<1>5. ASSUME e.chat.role = "assistant", p = {} PROVE Answered(ts \o us, CallIds(e.said))
  <2>1. /\ us \in Seq(Turns)
        /\ \A j \in 1..Len(us) : /\ CallIds(us[j].blocks) \subseteq CallIds(e.said)
                                 /\ Len(us[j].blocks) > 1 => CallIds(us[j].blocks) = {}
    BY <1>5, AnswerItems
  <2> HIDE DEF us
  <2> QED
    BY <1>1, <1>5, <2>1, MoreItems
<1>6. ASSUME e.chat.role = "tool", Ids(e.said) \subseteq p
      PROVE  Answered(ts \o us, p \ Ids(e.said))
  <2>1. /\ us \in Seq(Turns) /\ Len(us) = 1
        /\ CallIds(us[1].blocks) = {} /\ ResultIds(us[1].blocks) = Ids(e.said)
    BY <1>6, ToolItems
  <2> HIDE DEF us
  <2> DEFINE q == p \ Ids(e.said)
  <2>2. 1 \in 1..Len(us) /\ \A j \in 1..Len(us) : j = 1
    BY <2>1
  <2>3. \A id \in p : id \in q \/ \E j \in 1..Len(us) : id \in ResultIds(us[j].blocks)
    BY <2>1, <2>2
  <2>4. \A j \in 1..Len(us) : CallIds(us[j].blocks) = {}
    BY <2>1, <2>2
  <2> HIDE DEF q
  <2>5. Answered(ts \o us, q)
    BY <1>1, <2>1, <2>3, <2>4, MoreItems
  <2> QED
    BY <2>5 DEF q
<1> QED
  BY <1>2, <1>3, <1>4, <1>5, <1>6

\* So they are in the items of every dialogue.
LEMMA ItemizedAnswered ==
    ASSUME NEW t \in Grown
    PROVE  Answered(Itemized(t[1]), t[2])
<1> DEFINE R == {u \in Pairs : Answered(Itemized(u[1]), u[2])}
<1>1. <<<<>>, {}>> \in R
  <2>1. <<>> \in Seq(Entries) /\ {} \in SUBSET Seq(Nat) /\ <<>> \in Seq(Turns) /\ Len(<<>>) = 0
    OBVIOUS
  <2>2. Answered(<<>>, {})
    BY <2>1 DEF Answered
  <2>3. <<<<>>, {}>> \in Pairs
    BY <2>1 DEF Pairs
  <2> QED
    BY <2>2, <2>3, ItemizedLaws
<1>2. ASSUME NEW d \in Seq(Entries), NEW p \in SUBSET Seq(Nat), NEW e \in Entries, <<d, p>> \in R
      PROVE  /\ e.chat.role \in {"system", "user"} /\ p = {} => <<Append(d, e), {}>> \in R
             /\ e.chat.role = "assistant" /\ p = {} => <<Append(d, e), CallIds(e.said)>> \in R
             /\ e.chat.role = "tool" /\ Ids(e.said) \subseteq p =>
                   <<Append(d, e), p \ Ids(e.said)>> \in R
  <2>1. Answered(Itemized(d), p)
    BY <1>2
  <2>2. Append(d, e) \in Seq(Entries)
    OBVIOUS
  <2>3. /\ e.chat.role = "system" => Answered(Itemized(Append(d, e)), p)
        /\ e.chat.role = "user" /\ p = {} => Answered(Itemized(Append(d, e)), {})
        /\ e.chat.role = "assistant" /\ p = {} => Answered(Itemized(Append(d, e)), CallIds(e.said))
        /\ e.chat.role = "tool" /\ Ids(e.said) \subseteq p =>
              Answered(Itemized(Append(d, e)), p \ Ids(e.said))
    BY <2>1, ItemsAnswered
  <2>4. /\ <<Append(d, e), {}>> \in Pairs
        /\ e.chat.role = "assistant" => <<Append(d, e), CallIds(e.said)>> \in Pairs
        /\ <<Append(d, e), p \ Ids(e.said)>> \in Pairs
    BY <2>2, CallIdsType DEF Pairs
  <2> QED
    BY <2>3, <2>4
<1>3. R \in SUBSET Pairs
  OBVIOUS
<1> HIDE DEF R
<1>4. Grows(R)
  BY <1>1, <1>2 DEF Grows
<1> QED
  BY <1>3, <1>4, GrownInduction DEF R

\* In a request the results of one turn's calls are on the one turn of the user
\* behind it, none missing and none about another call, on either wire
\* (chat_to_anthropic.py:353-363, chat_completions.py:152-162).
THEOREM CallsAnswered == DialogueSpec => []AnsweredTogether
<1>1. Dialogue /\ Translation /\ Threaded => AnsweredTogether
  <2> DEFINE ts == sent.turns
  <2>1. SUFFICES ASSUME Dialogue, Translation, Threaded, phase = "model" PROVE AnsweredTogether
    BY DEF AnsweredTogether
  <2>2. <<dialogue, {}>> \in Grown /\ dialogue \in Seq(Entries)
    BY <2>1 DEF Dialogue, Threaded
  <2>3. CASE request.wire = "anthropic"
    <3>1. ts = Converted(dialogue)
      BY <2>1, <2>3 DEF Translation
    <3>2. Together(Converted(<<dialogue, {}>>[1]), <<dialogue, {}>>[2])
      BY <2>2, ConvertedTogether
    <3>3. Together(ts, {})
      BY <3>1, <3>2
    <3>4. /\ ts \in Seq(Turns) /\ Len(ts) \in Nat /\ DOMAIN ts = 1..Len(ts)
          /\ \A i \in 1..Len(ts) : Paired(ts, i, {})
          /\ Len(ts) > 0 => CallIds(ts[Len(ts)].blocks) = {}
      BY <3>3 DEF Together, Awaits
    <3>5. ASSUME NEW i \in DOMAIN ts
          PROVE  /\ ts[i].blocks # <<>>
                 /\ CallIds(ts[i].blocks) # {} =>
                       /\ i < Len(ts)
                       /\ ts[i + 1].role = "user"
                       /\ IsResults(ts[i + 1])
                       /\ ResultIds(ts[i + 1].blocks) = CallIds(ts[i].blocks)
                 /\ ResultIds(ts[i].blocks) # {} => i > 1 /\ CallIds(ts[i - 1].blocks) # {}
      <4>1. Paired(ts, i, {}) /\ Left(ts, i, {}) = {} /\ i \in 1..Len(ts)
        BY <3>4 DEF Left
      <4>2. CallIds(ts[i].blocks) # {} => i < Len(ts)
        BY <3>4, <4>1
      <4> QED
        BY <4>1, <4>2 DEF Paired
    <3> QED
      BY <2>3, <3>5 DEF AnsweredTogether
  <2>4. CASE request.wire = "responses"
    <3>1. ts = Itemized(dialogue)
      BY <2>1, <2>4 DEF Translation
    <3>2. Answered(Itemized(<<dialogue, {}>>[1]), <<dialogue, {}>>[2])
      BY <2>2, ItemizedAnswered
    <3>3. Answered(ts, {})
      BY <3>1, <3>2
    <3>4. DOMAIN ts = 1..Len(ts)
      BY <3>3 DEF Answered
    <3> QED
      BY <2>4, <3>3, <3>4 DEF AnsweredTogether, Answered
  <2> QED
    BY <2>1, <2>3, <2>4 DEF Translation
<1> QED
  BY <1>1, DialogueInvariant, ThreadedInvariant, PTL

=============================================================================
