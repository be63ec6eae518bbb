---------------------- MODULE CredentialRefreshProofs -----------------------
(***************************************************************************)
(* What holds of the refresh of upstream credentials for any sets of       *)
(* credentials, login files and requests, whatever fails on the way.       *)
(***************************************************************************)
EXTENDS CredentialRefresh, FiniteSetTheorems, TLAPS

-----------------------------------------------------------------------------
(* Types and places.  Types are inductive only together with where a       *)
(* request stands: which one is at the head of the queue, and that one past *)
(* the file has a file.                                                    *)

PastFile(r) == pc[r] \in {"exchange", "answered", "commit"}

\* A request past the lock is the head of its credential's queue.
Place(r) ==
    /\ pc[r] # "idle" => cred[r] \in Creds
    /\ InRefresh(r) => Holds(r)
    /\ PastFile(r) => HasTokens(branch[r], seen[r].path)
    /\ pc[r] \in {"answered", "commit"} => got[r].access > 0

Placed ==
    /\ \A r \in Requests : Place(r)
    /\ \A a \in Admins : adminPc[a] = "loaded" => adminCred[a] \in Creds

IInv == TypeOK /\ Placed

RequestType ==
    /\ pc \in [Requests -> {"idle", "loaded", "waiting", "reread", "exchange",
                            "answered", "commit"}]
    /\ cred \in [Requests -> Creds \cup {NoCred}]
    /\ branch \in [Requests -> Kinds]
    /\ seen \in [Requests -> Row]
    /\ got \in [Requests -> Got]
    /\ answer \in [Requests -> Answer]

\* The rows and records a request is reset to are well typed.
LEMMA ResetTypes ==
    NoRow \in Row /\ Nothing \in Got /\ NoToken \in Token \cup {NoToken}
  BY DEF NoRow, Nothing, Row, Got, Kinds

LEMMA ReturnType ==
    ASSUME TypeOK, NEW r \in Requests, NEW how \in Answer, Return(r, how)
    PROVE  RequestType'
  BY ResetTypes DEF TypeOK, Return, RequestType, Kinds

\* A request that returns leaves every other one in its place.
LEMMA ReturnPlace ==
    ASSUME IInv, NEW r \in Requests, NEW how \in Answer, Return(r, how),
           UNCHANGED <<admin>>, UNCHANGED queue
    PROVE  Placed'
  <1>1. ASSUME NEW s \in Requests PROVE Place(s)'
    <2>1. CASE s = r
      BY <2>1 DEF IInv, TypeOK, Placed, Place, Return, InRefresh, PastFile
    <2>2. CASE s # r
      <3>1. /\ pc'[s] = pc[s] /\ cred'[s] = cred[s] /\ branch'[s] = branch[s]
            /\ seen'[s] = seen[s] /\ got'[s] = got[s]
        BY <2>2 DEF IInv, TypeOK, Return
      <3> QED
        BY <3>1 DEF IInv, Placed, Place, InRefresh, PastFile, Holds, HasTokens
    <2> QED BY <2>1, <2>2
  <1> QED BY <1>1 DEF IInv, Placed, admin

\* The holder that returns and releases the lock was alone past it.
LEMMA ReleasePlace ==
    ASSUME IInv, NEW r \in Requests, NEW how \in Answer, Return(r, how),
           pc[r] # "idle", Holds(r), Release(r), UNCHANGED <<admin>>
    PROVE  Placed' /\ queue' \in [Creds -> Seq(Requests)]
  <1>1. cred[r] \in Creds
    BY DEF IInv, Placed, Place
  <1>2. queue \in [Creds -> Seq(Requests)] /\ queue[cred[r]] # <<>>
    BY DEF IInv, TypeOK, Holds
  <1>3. queue' \in [Creds -> Seq(Requests)]
    BY <1>1, <1>2 DEF Release
  <1>4. ASSUME NEW s \in Requests PROVE Place(s)'
    <2>1. CASE s = r
      BY <2>1 DEF IInv, TypeOK, Placed, Place, Return, InRefresh, PastFile
    <2>2. CASE s # r
      <3>1. /\ pc'[s] = pc[s] /\ cred'[s] = cred[s] /\ branch'[s] = branch[s]
            /\ seen'[s] = seen[s] /\ got'[s] = got[s]
        BY <2>2 DEF IInv, TypeOK, Return
      <3>2. Place(s)
        BY DEF IInv, Placed
      <3>3. InRefresh(s) => Holds(s)'
        <4> SUFFICES ASSUME InRefresh(s) PROVE Holds(s)'
          OBVIOUS
        <4>1. Holds(s) /\ cred[s] \in Creds
          BY <3>2 DEF Place, InRefresh
        <4>2. cred[s] # cred[r]
          BY <4>1, <2>2 DEF Holds
        <4>3. queue'[cred[s]] = queue[cred[s]]
          BY <4>1, <4>2, <1>2 DEF Release
        <4> QED BY <4>1, <4>3, <3>1 DEF Holds
      <3> QED
        BY <3>1, <3>2, <3>3 DEF Place, InRefresh, PastFile, HasTokens
    <2> QED BY <2>1, <2>2
  <1> QED BY <1>3, <1>4 DEF IInv, Placed, admin


\* A step of r past the lock, or up to it, moves nobody else.
LEMMA StepPlace ==
    ASSUME IInv, NEW r \in Requests, NEW from, NEW to, Step(r, from, to),
           UNCHANGED <<queue, cred, branch, admin>>,
           \A s \in Requests \ {r} : seen'[s] = seen[s] /\ got'[s] = got[s],
           Place(r)'
    PROVE  Placed'
  <1>1. ASSUME NEW s \in Requests, s # r PROVE Place(s)'
    BY <1>1 DEF Step, IInv, TypeOK, Placed, Place, InRefresh, PastFile, Holds,
                HasTokens
  <1> QED BY <1>1 DEF IInv, Placed, admin

\* Before the lock: nothing but the request itself and the queue changes.
LEMMA UnlockedStep ==
    ASSUME IInv, NEW r \in Requests, Load(r) \/ Unlocked(r)
    PROVE  IInv'
  <1>1. CASE Load(r)
    <2>1. TypeOK'
      BY <1>1 DEF Load, IInv, TypeOK, Row, Live, environment, admin, Answer
    <2>2. ASSUME NEW s \in Requests PROVE Place(s)'
      BY <1>1 DEF Load, IInv, TypeOK, Placed, Place, InRefresh, PastFile, Holds,
                  HasTokens
    <2> QED BY <1>1, <2>1, <2>2 DEF IInv, Placed, Load, admin
  <1>2. CASE QueueForLock(r)
    <2>1. cred[r] \in Creds
      BY <1>2 DEF QueueForLock, MustRefresh, IInv, Placed, Place
    <2>2. queue' \in [Creds -> Seq(Requests)]
      BY <1>2, <2>1 DEF QueueForLock, IInv, TypeOK
    <2>3. TypeOK'
      BY <1>2, <2>2 DEF QueueForLock, IInv, TypeOK, environment, admin
    <2>4. ASSUME NEW s \in Requests, InRefresh(s) PROVE Holds(s)'
      <3>1. Holds(s) /\ cred[s] \in Creds /\ queue[cred[s]] \in Seq(Requests)
        BY <2>4 DEF IInv, TypeOK, Placed, Place, InRefresh
      <3>2. cred'[s] = cred[s]
        BY <1>2 DEF QueueForLock
      <3>3. CASE cred[s] = cred[r]
        <4>1. queue'[cred[s]] = Append(queue[cred[s]], r)
          BY <1>2, <2>1, <3>3 DEF QueueForLock, IInv, TypeOK
        <4>2. /\ Append(queue[cred[s]], r) # <<>>
              /\ Head(Append(queue[cred[s]], r)) = Head(queue[cred[s]])
          BY <3>1 DEF Holds
        <4> QED BY <3>1, <3>2, <4>1, <4>2 DEF Holds
      <3>4. CASE cred[s] # cred[r]
        BY <1>2, <3>1, <3>2, <3>4 DEF QueueForLock, Holds, IInv, TypeOK
      <3> QED BY <3>3, <3>4
    <2>5. ASSUME NEW s \in Requests PROVE Place(s)'
      BY <1>2, <2>1, <2>4 DEF QueueForLock, MustRefresh, IInv, TypeOK, Placed,
                              Place, InRefresh, PastFile, HasTokens
    <2> QED BY <1>2, <2>3, <2>5 DEF IInv, Placed, QueueForLock, admin
  <1>3. ASSUME NEW how \in Answer, Return(r, how),
               UNCHANGED <<rows, environment, queue, admin>>
        PROVE  IInv'
    <2>1. TypeOK'
      BY <1>3, ReturnType DEF IInv, TypeOK, RequestType, environment, admin
    <2>2. Placed'
      BY <1>3, ReturnPlace
    <2> QED BY <2>1, <2>2 DEF IInv
  <1>4. CASE ServeSecret(r)
    BY <1>4, <1>3 DEF ServeSecret, Answer
  <1>5. CASE ServeCached(r)
    BY <1>5, <1>3 DEF ServeCached, Answer
  <1>6. CASE ServeApiKey(r)
    BY <1>6, <1>3 DEF ServeApiKey, Answer
  <1>7. CASE Unresolvable(r)
    BY <1>7, <1>3 DEF Unresolvable, Answer
  <1> QED BY <1>1, <1>2, <1>4, <1>5, <1>6, <1>7 DEF Unlocked

\* Leaving the critical section, with an answer or an error.
LEMMA LeaveStep ==
    ASSUME IInv, NEW r \in Requests, NEW how \in Answer, Return(r, how),
           pc[r] # "idle", Holds(r), Release(r), UNCHANGED <<files, expired, admin>>,
           rows' \in [Creds -> Row],
           redeemable' \in [Files -> Nat], issued' \in [Files -> Nat]
    PROVE  IInv'
  <1>1. TypeOK'
    BY ReturnType, ReleasePlace DEF IInv, TypeOK, RequestType, admin
  <1>2. Placed'
    BY ReleasePlace
  <1> QED BY <1>1, <1>2 DEF IInv

LEMMA FailStep ==
    ASSUME IInv, NEW r \in Requests, FailLocked(r), pc[r] # "idle", Holds(r)
    PROVE  IInv'
  BY LeaveStep DEF FailLocked, Answer, environment, IInv, TypeOK

\* The endpoint's counters stay natural numbers.
LEMMA IssueType ==
    ASSUME TypeOK, NEW f \in Files, NEW rotate \in BOOLEAN, Issue(f, rotate)
    PROVE  redeemable' \in [Files -> Nat] /\ issued' \in [Files -> Nat]
  BY DEF TypeOK, Issue

\* A row with another token, or deleted, is still a row.
LEMMA RowType ==
    ASSUME NEW row \in Row
    PROVE  /\ \A token \in Token : [row EXCEPT !.token = token] \in Row
           /\ [row EXCEPT !.life = "gone"] \in Row
  BY DEF Row

\* Rewriting a login file keeps it a login file.
LEMMA RewrittenType ==
    ASSUME NEW file \in File, NEW reply \in Got, reply.access > 0
    PROVE  Rewritten(file, reply) \in File
  BY DEF File, Got, Rewritten


\* Inside the critical section.
LEMMA LockedStep ==
    ASSUME IInv, NEW r \in Requests, Locked(r)
    PROVE  IInv'
  <1> DEFINE f == seen[r].path
  <1>1. /\ InRefresh(r) => Holds(r) /\ cred[r] \in Creds
        /\ pc[r] = "waiting" => cred[r] \in Creds
        /\ PastFile(r) => HasTokens(branch[r], f) /\ f \in Files
        /\ pc[r] = "answered" => got[r].access > 0
    BY DEF IInv, Placed, Place, InRefresh, PastFile, HasTokens
  <1>2. CASE Reread(r)
    <2>1. TypeOK'
      BY <1>1, <1>2 DEF Reread, Step, IInv, TypeOK, environment, admin
    <2>2. Place(r)'
      BY <1>1, <1>2 DEF Reread, Step, IInv, TypeOK, Place, PastFile, Holds
    <2> QED BY <1>2, <2>1, <2>2, StepPlace DEF Reread, IInv, TypeOK
  <1>3. CASE Adopt(r)
    <2>1. files[f].access \in Nat \ {0}
      BY <1>3 DEF Adopt, HasTokens, IInv, TypeOK, File
    <2>2. TypeOK'
      BY <1>3, <2>1 DEF Adopt, Step, Got, IInv, TypeOK, environment, admin
    <2>3. Place(r)'
      BY <1>1, <1>3, <2>1 DEF Adopt, Step, IInv, TypeOK, Place, PastFile, Holds,
                              InRefresh, HasTokens
    <2> QED BY <1>3, <2>2, <2>3, StepPlace DEF Adopt, IInv, TypeOK
  <1>4. CASE SendRefresh(r)
    <2>1. files[f].refresh \in Nat
      BY <1>4 DEF SendRefresh, HasTokens, IInv, TypeOK, File
    <2>2. TypeOK'
      BY <1>4, <2>1 DEF SendRefresh, Step, Got, IInv, TypeOK, environment, admin
    <2>3. Place(r)'
      BY <1>1, <1>4 DEF SendRefresh, Step, IInv, TypeOK, Place, PastFile, Holds,
                        InRefresh, HasTokens
    <2> QED BY <1>4, <2>2, <2>3, StepPlace DEF SendRefresh, IInv, TypeOK
  <1>5. CASE Redeem(r)
    <2>1. f \in Files
      BY <1>1, <1>5 DEF Redeem, Step, PastFile
    <2>2. PICK rotate \in BOOLEAN :
            /\ Issue(f, rotate)
            /\ got' = [got EXCEPT ![r] =
                         [access |-> issued[f] + 1,
                          refresh |-> IF rotate THEN issued[f] + 1 ELSE 0]]
      BY <1>5 DEF Redeem
    <2>3. issued[f] \in Nat
      BY <2>1 DEF IInv, TypeOK
    <2>4. got' \in [Requests -> Got] /\ got'[r].access > 0
      BY <2>2, <2>3 DEF Got, IInv, TypeOK
    <2>5. TypeOK'
      BY <1>5, <2>1, <2>2, <2>4, IssueType DEF Redeem, Step, IInv, TypeOK, admin
    <2>6. Place(r)'
      BY <1>1, <1>5, <2>4 DEF Redeem, Step, IInv, TypeOK, Place, PastFile, Holds,
                              InRefresh, HasTokens
    <2>7. \A s \in Requests \ {r} : got'[s] = got[s]
      BY <2>2 DEF IInv, TypeOK
    <2> QED BY <1>5, <2>5, <2>6, <2>7, StepPlace DEF Redeem, IInv
  <1>6. CASE Store(r)
    <2>1. f \in Files /\ got[r].access > 0
      BY <1>1, <1>6 DEF Store, Step, PastFile
    <2>2. Rewritten(files[f], got[r]) \in File
      BY <2>1, RewrittenType DEF IInv, TypeOK
    <2>3. files' \in [Files -> File]
      BY <1>6, <2>1, <2>2 DEF Store, IInv, TypeOK
    <2>4. TypeOK'
      BY <1>6, <2>3 DEF Store, Step, IInv, TypeOK, admin
    <2>5. Place(r)'
      BY <1>1, <1>6, <2>1 DEF Store, Step, IInv, TypeOK, Place, PastFile, Holds,
                              InRefresh, HasTokens
    <2> QED BY <1>6, <2>4, <2>5, StepPlace DEF Store, IInv
  <1>8. CASE RereadFails(r)
    BY <1>8, FailStep DEF RereadFails
  <1>9. CASE Unreadable(r)
    <2>1. InRefresh(r) /\ FailLocked(r) /\ pc[r] # "idle"
      BY <1>9 DEF Unreadable, InRefresh
    <2> QED BY <1>1, <2>1, FailStep
  <1>10. CASE Refused(r)
    <2>1. InRefresh(r) /\ FailLocked(r) /\ pc[r] # "idle"
      BY <1>10 DEF Refused, InRefresh
    <2> QED BY <1>1, <2>1, FailStep
  <1>11. CASE StoreFails(r)
    <2>1. InRefresh(r) /\ FailLocked(r) /\ pc[r] # "idle"
      BY <1>11 DEF StoreFails, InRefresh
    <2> QED BY <1>1, <2>1, FailStep
  <1>12. CASE CommitFails(r)
    <2>1. InRefresh(r) /\ FailLocked(r) /\ pc[r] # "idle"
      BY <1>12 DEF CommitFails, InRefresh
    <2> QED BY <1>1, <2>1, FailStep
  <1>13. CASE ServeRefreshed(r)
    <2>1. pc[r] # "idle" /\ Holds(r)
      BY <1>1, <1>13 DEF ServeRefreshed, InRefresh
    <2> QED BY <1>13, <2>1, LeaveStep
            DEF ServeRefreshed, Answer, environment, IInv, TypeOK
  <1>14. CASE ReplyLost(r)
    <2>1. pc[r] # "idle" /\ Holds(r) /\ f \in Files
      BY <1>1, <1>14 DEF ReplyLost, InRefresh, PastFile
    <2>2. redeemable' \in [Files -> Nat] /\ issued' \in [Files -> Nat]
      BY <1>14, <2>1, IssueType DEF ReplyLost, IInv
    <2> QED BY <1>14, <2>1, <2>2, LeaveStep
            DEF ReplyLost, Answer, IInv, TypeOK
  <1>15. CASE Commit(r)
    <2>1. pc[r] # "idle" /\ Holds(r) /\ f \in Files /\ cred[r] \in Creds
      BY <1>1, <1>15 DEF Commit, InRefresh, PastFile
    <2>2. Obtained(r) \in Token
      BY <2>1 DEF Obtained, Token, IInv, TypeOK, Got
    <2>3. [rows[cred[r]] EXCEPT !.token = Obtained(r)] \in Row
      BY <2>1, <2>2, RowType DEF IInv, TypeOK
    <2>4. rows' \in [Creds -> Row]
      BY <1>15, <2>1, <2>3 DEF Commit, IInv, TypeOK
    <2> QED BY <1>15, <2>1, <2>4, LeaveStep
            DEF Commit, Answer, environment, IInv, TypeOK
  <1> QED
    BY <1>2, <1>3, <1>4, <1>5, <1>6, <1>8, <1>9, <1>10, <1>11, <1>12, <1>13,
       <1>14, <1>15 DEF Locked

\* An admin's edit, creation or deletion.
LEMMA AdminStepInv ==
    ASSUME IInv,
           (\E c \in Creds : AdminCreate(c)) \/ (\E a \in Admins : AdminStep(a))
    PROVE  IInv'
  <1>1. ASSUME NEW c \in Creds, AdminCreate(c) PROVE TypeOK'
    BY <1>1 DEF AdminCreate, IInv, TypeOK, Row, environment, request, admin
  <1>2. ASSUME NEW a \in Admins, AdminLoad(a) PROVE TypeOK'
    BY <1>2 DEF AdminLoad, IInv, TypeOK, environment, request
  <1>3. ASSUME NEW a \in Admins, AdminReturn(a)
        PROVE  /\ adminPc' \in [Admins -> {"idle", "loaded"}]
               /\ adminCred' \in [Admins -> Creds \cup {NoCred}]
               /\ adminSeen' \in [Admins -> Row]
    BY <1>3, ResetTypes DEF AdminReturn, IInv, TypeOK
  <1>4. ASSUME NEW a \in Admins, AdminUpdate(a) PROVE TypeOK'
    <2> DEFINE c == adminCred[a]
    <2>1. PICK k \in Kinds, s \in BOOLEAN, p \in Files \cup {NoFile} :
            rows' = [rows EXCEPT ![c] =
                       Written(rows[c], adminSeen[a], Edited(adminSeen[a], k, s, p))]
      BY <1>4 DEF AdminUpdate
    <2>2. c \in Creds /\ rows[c] \in Row /\ adminSeen[a] \in Row
      BY <1>4 DEF AdminUpdate, Live, IInv, TypeOK
    <2>3. Edited(adminSeen[a], k, s, p) \in Row
      BY <2>2 DEF Edited, Row
    <2>4. Written(rows[c], adminSeen[a], Edited(adminSeen[a], k, s, p)) \in Row
      BY <2>2, <2>3 DEF Written, Row
    <2>5. rows' \in [Creds -> Row]
      BY <2>1, <2>2, <2>4 DEF IInv, TypeOK
    <2> QED BY <1>3, <1>4, <2>5 DEF AdminUpdate, IInv, TypeOK, environment, request
  <1>5. ASSUME NEW a \in Admins, AdminDelete(a) PROVE TypeOK'
    <2> DEFINE c == adminCred[a]
    <2>1. c \in Creds
      BY <1>5 DEF AdminDelete, IInv, Placed
    <2>2. [rows[c] EXCEPT !.life = "gone"] \in Row
      BY <2>1, RowType DEF IInv, TypeOK
    <2>3. rows' \in [Creds -> Row]
      BY <1>5, <2>1, <2>2 DEF AdminDelete, IInv, TypeOK
    <2> QED BY <1>3, <1>5, <2>3 DEF AdminDelete, IInv, TypeOK, environment, request
  <1>6. ASSUME NEW a \in Admins, AdminFails(a) PROVE TypeOK'
    BY <1>3, <1>6 DEF AdminFails, IInv, TypeOK, environment, request
  <1>7. TypeOK' /\ UNCHANGED <<queue, request>>
    BY <1>1, <1>2, <1>4, <1>5, <1>6 DEF AdminStep, AdminCreate, AdminLoad,
       AdminUpdate, AdminDelete, AdminFails
  <1>8. \A r \in Requests : Place(r)'
    BY <1>7 DEF request, IInv, Placed, Place, InRefresh, PastFile, Holds, HasTokens
  <1>9. \A a \in Admins : adminPc'[a] = "loaded" => adminCred'[a] \in Creds
    BY DEF AdminStep, AdminCreate, AdminLoad, AdminUpdate, AdminDelete, AdminFails,
           AdminReturn, admin, IInv, TypeOK, Placed
  <1> QED BY <1>7, <1>8, <1>9 DEF IInv, Placed


\* The CLI, the clock and a crash.
LEMMA EnvironmentStep ==
    ASSUME IInv, Crash \/ \E f \in Files : CliRefresh(f) \/ Expire(f)
    PROVE  IInv'
  <1>1. CASE Crash
    <2>1. TypeOK'
      BY <1>1, ResetTypes DEF Crash, IInv, TypeOK, environment, Kinds, Answer
    <2>2. Placed'
      BY <1>1 DEF Crash, Placed, Place, InRefresh, PastFile
    <2> QED BY <2>1, <2>2 DEF IInv
  <1>2. ASSUME NEW f \in Files, CliRefresh(f) PROVE TypeOK'
    <2>1. PICK rotate \in BOOLEAN :
            /\ Issue(f, rotate)
            /\ files' = [files EXCEPT ![f] = Rewritten(files[f],
                           [access |-> issued[f] + 1,
                            refresh |-> IF rotate THEN issued[f] + 1 ELSE 0])]
      BY <1>2 DEF CliRefresh
    <2> DEFINE reply == [access |-> issued[f] + 1,
                         refresh |-> IF rotate THEN issued[f] + 1 ELSE 0]
    <2>2. issued[f] \in Nat /\ files[f] \in File
      BY DEF IInv, TypeOK
    <2>3. reply \in Got /\ reply.access > 0
      BY <2>2 DEF Got
    <2>4. Rewritten(files[f], reply) \in File
      BY <2>2, <2>3, RewrittenType
    <2>5. files' \in [Files -> File]
      BY <2>1, <2>4 DEF IInv, TypeOK
    <2> QED BY <1>2, <2>1, <2>5, IssueType
            DEF CliRefresh, IInv, TypeOK, request, admin
  <1>3. ASSUME NEW f \in Files, Expire(f) PROVE TypeOK'
    BY <1>3 DEF Expire, IInv, TypeOK, request, admin
  <1>4. ASSUME NEW f \in Files, CliRefresh(f) \/ Expire(f) PROVE Placed'
    BY <1>4 DEF CliRefresh, Expire, request, admin, IInv, Placed, Place,
                InRefresh, PastFile, Holds, HasTokens
  <1> QED BY <1>1, <1>2, <1>3, <1>4 DEF IInv

\* The inductive invariant holds in every reachable state.
LEMMA Invariance == Spec => []IInv
  <1>1. Init => IInv
    <2> SUFFICES ASSUME Init PROVE IInv
      OBVIOUS
    <2>1. files \in [Files -> File]
      BY DEF Init, File
    <2>2. TypeOK
      BY <2>1, ResetTypes DEF Init, TypeOK, Kinds, Answer
    <2> QED BY <2>2 DEF Init, IInv, Placed, Place, InRefresh, PastFile
  <1>2. IInv /\ [Next]_vars => IInv'
    <2> SUFFICES ASSUME IInv, [Next]_vars PROVE IInv'
      OBVIOUS
    <2>1. ASSUME UNCHANGED vars PROVE IInv'
      BY <2>1 DEF vars, environment, request, admin, IInv, TypeOK, Placed, Place,
                  InRefresh, PastFile, Holds, HasTokens
    <2> QED BY <2>1, UnlockedStep, LockedStep, AdminStepInv, EnvironmentStep
            DEF Next
  <1> QED BY <1>1, <1>2, PTL DEF Spec

\* Every variable keeps its type.
THEOREM TypeCorrect == Spec => []TypeOK
  <1>1. IInv => TypeOK
    BY DEF IInv
  <1> QED BY <1>1, Invariance, PTL

\* Two requests are never both past the lock of one credential.
THEOREM MutualExclusion == Spec => []OneRefreshAtATime
  <1>1. IInv => OneRefreshAtATime
    BY DEF IInv, Placed, Place, OneRefreshAtATime, Holds
  <1> QED BY <1>1, Invariance, PTL


-----------------------------------------------------------------------------
(* Locks.  A request enters a queue once, and leaves it by its head.        *)

InQueue(r) == pc[r] = "waiting" \/ InRefresh(r)

\* A step that moves no queue and lets only its head past the lock.
LEMMA QueuesRest ==
    ASSUME IInv, NoLockIsLeaked, UNCHANGED queue,
           \A s \in Requests :
              /\ InQueue(s) => cred'[s] = cred[s]
              /\ InRefresh(s) => InRefresh(s)'
              /\ pc[s] = "waiting" => pc'[s] = "waiting" \/ (InRefresh(s)' /\ Holds(s))
              /\ pc'[s] = "waiting" => pc[s] = "waiting"
    PROVE  NoLockIsLeaked'
  <1>1. \A c \in Creds : queue[c] \in Seq(Requests)
    BY DEF IInv, TypeOK
  <1>2. ASSUME NEW c \in Creds, NEW i \in DOMAIN queue[c]
        PROVE  LET r == queue[c][i]
               IN  cred'[r] = c /\ (pc'[r] = "waiting" \/ (i = 1 /\ InRefresh(r)'))
    <2> DEFINE r == queue[c][i]
    <2>1. r \in Requests /\ cred[r] = c /\ (pc[r] = "waiting" \/ (i = 1 /\ InRefresh(r)))
      BY <1>1, <1>2 DEF NoLockIsLeaked
    <2>2. cred'[r] = c
      BY <2>1 DEF InQueue
    <2>3. Holds(r) => i = 1
      <3> SUFFICES ASSUME Holds(r) PROVE i = 1
        OBVIOUS
      <3>1. queue[c] # <<>> /\ queue[c][1] = r /\ 1 \in DOMAIN queue[c]
        BY <1>1, <2>1 DEF Holds
      <3> QED BY <3>1 DEF NoLockIsLeaked
    <2> QED BY <2>1, <2>2, <2>3
  <1>3. ASSUME NEW r \in Requests, pc'[r] = "waiting"
        PROVE  \E i \in DOMAIN queue'[cred'[r]] : queue'[cred'[r]][i] = r
    BY <1>3 DEF NoLockIsLeaked, InQueue
  <1> QED BY <1>2, <1>3 DEF NoLockIsLeaked

\* A request goes to the end of a queue it is not in.
LEMMA QueueGrows ==
    ASSUME IInv, NoLockIsLeaked, NEW r \in Requests, QueueForLock(r)
    PROVE  NoLockIsLeaked'
  <1> DEFINE d == cred[r]
             q == queue[d]
             n == Len(q) + 1
  <1>1. /\ d \in Creds /\ pc[r] = "loaded" /\ cred' = cred
        /\ pc'[r] = "waiting" /\ \A s \in Requests \ {r} : pc'[s] = pc[s]
    BY DEF QueueForLock, MustRefresh, IInv, TypeOK, Placed, Place
  <1>2. q \in Seq(Requests) /\ \A c \in Creds : queue[c] \in Seq(Requests)
    BY <1>1 DEF IInv, TypeOK
  <1>3. queue'[d] = Append(q, r) /\ \A c \in Creds \ {d} : queue'[c] = queue[c]
    BY <1>1 DEF QueueForLock, IInv, TypeOK
  <1>4. /\ DOMAIN queue'[d] = DOMAIN q \cup {n} /\ n \notin DOMAIN q
        /\ queue'[d][n] = r /\ \A i \in DOMAIN q : queue'[d][i] = q[i]
    BY <1>2, <1>3
  <1>5. \A c \in Creds : \A i \in DOMAIN queue[c] : queue[c][i] \in Requests \ {r}
    BY <1>1, <1>2 DEF NoLockIsLeaked, InRefresh
  <1>6. ASSUME NEW c \in Creds, NEW i \in DOMAIN queue'[c], NEW j \in DOMAIN queue'[c],
               queue'[c][i] = queue'[c][j]
        PROVE  i = j
    <2> HIDE DEF q, n
    <2>1. CASE c # d
      BY <1>3, <1>6, <2>1 DEF NoLockIsLeaked
    <2>2. CASE c = d
      BY <1>1, <1>4, <1>5, <1>6, <2>2 DEF NoLockIsLeaked, q
    <2> QED BY <2>1, <2>2
  <1>7. ASSUME NEW c \in Creds, NEW i \in DOMAIN queue'[c], NEW s, s = queue'[c][i]
        PROVE  cred'[s] = c /\ (pc'[s] = "waiting" \/ (i = 1 /\ InRefresh(s)'))
    <2>1. CASE i \in DOMAIN queue[c] /\ queue'[c][i] = queue[c][i]
      BY <1>1, <1>5, <1>7, <2>1 DEF NoLockIsLeaked, InRefresh
    <2>2. CASE c = d /\ i = n
      BY <1>1, <1>4, <1>7, <2>2
    <2> HIDE DEF q, n
    <2> QED BY <1>3, <1>4, <1>7, <2>1, <2>2 DEF q
  <1>8. ASSUME NEW s \in Requests, pc'[s] = "waiting"
        PROVE  \E i \in DOMAIN queue'[cred'[s]] : queue'[cred'[s]][i] = s
    <2>1. CASE s = r
      BY <1>1, <1>4, <2>1
    <2>2. CASE s # r
      <3>1. cred[s] \in Creds /\ \E i \in DOMAIN queue[cred[s]] : queue[cred[s]][i] = s
        BY <1>1, <1>8, <2>2 DEF NoLockIsLeaked, IInv, Placed, Place
      <3> HIDE DEF q, n
      <3> QED BY <1>1, <1>3, <1>4, <3>1 DEF q
    <2> QED BY <2>1, <2>2
  <1> QED BY <1>6, <1>7, <1>8 DEF NoLockIsLeaked, InRefresh

\* The head leaves, and the next waiter becomes the head.
LEMMA QueueShrinks ==
    ASSUME IInv, NoLockIsLeaked, NEW r \in Requests, NEW how, Return(r, how),
           pc[r] # "idle", Holds(r), Release(r)
    PROVE  NoLockIsLeaked'
  <1> DEFINE d == cred[r]
             q == queue[d]
  <1>1. /\ d \in Creds /\ pc'[r] = "idle"
        /\ \A s \in Requests \ {r} : pc'[s] = pc[s] /\ cred'[s] = cred[s]
    BY DEF Return, IInv, TypeOK, Placed, Place
  <1>2. q \in Seq(Requests) /\ q # <<>> /\ \A c \in Creds : queue[c] \in Seq(Requests)
    BY <1>1 DEF IInv, TypeOK, Holds
  <1>3. queue'[d] = Tail(q) /\ \A c \in Creds \ {d} : queue'[c] = queue[c]
    BY <1>1 DEF Release, IInv, TypeOK
  <1>4. /\ DOMAIN queue'[d] = 1..(Len(q) - 1) /\ DOMAIN q = 1..Len(q) /\ Len(q) \in Nat
        /\ q[1] = r /\ \A i \in 1..(Len(q) - 1) : queue'[d][i] = q[i + 1]
    BY <1>2, <1>3 DEF Holds
  <1>5. \A c \in Creds \ {d} : \A i \in DOMAIN queue[c] : queue[c][i] \in Requests \ {r}
    BY <1>2 DEF NoLockIsLeaked
  <1>6. \A i \in 1..(Len(q) - 1) : /\ i + 1 \in DOMAIN q /\ i + 1 # 1 /\ 1 \in DOMAIN q
                                  /\ q[i + 1] \in Requests \ {r}
    <2> SUFFICES ASSUME NEW i \in 1..(Len(q) - 1)
                 PROVE  /\ i + 1 \in DOMAIN q /\ i + 1 # 1 /\ 1 \in DOMAIN q
                        /\ q[i + 1] \in Requests \ {r}
      OBVIOUS
    <2>1. i + 1 \in DOMAIN q /\ i + 1 # 1 /\ 1 \in DOMAIN q
      BY <1>4
    <2>2. q[i + 1] \in Requests
      BY <1>2, <2>1
    <2>3. q[i + 1] # q[1]
      BY <1>1, <2>1 DEF NoLockIsLeaked
    <2> QED BY <1>4, <2>1, <2>2, <2>3
  <1> HIDE DEF q
  <1>7. ASSUME NEW c \in Creds, NEW i \in DOMAIN queue'[c], NEW j \in DOMAIN queue'[c],
               queue'[c][i] = queue'[c][j]
        PROVE  i = j
    <2>1. CASE c # d
      BY <1>3, <1>7, <2>1 DEF NoLockIsLeaked
    <2>2. CASE c = d
      <3>1. i \in 1..(Len(q) - 1) /\ j \in 1..(Len(q) - 1) /\ q[i + 1] = q[j + 1]
        BY <1>4, <1>7, <2>2
      <3>2. i + 1 = j + 1
        BY <1>1, <1>6, <3>1 DEF NoLockIsLeaked, q
      <3> QED BY <1>4, <3>1, <3>2
    <2> QED BY <2>1, <2>2
  <1>8. ASSUME NEW c \in Creds, NEW i \in DOMAIN queue'[c], NEW s, s = queue'[c][i]
        PROVE  cred'[s] = c /\ (pc'[s] = "waiting" \/ (i = 1 /\ InRefresh(s)'))
    <2>1. CASE c # d
      <3>1. i \in DOMAIN queue[c] /\ queue'[c][i] = queue[c][i] /\ queue[c][i] \in Requests \ {r}
        BY <1>3, <1>5, <1>8, <2>1
      <3> QED BY <1>1, <1>8, <3>1 DEF NoLockIsLeaked, InRefresh
    <2>2. CASE c = d
      <3>1. i \in 1..(Len(q) - 1) /\ queue'[c][i] = q[i + 1]
        BY <1>4, <1>8, <2>2
      <3>2. cred[q[i + 1]] = d /\ pc[q[i + 1]] = "waiting"
        BY <1>1, <1>6, <3>1 DEF NoLockIsLeaked, q
      <3> QED BY <1>1, <1>6, <1>8, <2>2, <3>1, <3>2
    <2> QED BY <2>1, <2>2
  <1>9. ASSUME NEW s \in Requests, pc'[s] = "waiting"
        PROVE  \E i \in DOMAIN queue'[cred'[s]] : queue'[cred'[s]][i] = s
    <2>1. s # r /\ pc[s] = "waiting" /\ cred'[s] = cred[s]
      BY <1>1, <1>9
    <2>2. PICK k \in DOMAIN queue[cred[s]] : queue[cred[s]][k] = s
      BY <2>1 DEF NoLockIsLeaked
    <2>3. cred[s] \in Creds
      BY <2>1 DEF IInv, Placed, Place
    <2>4. CASE cred[s] # d
      BY <1>3, <2>1, <2>2, <2>3, <2>4
    <2>5. CASE cred[s] = d
      <3>1. k \in 1..Len(q) /\ k # 1
        BY <1>4, <2>1, <2>2, <2>5 DEF q
      <3>2. k - 1 \in 1..(Len(q) - 1) /\ (k - 1) + 1 = k
        BY <1>4, <3>1
      <3>3. queue'[d][k - 1] = s /\ k - 1 \in DOMAIN queue'[d]
        BY <1>4, <2>2, <2>5, <3>2 DEF q
      <3> QED BY <2>1, <2>5, <3>3
    <2> QED BY <2>4, <2>5
  <1> QED BY <1>7, <1>8, <1>9 DEF NoLockIsLeaked, InRefresh

\* A step of one request leaves the others' variables alone.
LEMMA OthersStay ==
    ASSUME IInv, NEW r \in Requests, NEW s \in Requests, s # r,
           Load(r) \/ Unlocked(r) \/ Locked(r)
    PROVE  pc'[s] = pc[s] /\ cred'[s] = cred[s] /\ seen'[s] = seen[s]
           /\ got'[s] = got[s]
  <1>1. CASE Load(r) \/ Unlocked(r)
    BY <1>1 DEF Load, Unlocked, ServeSecret, ServeCached, ServeApiKey,
       Unresolvable, QueueForLock, Return, IInv, TypeOK
  <1>2. CASE Reread(r) \/ Adopt(r) \/ SendRefresh(r) \/ Redeem(r) \/ Store(r)
    BY <1>2 DEF Reread, Adopt, SendRefresh, Redeem, Store, Step, IInv, TypeOK
  <1>3. CASE \/ RereadFails(r) \/ ServeRefreshed(r) \/ Unreadable(r) \/ Refused(r)
             \/ ReplyLost(r) \/ StoreFails(r) \/ Commit(r) \/ CommitFails(r)
    BY <1>3 DEF RereadFails, ServeRefreshed, Unreadable, Refused, ReplyLost,
       StoreFails, Commit, CommitFails, FailLocked, Return, IInv, TypeOK
  <1> QED BY <1>1, <1>2, <1>3 DEF Locked

\* The steps of a request.
LEMMA RequestLeaksNothing ==
    ASSUME IInv, NoLockIsLeaked, NEW r \in Requests, Load(r) \/ Unlocked(r) \/ Locked(r)
    PROVE  NoLockIsLeaked'
  <1>1. \A s \in Requests \ {r} : pc'[s] = pc[s] /\ cred'[s] = cred[s]
    BY OthersStay
  <1>2. ASSUME UNCHANGED queue, ~InQueue(r), pc'[r] # "waiting" PROVE NoLockIsLeaked'
    BY <1>1, <1>2, QueuesRest DEF InQueue, InRefresh
  <1>3. ASSUME UNCHANGED queue, InRefresh(r), InRefresh(r)', cred'[r] = cred[r]
        PROVE  NoLockIsLeaked'
    BY <1>1, <1>3, QueuesRest DEF InQueue, InRefresh
  <1>4. CASE Load(r)
    BY <1>2, <1>4 DEF Load, InQueue, InRefresh, IInv, TypeOK
  <1>5. CASE QueueForLock(r)
    BY <1>5, QueueGrows
  <1>6. CASE ServeSecret(r) \/ ServeCached(r) \/ ServeApiKey(r) \/ Unresolvable(r)
    BY <1>2, <1>6 DEF ServeSecret, ServeCached, ServeApiKey, Unresolvable, MustRefresh,
       Return, InQueue, InRefresh, IInv, TypeOK
  <1>7. CASE Reread(r)
    <2>1. /\ UNCHANGED <<queue, cred>> /\ pc[r] = "waiting" /\ Holds(r)
          /\ pc'[r] = "reread"
      BY <1>7 DEF Reread, Step, IInv, TypeOK
    <2> QED BY <1>1, <2>1, QueuesRest DEF InRefresh
  <1>8. CASE Adopt(r) \/ SendRefresh(r) \/ Redeem(r) \/ Store(r)
    BY <1>3, <1>8 DEF Adopt, SendRefresh, Redeem, Store, Step, InRefresh, IInv, TypeOK
  <1>9. CASE \/ RereadFails(r) \/ ServeRefreshed(r) \/ Unreadable(r) \/ Refused(r)
             \/ ReplyLost(r) \/ StoreFails(r) \/ Commit(r) \/ CommitFails(r)
    <2>1. /\ pc[r] # "idle" /\ Release(r)
          /\ Return(r, "token") \/ Return(r, "error")
          /\ InRefresh(r) \/ Holds(r)
      BY <1>9 DEF RereadFails, ServeRefreshed, Unreadable, Refused, ReplyLost,
         StoreFails, Commit, CommitFails, FailLocked, InRefresh
    <2>2. Holds(r)
      BY <2>1 DEF IInv, Placed, Place
    <2> QED BY <2>1, <2>2, QueueShrinks
  <1> QED BY <1>4, <1>5, <1>6, <1>7, <1>8, <1>9 DEF Unlocked, Locked

\* Whatever fails, is edited or deleted, and whenever the process dies: a lock
\* is held only by a request that is still inside, so the next waiter's turn
\* comes when that request leaves.
THEOREM LocksAreLeft == Spec => []NoLockIsLeaked
  <1>1. Init => NoLockIsLeaked
    BY DEF Init, NoLockIsLeaked
  <1>2. IInv /\ NoLockIsLeaked /\ [Next]_vars => NoLockIsLeaked'
    <2> SUFFICES ASSUME IInv, NoLockIsLeaked, [Next]_vars PROVE NoLockIsLeaked'
      OBVIOUS
    <2>1. ASSUME NEW r \in Requests, Load(r) \/ Unlocked(r) \/ Locked(r)
          PROVE  NoLockIsLeaked'
      BY <2>1, RequestLeaksNothing
    <2>2. CASE \/ \E c \in Creds : AdminCreate(c)
               \/ \E a \in Admins : AdminStep(a)
               \/ \E f \in Files : CliRefresh(f) \/ Expire(f)
               \/ UNCHANGED vars
      <3>1. UNCHANGED <<queue, pc, cred>>
        BY <2>2 DEF AdminCreate, AdminStep, AdminLoad, AdminUpdate, AdminDelete,
           AdminFails, CliRefresh, Expire, request, vars
      <3> QED BY <3>1, QueuesRest DEF InRefresh
    <2>3. CASE Crash
      BY <2>3 DEF Crash, NoLockIsLeaked
    <2> QED BY <2>1, <2>2, <2>3 DEF Next
  <1> QED BY <1>1, <1>2, Invariance, PTL DEF Spec


-----------------------------------------------------------------------------
(* Freshness.  Only the holder of the lock can put a token into the row, so *)
(* what it saw there stays true, or the token is dropped, until it commits. *)

Kept(r) ==
    /\ InRefresh(r) => rows[cred[r]].token \in {seen[r].token, NoToken}
    /\ PastFile(r) => ~_is_fresh(seen[r].token)
    /\ pc[r] \in {"answered", "commit"} /\ seen[r].token.grant = seen[r].path
          => got[r].access >= seen[r].token.gen

FInv ==
    /\ IInv
    /\ \A f \in Files : expired[f] <= issued[f]
    /\ \A r \in Requests : Kept(r)

\* Unless a refresh commits, tokens stay as they are or are dropped.
LEMMA TokensAreDropped ==
    ASSUME IInv, [Next]_vars, \A r \in Requests : ~Commit(r), NEW c \in Creds
    PROVE  rows'[c].token \in {rows[c].token, NoToken}
  <1>1. ASSUME NEW a \in Admins, AdminUpdate(a)
        PROVE  rows'[c].token \in {rows[c].token, NoToken}
    BY <1>1 DEF AdminUpdate, Edited, Written, IInv, TypeOK
  <1>2. ASSUME NEW a \in Admins, AdminDelete(a)
        PROVE  rows'[c].token \in {rows[c].token, NoToken}
    <2>1. rows[c] \in Row /\ [rows[c] EXCEPT !.life = "gone"].token = rows[c].token
      BY DEF IInv, TypeOK, Row
    <2>2. rows' = [rows EXCEPT ![adminCred[a]].life = "gone"]
      BY <1>2 DEF AdminDelete
    <2> QED BY <2>1, <2>2 DEF IInv, TypeOK
  <1>3. ASSUME NEW d \in Creds, AdminCreate(d)
        PROVE  rows'[c].token \in {rows[c].token, NoToken}
    BY <1>3 DEF AdminCreate, IInv, TypeOK
  <1>4. ASSUME NEW r \in Requests, Load(r) \/ Unlocked(r) PROVE rows' = rows
    BY <1>4 DEF Load, Unlocked, ServeSecret, ServeCached, ServeApiKey,
                Unresolvable, QueueForLock
  <1>5. ASSUME NEW r \in Requests, Locked(r) PROVE rows' = rows
    BY <1>5 DEF Locked, Reread, RereadFails, ServeRefreshed, Unreadable, Adopt,
                SendRefresh, Redeem, ReplyLost, Refused, Store, StoreFails,
                CommitFails, FailLocked
  <1>6. ASSUME NEW a \in Admins, AdminLoad(a) \/ AdminFails(a) PROVE rows' = rows
    BY <1>6 DEF AdminLoad, AdminFails
  <1>7. ASSUME NEW f \in Files, CliRefresh(f) \/ Expire(f) PROVE rows' = rows
    BY <1>7 DEF CliRefresh, Expire
  <1>8. Crash \/ UNCHANGED vars => rows' = rows
    BY DEF Crash, vars
  <1> QED
    BY <1>1, <1>2, <1>3, <1>4, <1>5, <1>6, <1>7, <1>8 DEF Next, AdminStep

\* The endpoint's counters only grow, and no token expires unissued.
LEMMA CountersGrow ==
    ASSUME IInv, [Next]_vars, \A f \in Files : expired[f] <= issued[f],
           NEW f \in Files
    PROVE  /\ expired'[f] >= expired[f]
           /\ expired'[f] <= issued'[f]
  <1>1. ASSUME NEW g \in Files, NEW rotate \in BOOLEAN, Issue(g, rotate),
               UNCHANGED expired
        PROVE  expired'[f] >= expired[f] /\ expired'[f] <= issued'[f]
    BY <1>1 DEF Issue, IInv, TypeOK
  <1>2. ASSUME UNCHANGED <<expired, issued>>
        PROVE  expired'[f] >= expired[f] /\ expired'[f] <= issued'[f]
    BY <1>2 DEF IInv, TypeOK
  <1>3. ASSUME NEW r \in Requests, Load(r) \/ Unlocked(r)
        PROVE  UNCHANGED <<expired, issued>>
    BY <1>3 DEF Load, Unlocked, ServeSecret, ServeCached, ServeApiKey,
                Unresolvable, QueueForLock, environment
  <1>4. ASSUME NEW r \in Requests, Redeem(r) \/ ReplyLost(r)
        PROVE  expired'[f] >= expired[f] /\ expired'[f] <= issued'[f]
    <2>1. seen[r].path \in Files
      BY <1>4 DEF Redeem, ReplyLost, Step, IInv, Placed, Place, PastFile, HasTokens
    <2> QED BY <1>1, <1>4, <2>1 DEF Redeem, ReplyLost
  <1>5. ASSUME NEW r \in Requests, Locked(r), ~Redeem(r), ~ReplyLost(r)
        PROVE  UNCHANGED <<expired, issued>>
    BY <1>5 DEF Locked, Reread, RereadFails, ServeRefreshed, Unreadable, Adopt,
                SendRefresh, Refused, Store, StoreFails, Commit, CommitFails,
                FailLocked, environment
  <1>6. ASSUME NEW g \in Files, CliRefresh(g)
        PROVE  expired'[f] >= expired[f] /\ expired'[f] <= issued'[f]
    BY <1>1, <1>6 DEF CliRefresh
  <1>7. ASSUME NEW g \in Files, Expire(g)
        PROVE  expired'[f] >= expired[f] /\ expired'[f] <= issued'[f]
    BY <1>7 DEF Expire, IInv, TypeOK
  <1>8. ASSUME (\E c \in Creds : AdminCreate(c)) \/ (\E a \in Admins : AdminStep(a))
               \/ Crash \/ UNCHANGED vars
        PROVE  UNCHANGED <<expired, issued>>
    BY <1>8 DEF AdminCreate, AdminStep, AdminLoad, AdminUpdate, AdminDelete,
                AdminFails, Crash, vars, environment
  <1> QED
    BY <1>2, <1>3, <1>4, <1>5, <1>6, <1>7, <1>8 DEF Next

\* A token that was stale stays stale.
LEMMA StaleStays ==
    ASSUME IInv, [Next]_vars, \A f \in Files : expired[f] <= issued[f],
           NEW t \in Token \cup {NoToken}, ~_is_fresh(t), IInv'
    PROVE  ~(t # NoToken /\ t.gen > expired'[t.grant])
  <1>1. CASE t \in Token
    <2>1. t.grant \in Files /\ t.gen \in Nat
      BY <1>1 DEF Token
    <2>2. expired'[t.grant] >= expired[t.grant]
      BY <2>1, CountersGrow
    <2>3. expired'[t.grant] \in Nat /\ expired[t.grant] \in Nat
      BY <2>1 DEF IInv, TypeOK
    <2> QED BY <2>1, <2>2, <2>3 DEF _is_fresh
  <1> QED BY <1>1


\* What does not move a request keeps what it knows.
LEMMA OtherKept ==
    ASSUME FInv, IInv', [Next]_vars, NEW s \in Requests,
           pc'[s] = pc[s], cred'[s] = cred[s], seen'[s] = seen[s], got'[s] = got[s],
           InRefresh(s) => rows'[cred[s]].token \in {rows[cred[s]].token, NoToken}
    PROVE  Kept(s)'
  <1>1. PastFile(s) => ~(seen[s].token # NoToken
                         /\ seen[s].token.gen > expired'[seen[s].token.grant])
    <2>1. seen[s].token \in Token \cup {NoToken}
      BY DEF FInv, IInv, TypeOK, Row
    <2> QED BY <2>1, StaleStays DEF FInv, Kept
  <1>2. PastFile(s)' => ~_is_fresh(seen[s].token)'
    BY <1>1 DEF PastFile, _is_fresh
  <1>3. InRefresh(s)' => rows'[cred'[s]].token \in {seen'[s].token, NoToken}
    BY DEF FInv, Kept, InRefresh
  <1> QED BY <1>2, <1>3 DEF FInv, Kept

\* The request that takes a step keeps it too.
LEMMA SelfKept ==
    ASSUME FInv, IInv', [Next]_vars, NEW r \in Requests,
           Load(r) \/ Unlocked(r) \/ Locked(r)
    PROVE  Kept(r)'
  <1> DEFINE f == seen[r].path
             t == seen[r].token
  <1>1. Kept(r) /\ Place(r)
    BY DEF FInv, IInv, Placed
  <1>2. t \in Token \cup {NoToken} /\ f \in Files \cup {NoFile}
    BY DEF FInv, IInv, TypeOK, Row
  <1>3. ASSUME ~InRefresh(r)', ~PastFile(r)' PROVE Kept(r)'
    BY <1>3 DEF Kept, InRefresh, PastFile
  <1>4. CASE Load(r) \/ Unlocked(r)
    <2>1. pc'[r] \in {"idle", "loaded", "waiting"}
      BY <1>4 DEF Load, Unlocked, ServeSecret, ServeCached, ServeApiKey,
         Unresolvable, QueueForLock, Return, FInv, IInv, TypeOK
    <2> QED BY <2>1, <1>3 DEF InRefresh, PastFile
  <1>5. CASE Reread(r)
    <2>1. pc'[r] = "reread" /\ cred' = cred /\ rows' = rows
          /\ seen'[r] = rows[cred[r]]
      BY <1>5 DEF Reread, Step, FInv, IInv, TypeOK
    <2> QED BY <2>1 DEF Kept, InRefresh, PastFile
  <1>6. ASSUME pc[r] = "reread" \/ PastFile(r), ~_is_fresh(t), PastFile(r)',
               UNCHANGED <<rows, expired, cred, seen>>,
               pc'[r] \in {"answered", "commit"} /\ t.grant = f
                  => got'[r].access >= t.gen
        PROVE  Kept(r)'
    BY <1>1, <1>6 DEF Kept, InRefresh, PastFile, _is_fresh
  <1>7. ASSUME ~_is_fresh(t), t.grant = f, f \in Files
        PROVE  t.gen \in Nat /\ t.gen <= expired[f] /\ expired[f] \in Nat
    BY <1>2, <1>7 DEF _is_fresh, Token, NoToken, FilesAssumption, FInv, IInv, TypeOK
  <1>8. CASE Adopt(r)
    <2>1. f \in Files /\ files[f].access \in Nat /\ files[f].access > expired[f]
      BY <1>8 DEF Adopt, HasTokens, _is_fresh, FileToken, FInv, IInv, TypeOK, File
    <2>2. got'[r].access = files[f].access /\ pc'[r] = "commit"
      BY <1>8 DEF Adopt, Step, FInv, IInv, TypeOK
    <2>3. ~_is_fresh(t)
      BY <1>8 DEF Adopt
    <2>4. t.grant = f => got'[r].access >= t.gen
      BY <1>7, <2>1, <2>2, <2>3
    <2> QED BY <1>6, <1>8, <2>2, <2>3, <2>4
            DEF Adopt, Step, PastFile, environment
  <1>9. CASE SendRefresh(r)
    <2>1. pc'[r] = "exchange"
      BY <1>9 DEF SendRefresh, Step, FInv, IInv, TypeOK
    <2> QED BY <1>6, <1>9, <2>1 DEF SendRefresh, Step, PastFile, environment
  <1>10. CASE Redeem(r)
    <2>1. f \in Files /\ ~_is_fresh(t)
      BY <1>1, <1>10 DEF Redeem, Step, Place, Kept, PastFile, HasTokens
    <2>2. got'[r].access = issued[f] + 1 /\ pc'[r] = "answered"
      BY <1>10 DEF Redeem, Step, FInv, IInv, TypeOK
    <2>3. issued[f] \in Nat /\ expired[f] <= issued[f]
      BY <2>1 DEF FInv, IInv, TypeOK
    <2>4. t.grant = f => got'[r].access >= t.gen
      BY <1>7, <2>1, <2>2, <2>3
    <2> QED BY <1>6, <1>10, <2>1, <2>2, <2>4 DEF Redeem, Step, PastFile
  <1>11. CASE Store(r)
    <2>1. pc'[r] = "commit" /\ pc[r] = "answered" /\ got' = got
      BY <1>11 DEF Store, Step, FInv, IInv, TypeOK
    <2>2. ~_is_fresh(t) /\ (t.grant = f => got[r].access >= t.gen)
      BY <1>1, <2>1 DEF Kept, PastFile
    <2> QED BY <1>6, <1>11, <2>1, <2>2 DEF Store, PastFile
  <1>12. ASSUME pc'[r] = "idle" PROVE Kept(r)'
    BY <1>12, <1>3 DEF InRefresh, PastFile
  <1>13. CASE \/ RereadFails(r) \/ ServeRefreshed(r) \/ Unreadable(r) \/ Refused(r)
              \/ ReplyLost(r) \/ StoreFails(r) \/ Commit(r) \/ CommitFails(r)
    <2>1. pc'[r] = "idle"
      BY <1>13 DEF RereadFails, ServeRefreshed, Unreadable, Refused, ReplyLost,
         StoreFails, Commit, CommitFails, FailLocked, Return, FInv, IInv, TypeOK
    <2> QED BY <2>1, <1>12
  <1> QED BY <1>4, <1>5, <1>8, <1>9, <1>10, <1>11, <1>13 DEF Locked

\* Freshness is kept by every step: a commit reaches only its own credential,
\* and nobody else is past that credential's lock.
LEMMA FreshnessStep == FInv /\ IInv' /\ [Next]_vars => FInv'
  <1> SUFFICES ASSUME FInv, IInv', [Next]_vars PROVE FInv'
    OBVIOUS
  <1>1. IInv /\ \A f \in Files : expired[f] <= issued[f]
    BY DEF FInv
  <1>2. \A f \in Files : expired'[f] <= issued'[f]
    BY <1>1, CountersGrow
  <1>3. ASSUME NEW r \in Requests, Load(r) \/ Unlocked(r) \/ Locked(r)
        PROVE  \A s \in Requests : Kept(s)'
    <2>1. Kept(r)'
      BY <1>3, SelfKept
    <2>2. ASSUME NEW s \in Requests, s # r PROVE Kept(s)'
      <3>1. /\ pc'[s] = pc[s] /\ cred'[s] = cred[s]
            /\ seen'[s] = seen[s] /\ got'[s] = got[s]
        BY <1>1, <1>3, <2>2, OthersStay
      <3>2. ASSUME InRefresh(s)
            PROVE  rows'[cred[s]].token \in {rows[cred[s]].token, NoToken}
        <4>1. cred[s] \in Creds /\ Holds(s)
          BY <1>1, <3>2 DEF IInv, Placed, Place, InRefresh
        <4>2. CASE Commit(r)
          <5>1. InRefresh(r)
            BY <4>2 DEF Commit, InRefresh
          <5>2. Holds(r)
            BY <1>1, <5>1 DEF IInv, Placed, Place
          <5>3. cred[r] # cred[s]
            BY <2>2, <4>1, <5>2 DEF Holds
          <5>4. rows'[cred[s]] = rows[cred[s]]
            BY <1>1, <4>1, <4>2, <5>3 DEF Commit, IInv, TypeOK
          <5> QED BY <5>4
        <4>3. CASE ~Commit(r)
          <5>1. CASE rows' = rows
            BY <5>1
          <5>2. Load(r) \/ Unlocked(r) => rows' = rows
            BY DEF Load, Unlocked, ServeSecret, ServeCached, ServeApiKey,
               Unresolvable, QueueForLock
          <5>3. Locked(r) => rows' = rows
            BY <4>3 DEF Locked, Reread, RereadFails, ServeRefreshed, Unreadable,
               Adopt, SendRefresh, Redeem, ReplyLost, Refused, Store, StoreFails,
               CommitFails, FailLocked
          <5> QED BY <1>3, <5>1, <5>2, <5>3
        <4> QED BY <4>2, <4>3
      <3> QED BY <3>1, <3>2, OtherKept
    <2> QED BY <2>1, <2>2
  <1>4. ASSUME UNCHANGED <<pc, cred, seen, got>>, NEW s \in Requests,
               \A c \in Creds : rows'[c].token \in {rows[c].token, NoToken}
        PROVE  Kept(s)'
    <2>1. InRefresh(s) => cred[s] \in Creds
      BY <1>1 DEF IInv, Placed, Place, InRefresh
    <2> QED BY <1>4, <2>1, OtherKept
  <1>5. CASE \E c \in Creds : AdminCreate(c)
    <2>1. UNCHANGED <<pc, cred, seen, got>>
      BY <1>5 DEF AdminCreate, request
    <2>2. \A c \in Creds : rows'[c].token \in {rows[c].token, NoToken}
      BY <1>1, <1>5 DEF AdminCreate, IInv, TypeOK
    <2> QED BY <1>1, <1>2, <1>4, <2>1, <2>2 DEF FInv
  <1>6. CASE (\E a \in Admins : AdminStep(a)) \/ (\E f \in Files : CliRefresh(f) \/ Expire(f))
             \/ UNCHANGED vars
    <2>1. UNCHANGED <<pc, cred, seen, got>>
      BY <1>6 DEF AdminStep, AdminLoad, AdminUpdate, AdminDelete, AdminFails,
         CliRefresh, Expire, request, vars
    <2>2. ~\E r \in Requests : Commit(r)
      <3> SUFFICES ASSUME NEW r \in Requests, Commit(r) PROVE FALSE
        OBVIOUS
      <3>1. pc[r] = "commit" /\ pc'[r] = "idle"
        BY <1>1 DEF Commit, Return, IInv, TypeOK
      <3> QED BY <2>1, <3>1
    <2>3. \A c \in Creds : rows'[c].token \in {rows[c].token, NoToken}
      BY <1>1, <2>2, TokensAreDropped
    <2> QED BY <1>1, <1>2, <1>4, <2>1, <2>3 DEF FInv
  <1>7. CASE Crash
    BY <1>1, <1>2, <1>7 DEF Crash, FInv, Kept, InRefresh, PastFile
  <1> QED BY <1>1, <1>2, <1>3, <1>5, <1>6, <1>7 DEF FInv, Next

LEMMA Freshness == Spec => []FInv
  <1>1. Init /\ IInv => FInv
    BY DEF Init, FInv, Kept, InRefresh, PastFile
  <1> QED BY <1>1, FreshnessStep, Invariance, PTL DEF Spec

\* A refresh token is never spent while the row has a fresh token of its login.
THEOREM NoWastedExchange == Spec => []NoRedundantExchange
  <1>1. FInv => NoRedundantExchange
    BY DEF FInv, IInv, TypeOK, Placed, Place, Kept, NoRedundantExchange, InRefresh,
           PastFile, HasTokens, _is_fresh
  <1> QED BY <1>1, Freshness, PTL

\* A row's token is only replaced by a later one of the same login.
THEOREM TokensAdvance == Spec => TokensNeverRegress
  <1>1. FInv /\ [Next]_vars => [StepKeepsTokens]_vars
    <2> SUFFICES ASSUME FInv, [Next]_vars, NEW c \in Creds PROVE TokenAdvances(c)
      BY DEF StepKeepsTokens
    <2>1. IInv
      BY DEF FInv
    <2>2. rows[c].token \in Token \cup {NoToken}
      BY <2>1 DEF IInv, TypeOK, Row
    <2>3. rows[c].token # NoToken
            => rows[c].token.grant \in Files /\ rows[c].token.gen \in Nat
      BY <2>2 DEF Token
    <2>4. CASE rows'[c].token \in {rows[c].token, NoToken}
      BY <2>3, <2>4, FilesAssumption DEF TokenAdvances, NoToken
    <2>5. ASSUME NEW r \in Requests, Commit(r) PROVE TokenAdvances(c)
      <3>1. CASE c # cred[r]
        BY <2>1, <2>4, <2>5, <3>1 DEF Commit, IInv, TypeOK
      <3>2. CASE c = cred[r]
        <4>1. /\ rows[c].token \in {seen[r].token, NoToken}
              /\ seen[r].token.grant = seen[r].path
                    => got[r].access >= seen[r].token.gen
          BY <2>5, <3>2 DEF FInv, Kept, Commit, InRefresh
        <4>2. rows[c] \in Row
          BY <2>1 DEF IInv, TypeOK
        <4>3. [rows[c] EXCEPT !.token = Obtained(r)].token = Obtained(r)
          BY <4>2 DEF Row
        <4>4. rows'[c].token = Obtained(r)
          BY <2>1, <2>5, <3>2, <4>3 DEF Commit, IInv, TypeOK
        <4> QED BY <4>1, <4>4 DEF TokenAdvances, Obtained
      <3> QED BY <3>1, <3>2
    <2> QED BY <2>1, <2>4, <2>5, TokensAreDropped
  <1> QED BY <1>1, Freshness, PTL DEF Spec, TokensNeverRegress


-----------------------------------------------------------------------------
(* The grant.  A rotated refresh token exists in one place: the reply of    *)
(* the request that got it, until that request has written it to the file. *)

Pending(r) == pc[r] = "answered" /\ got[r].refresh > 0

GInv ==
    /\ GrantSurvives
    /\ \A f \in Files : files[f].refresh <= redeemable[f] /\ redeemable[f] <= issued[f]
    /\ \A r \in Requests :
        /\ pc[r] = "exchange" => got[r].refresh <= files[seen[r].path].refresh
        /\ Pending(r) => /\ seen[r].path \in CodexFiles
                         /\ got[r].refresh = redeemable[seen[r].path]
                         /\ files[seen[r].path].refresh < redeemable[seen[r].path]
    /\ \A r, s \in Requests :
        Pending(r) /\ Pending(s) /\ seen[r].path = seen[s].path => r = s

\* The types the arithmetic below needs.
LEMMA GrantTypes ==
    ASSUME TypeOK
    PROVE  /\ \A f \in Files : /\ files[f].refresh \in Nat \ {0}
                               /\ redeemable[f] \in Nat /\ issued[f] \in Nat
           /\ \A r \in Requests : got[r].refresh \in Nat
  BY DEF TypeOK, File, Got

\* A step that touches no file, no counter and no exchange keeps the grant.
LEMMA GrantUntouched ==
    ASSUME GInv, UNCHANGED <<files, redeemable, issued>>,
           \A s \in Requests :
             /\ pc'[s] = "answered" <=> pc[s] = "answered"
             /\ pc'[s] = "exchange" => pc[s] = "exchange"
             /\ pc'[s] \in {"exchange", "answered"}
                  => seen'[s] = seen[s] /\ got'[s] = got[s]
    PROVE  GInv'
  <1>1. \A s \in Requests : Pending(s)' => Pending(s)
    BY DEF Pending
  <1>2. GrantSurvives'
    BY DEF GInv, GrantSurvives
  <1> QED BY <1>1, <1>2 DEF GInv, Pending

\* The request about to redeem holds the file's own token, so no rotated
\* token of that login is pending.
LEMMA GrantRedeem ==
    ASSUME IInv, GInv, NEW r \in Requests, Redeem(r)
    PROVE  GInv'
  <1> DEFINE f == seen[r].path
  <1>1. f \in Files /\ pc[r] = "exchange"
    BY DEF Redeem, Step, IInv, Placed, Place, PastFile, HasTokens
  <1>2. PICK rotate \in BOOLEAN :
          /\ Issue(f, rotate)
          /\ got' = [got EXCEPT ![r] =
                       [access |-> issued[f] + 1,
                        refresh |-> IF rotate THEN issued[f] + 1 ELSE 0]]
    BY DEF Redeem
  <1>3. got[r].refresh = redeemable[f] /\ files[f].refresh = redeemable[f]
    BY <1>1, GrantTypes DEF Redeem, GInv, IInv
  <1>4. \A s \in Requests : Pending(s) => seen[s].path # f
    BY <1>1, <1>3, GrantTypes DEF GInv, IInv
  <1>5. /\ files' = files /\ seen' = seen
        /\ \A s \in Requests \ {r} : pc'[s] = pc[s] /\ got'[s] = got[s]
        /\ pc'[r] = "answered"
        /\ got'[r].refresh = IF rotate THEN issued[f] + 1 ELSE 0
    BY <1>2 DEF Redeem, Step, IInv, TypeOK
  <1>6. /\ \A g \in Files \ {f} : redeemable'[g] = redeemable[g] /\ issued'[g] = issued[g]
        /\ issued'[f] = issued[f] + 1
        /\ redeemable'[f] = IF rotate THEN issued[f] + 1 ELSE redeemable[f]
        /\ rotate => f \in CodexFiles
    BY <1>1, <1>2 DEF Issue, IInv, TypeOK
  <1>7. \A g \in Files : files'[g].refresh <= redeemable'[g] /\ redeemable'[g] <= issued'[g]
    BY <1>1, <1>5, <1>6, GrantTypes DEF GInv, IInv
  <1>8. GrantSurvives'
    <2> SUFFICES ASSUME NEW g \in Files
                 PROVE  \/ files'[g].refresh = redeemable'[g]
                        \/ \E s \in Requests : /\ pc'[s] = "answered"
                                               /\ seen'[s].path = g
                                               /\ got'[s].refresh = redeemable'[g]
      BY DEF GrantSurvives
    <2>1. CASE g = f
      BY <1>1, <1>3, <1>5, <1>6, <2>1
    <2>2. CASE g # f
      <3>1. redeemable'[g] = redeemable[g] /\ files'[g] = files[g]
        BY <1>5, <1>6, <2>2
      <3>2. CASE files[g].refresh = redeemable[g]
        BY <3>1, <3>2
      <3>3. CASE files[g].refresh # redeemable[g]
        <4>1. PICK s \in Requests : /\ pc[s] = "answered"
                                    /\ seen[s].path = g
                                    /\ got[s].refresh = redeemable[g]
          BY <3>3 DEF GInv, GrantSurvives
        <4>2. s # r
          BY <1>1, <4>1
        <4> QED BY <1>5, <3>1, <4>1, <4>2
      <3> QED BY <3>2, <3>3
    <2> QED BY <2>1, <2>2
  <1>9. ASSUME NEW s \in Requests
        PROVE  /\ pc'[s] = "exchange" => got'[s].refresh <= files'[seen'[s].path].refresh
               /\ Pending(s)' => /\ seen'[s].path \in CodexFiles
                                 /\ got'[s].refresh = redeemable'[seen'[s].path]
                                 /\ files'[seen'[s].path].refresh < redeemable'[seen'[s].path]
    <2>1. CASE s = r
      BY <1>1, <1>3, <1>5, <1>6, <2>1, GrantTypes DEF Pending, GInv, IInv
    <2>2. CASE s # r
      <3>1. Pending(s)' => Pending(s) /\ seen[s].path # f
        BY <1>4, <1>5, <2>2 DEF Pending
      <3>2. Pending(s) => seen[s].path \in CodexFiles /\ seen[s].path \in Files
        BY FilesAssumption DEF GInv
      <3> QED BY <1>5, <1>6, <2>2, <3>1, <3>2 DEF GInv
    <2> QED BY <2>1, <2>2
  <1>10. ASSUME NEW s \in Requests, NEW t \in Requests, Pending(s)', Pending(t)',
                seen'[s].path = seen'[t].path
         PROVE  s = t
    <2>1. s # r => Pending(s) /\ seen[s].path # f
      BY <1>4, <1>5, <1>10 DEF Pending
    <2>2. t # r => Pending(t) /\ seen[t].path # f
      BY <1>4, <1>5, <1>10 DEF Pending
    <2> QED BY <1>5, <1>10, <2>1, <2>2 DEF GInv
  <1> QED BY <1>7, <1>8, <1>9, <1>10 DEF GInv


\* Writing the reply back moves the pending token into the file.
LEMMA GrantStore ==
    ASSUME IInv, GInv, NEW r \in Requests, Store(r)
    PROVE  GInv'
  <1> DEFINE f == seen[r].path
             new == Rewritten(files[f], got[r])
  <1>1. f \in Files /\ pc[r] = "answered" /\ (f \in CodexFiles <=> branch[r] = "openai_oauth")
    BY DEF Store, Step, IInv, Placed, Place, PastFile, HasTokens
  <1>2. /\ seen' = seen /\ got' = got /\ redeemable' = redeemable /\ issued' = issued
        /\ pc'[r] = "commit" /\ \A s \in Requests \ {r} : pc'[s] = pc[s]
    BY DEF Store, Step, IInv, TypeOK
  <1>3. \A s \in Requests : Pending(s)' => Pending(s) /\ s # r
    BY <1>2 DEF Pending
  <1>4. \A g \in Files \ {f} : files'[g] = files[g]
    BY <1>1 DEF Store, IInv, TypeOK
  <1>5. Pending(r) => /\ files'[f].refresh = redeemable[f]
                      /\ files[f].refresh < redeemable[f]
    <2> SUFFICES ASSUME Pending(r)
                 PROVE  files'[f].refresh = redeemable[f] /\ files[f].refresh < redeemable[f]
      OBVIOUS
    <2>1. f \in CodexFiles /\ got[r].refresh = redeemable[f] /\ got[r].refresh > 0
      BY DEF GInv, Pending
    <2>2. files' = [files EXCEPT ![f] = new]
      BY <1>1, <2>1 DEF Store
    <2>3. files'[f].refresh = redeemable[f]
      BY <1>1, <2>1, <2>2 DEF Rewritten, IInv, TypeOK
    <2> QED BY <2>3 DEF GInv
  <1>6. ~Pending(r) => files'[f].refresh = files[f].refresh
    <2> SUFFICES ASSUME ~Pending(r) PROVE files'[f].refresh = files[f].refresh
      OBVIOUS
    <2>1. got[r].refresh = 0
      BY <1>1, GrantTypes DEF Pending, IInv
    <2>2. new.refresh = files[f].refresh
      BY <2>1 DEF Rewritten
    <2>3. files' = files \/ files' = [files EXCEPT ![f] = new]
      BY DEF Store
    <2> QED BY <1>1, <2>2, <2>3 DEF IInv, TypeOK
  <1>7. /\ files'[f].refresh >= files[f].refresh
        /\ files'[f].refresh <= redeemable[f]
        /\ files'[f].refresh \in Nat
    BY <1>1, <1>5, <1>6, GrantTypes DEF GInv, IInv
  <1>8. GrantSurvives'
    <2> SUFFICES ASSUME NEW g \in Files
                 PROVE  \/ files'[g].refresh = redeemable'[g]
                        \/ \E s \in Requests : /\ pc'[s] = "answered"
                                               /\ seen'[s].path = g
                                               /\ got'[s].refresh = redeemable'[g]
      BY DEF GrantSurvives
    <2>1. CASE files[g].refresh = redeemable[g]
      BY <1>1, <1>2, <1>4, <1>7, <2>1, GrantTypes DEF IInv
    <2>2. CASE files[g].refresh # redeemable[g]
      <3>1. PICK s \in Requests : /\ pc[s] = "answered"
                                  /\ seen[s].path = g
                                  /\ got[s].refresh = redeemable[g]
        BY <2>2 DEF GInv, GrantSurvives
      <3>2. CASE s = r
        <4>1. Pending(r)
          BY <3>1, <3>2, GrantTypes DEF Pending, GInv, IInv
        <4> QED BY <1>2, <1>5, <3>1, <3>2, <4>1
      <3>3. CASE s # r
        BY <1>2, <3>1, <3>3
      <3> QED BY <3>2, <3>3
    <2> QED BY <2>1, <2>2
  <1>9. ASSUME NEW s \in Requests
        PROVE  /\ pc'[s] = "exchange" => got'[s].refresh <= files'[seen'[s].path].refresh
               /\ Pending(s)' => /\ seen'[s].path \in CodexFiles
                                 /\ got'[s].refresh = redeemable'[seen'[s].path]
                                 /\ files'[seen'[s].path].refresh < redeemable'[seen'[s].path]
    <2>1. ASSUME pc'[s] = "exchange"
          PROVE  got'[s].refresh <= files'[seen'[s].path].refresh
      <3>1. pc[s] = "exchange" /\ got[s].refresh <= files[seen[s].path].refresh
        BY <1>2, <2>1 DEF GInv
      <3>2. seen[s].path \in Files
        BY <3>1 DEF IInv, Placed, Place, PastFile, HasTokens
      <3> QED BY <1>2, <1>4, <1>7, <3>1, <3>2, GrantTypes DEF IInv
    <2>2. ASSUME Pending(s)'
          PROVE  /\ seen'[s].path \in CodexFiles
                 /\ got'[s].refresh = redeemable'[seen'[s].path]
                 /\ files'[seen'[s].path].refresh < redeemable'[seen'[s].path]
      <3>1. /\ Pending(s) /\ s # r /\ seen[s].path \in CodexFiles
            /\ got[s].refresh = redeemable[seen[s].path]
            /\ files[seen[s].path].refresh < redeemable[seen[s].path]
        BY <1>3, <2>2 DEF GInv
      <3>2. CASE seen[s].path = f
        <4>1. ~Pending(r)
          BY <3>1, <3>2 DEF GInv
        <4> QED BY <1>2, <1>6, <3>1, <3>2, <4>1
      <3>3. CASE seen[s].path # f
        BY <1>2, <1>4, <3>1, <3>3, FilesAssumption
      <3> QED BY <3>2, <3>3
    <2> QED BY <2>1, <2>2
  <1>10. \A s, t \in Requests :
           Pending(s)' /\ Pending(t)' /\ seen'[s].path = seen'[t].path => s = t
    BY <1>2, <1>3 DEF GInv
  <1>11. \A g \in Files : files'[g].refresh <= redeemable'[g] /\ redeemable'[g] <= issued'[g]
    BY <1>1, <1>2, <1>4, <1>7 DEF GInv
  <1> QED BY <1>8, <1>9, <1>10, <1>11 DEF GInv

\* The CLI can redeem only what its file holds, and writes back what it got.
LEMMA GrantCli ==
    ASSUME IInv, GInv, NEW f \in Files, CliRefresh(f)
    PROVE  GInv'
  <1>1. PICK rotate \in BOOLEAN :
          /\ Issue(f, rotate)
          /\ files' = [files EXCEPT ![f] = Rewritten(files[f],
                         [access |-> issued[f] + 1,
                          refresh |-> IF rotate THEN issued[f] + 1 ELSE 0])]
    BY DEF CliRefresh
  <1>2. files[f].refresh = redeemable[f] /\ UNCHANGED <<pc, seen, got>>
    BY DEF CliRefresh, request
  <1>3. \A s \in Requests : Pending(s) => seen[s].path # f
    BY <1>2, GrantTypes DEF GInv, IInv
  <1>4. /\ \A g \in Files \ {f} : /\ redeemable'[g] = redeemable[g]
                                  /\ issued'[g] = issued[g] /\ files'[g] = files[g]
        /\ issued'[f] = issued[f] + 1
        /\ redeemable'[f] = IF rotate THEN issued[f] + 1 ELSE redeemable[f]
    BY <1>1 DEF Issue, IInv, TypeOK
  <1>5. files'[f].refresh = redeemable'[f]
    <2>1. files'[f].refresh = IF rotate THEN issued[f] + 1 ELSE files[f].refresh
      BY <1>1, GrantTypes DEF Rewritten, IInv, TypeOK
    <2> QED BY <1>2, <1>4, <2>1
  <1>6. /\ files'[f].refresh >= files[f].refresh
        /\ redeemable'[f] <= issued'[f] /\ files'[f].refresh \in Nat
    BY <1>2, <1>4, <1>5, GrantTypes DEF GInv, IInv
  <1>7. GrantSurvives'
    BY <1>2, <1>4, <1>5 DEF GInv, GrantSurvives
  <1>8. \A s \in Requests : Pending(s)' <=> Pending(s)
    BY <1>2 DEF Pending
  <1>9. ASSUME NEW s \in Requests, pc[s] = "exchange"
        PROVE  got[s].refresh <= files'[seen[s].path].refresh
    <2>1. seen[s].path \in Files
      BY <1>9 DEF IInv, Placed, Place, PastFile, HasTokens
    <2> QED BY <1>4, <1>6, <1>9, <2>1, GrantTypes DEF GInv, IInv
  <1>10. ASSUME NEW s \in Requests, Pending(s)
         PROVE  /\ seen[s].path \in CodexFiles
                /\ got[s].refresh = redeemable'[seen[s].path]
                /\ files'[seen[s].path].refresh < redeemable'[seen[s].path]
    BY <1>3, <1>4, <1>10, FilesAssumption DEF GInv
  <1>11. \A g \in Files : files'[g].refresh <= redeemable'[g] /\ redeemable'[g] <= issued'[g]
    BY <1>4, <1>5, <1>6 DEF GInv
  <1> QED BY <1>2, <1>7, <1>8, <1>9, <1>10, <1>11 DEF GInv

\* With files the proxy can replace, no lost reply and no crash, the refresh
\* token that works is in the file or about to be written there.
THEOREM GrantIsKept ==
    ASSUME WritableFiles = Files, "crash" \notin Faults, "reply" \notin Faults,
           "disk" \notin Faults
    PROVE  Spec => []GrantSurvives
  <1>1. Init => GInv
    <2> SUFFICES ASSUME Init PROVE GInv
      OBVIOUS
    <2>1. \A f \in Files : files[f].refresh = 1 /\ redeemable[f] = 1 /\ issued[f] = 1
      BY DEF Init
    <2> QED BY <2>1 DEF Init, GInv, GrantSurvives, Pending
  <1>2. IInv /\ GInv /\ [Next]_vars => GInv'
    <2> SUFFICES ASSUME IInv, GInv, [Next]_vars PROVE GInv'
      OBVIOUS
    <2>1. ASSUME NEW r \in Requests, Load(r) \/ Unlocked(r) PROVE GInv'
      <3>1. UNCHANGED <<files, redeemable, issued>>
        BY <2>1 DEF Load, Unlocked, ServeSecret, ServeCached, ServeApiKey,
           Unresolvable, QueueForLock, environment
      <3>2. pc[r] \in {"idle", "loaded"} /\ pc'[r] \in {"idle", "loaded", "waiting"}
        BY <2>1 DEF Load, Unlocked, ServeSecret, ServeCached, ServeApiKey,
           Unresolvable, QueueForLock, MustRefresh, Return, IInv, TypeOK
      <3> QED BY <2>1, <3>1, <3>2, OthersStay, GrantUntouched
    <2>2. ASSUME NEW r \in Requests, Locked(r) PROVE GInv'
      <3>1. CASE SendRefresh(r)
        <4>1. /\ UNCHANGED <<files, redeemable, issued, seen>>
              /\ pc[r] = "reread" /\ pc'[r] = "exchange"
              /\ got'[r].refresh = files[seen[r].path].refresh
              /\ seen[r].path \in Files
          BY <3>1 DEF SendRefresh, Step, HasTokens, environment, IInv, TypeOK
        <4>2. \A s \in Requests : s # r => pc'[s] = pc[s] /\ got'[s] = got[s]
          BY <2>2, OthersStay
        <4>3. GrantSurvives'
          BY <4>1, <4>2 DEF GInv, GrantSurvives
        <4>4. \A s \in Requests : Pending(s)' => Pending(s) /\ s # r
          BY <4>1, <4>2 DEF Pending
        <4>5. files[seen[r].path].refresh <= files[seen[r].path].refresh
          BY <4>1, GrantTypes DEF IInv
        <4> QED BY <4>1, <4>2, <4>3, <4>4, <4>5 DEF GInv
      <3>2. CASE Redeem(r)
        BY <3>2, GrantRedeem
      <3>3. CASE Store(r)
        BY <3>3, GrantStore
      <3>4. CASE \/ Reread(r) \/ RereadFails(r) \/ ServeRefreshed(r) \/ Unreadable(r)
                 \/ Adopt(r) \/ Refused(r) \/ Commit(r) \/ CommitFails(r)
        <4>1. UNCHANGED <<files, redeemable, issued>>
          BY <3>4 DEF Reread, RereadFails, ServeRefreshed, Unreadable, Adopt,
             Refused, Commit, CommitFails, FailLocked, environment
        <4>2. pc[r] # "answered" /\ pc'[r] \in {"idle", "reread", "commit"}
          BY <3>4 DEF Reread, RereadFails, ServeRefreshed, Unreadable, Adopt,
             Refused, Commit, CommitFails, FailLocked, Return, Step, IInv, TypeOK
        <4> QED BY <2>2, <4>1, <4>2, OthersStay, GrantUntouched
      <3>5. CASE ReplyLost(r)
        BY <3>5 DEF ReplyLost
      <3>6. CASE StoreFails(r)
        <4>1. seen[r].path \in Files
          BY <3>6 DEF StoreFails, IInv, Placed, Place, PastFile, HasTokens
        <4> QED BY <3>6, <4>1 DEF StoreFails
      <3> QED BY <2>2, <3>1, <3>2, <3>3, <3>4, <3>5, <3>6 DEF Locked
    <2>3. CASE \/ \E c \in Creds : AdminCreate(c)
               \/ \E a \in Admins : AdminStep(a)
               \/ \E f \in Files : Expire(f)
               \/ UNCHANGED vars
      <3>1. UNCHANGED <<files, redeemable, issued, pc, seen, got>>
        BY <2>3 DEF AdminCreate, AdminStep, AdminLoad, AdminUpdate, AdminDelete,
           AdminFails, Expire, environment, request, vars
      <3> QED BY <3>1, GrantUntouched
    <2>4. ASSUME NEW f \in Files, CliRefresh(f) PROVE GInv'
      BY <2>4, GrantCli
    <2>5. ~Crash
      BY DEF Crash
    <2> QED BY <2>1, <2>2, <2>3, <2>4, <2>5 DEF Next
  <1>3. GInv => GrantSurvives
    BY DEF GInv
  <1> QED BY <1>1, <1>2, <1>3, Invariance, PTL DEF Spec


-----------------------------------------------------------------------------
(* One fresh token per credential.  With nobody editing rows and nothing    *)
(* failing, a token the endpoint issues for a login stays with the          *)
(* credential whose request redeemed it, in its row or on the way there.    *)

Quiet == Faults = {} /\ Admins = {} /\ CodexFiles \subseteq WritableFiles

\* A request works for a row that is still what it read.
Attached(r) ==
    pc[r] # "idle" => Live(cred[r]) /\ seen[r].path = rows[cred[r]].path

Carries(r, f, g) ==
    pc[r] \in {"answered", "commit"} /\ seen[r].path = f /\ got[r].access = g

\* Credential c has token g of login f, or is about to.
Has(c, f, g) ==
    /\ Live(c) /\ rows[c].path = f
    /\ \/ rows[c].token = [grant |-> f, gen |-> g]
       \/ \E r \in Requests : cred[r] = c /\ Carries(r, f, g)

\* The first token of a login came with it and need not be anybody's; no
\* other is issued while that one is fresh.
Owned(f) ==
    /\ issued[f] > 1 => expired[f] > 0
    /\ \A g \in Nat : expired[f] < g /\ g <= issued[f] /\ g > 1 =>
          \E c \in Creds : Has(c, f, g)

OInv ==
    /\ \A r \in Requests : Attached(r)
    /\ \A r \in Requests : pc[r] = "exchange" => expired[seen[r].path] > 0
    /\ \A f \in Files \ CliFiles : Owned(f)

\* What cannot happen then.
LEMMA QuietSteps ==
    ASSUME Quiet, IInv, OInv, NEW r \in Requests, Locked(r)
    PROVE  \/ Reread(r) \/ ServeRefreshed(r) \/ Unreadable(r) \/ Adopt(r)
           \/ SendRefresh(r) \/ Redeem(r) \/ Refused(r) \/ Store(r) \/ Commit(r)
  <1>1. ~RereadFails(r) /\ ~CommitFails(r)
    BY DEF RereadFails, CommitFails, Quiet, OInv, Attached
  <1>2. ~ReplyLost(r)
    BY DEF ReplyLost, Quiet
  <1>3. ~StoreFails(r)
    BY DEF StoreFails, Quiet, IInv, Placed, Place, PastFile, HasTokens
  <1> QED BY <1>1, <1>2, <1>3 DEF Locked

\* A live row keeps its path, and its token unless its own refresh commits.
LEMMA RowsStay ==
    ASSUME Quiet, IInv, [Next]_vars, NEW c \in Creds, Live(c)
    PROVE  /\ Live(c)' /\ rows'[c].path = rows[c].path
           /\ \/ rows'[c].token = rows[c].token
              \/ \E r \in Requests : Commit(r) /\ cred[r] = c
  <1>1. ASSUME NEW d \in Creds, AdminCreate(d) PROVE rows'[c] = rows[c]
    BY <1>1 DEF AdminCreate, Live, IInv, TypeOK
  <1>2. ASSUME NEW r \in Requests, Load(r) \/ Unlocked(r) PROVE rows' = rows
    BY <1>2 DEF Load, Unlocked, ServeSecret, ServeCached, ServeApiKey,
                Unresolvable, QueueForLock
  <1>3. ASSUME NEW r \in Requests, Locked(r), ~Commit(r) PROVE rows' = rows
    BY <1>3 DEF Locked, Reread, RereadFails, ServeRefreshed, Unreadable, Adopt,
                SendRefresh, Redeem, ReplyLost, Refused, Store, StoreFails,
                CommitFails, FailLocked
  <1>4. ASSUME NEW r \in Requests, Commit(r)
        PROVE  /\ rows'[c].life = rows[c].life /\ rows'[c].path = rows[c].path
               /\ rows'[c].token = rows[c].token \/ cred[r] = c
    <2>1. rows[c] \in Row /\ rows' = [rows EXCEPT ![cred[r]].token = Obtained(r)]
      BY <1>4 DEF Commit, IInv, TypeOK
    <2> QED BY <2>1 DEF IInv, TypeOK, Row
  <1>5. ASSUME NEW f \in Files, CliRefresh(f) \/ Expire(f) PROVE rows' = rows
    BY <1>5 DEF CliRefresh, Expire
  <1>6. Crash \/ UNCHANGED vars => rows' = rows
    BY DEF Crash, vars
  <1>7. Admins = {}
    BY DEF Quiet
  <1> QED
    BY <1>1, <1>2, <1>3, <1>4, <1>5, <1>6, <1>7 DEF Next, Live

\* A request stays attached to its row.
LEMMA AttachedStep ==
    ASSUME Quiet, IInv, OInv, [Next]_vars, NEW r \in Requests
    PROVE  Attached(r)'
  <1>1. ASSUME pc[r] # "idle", cred'[r] = cred[r], seen'[r] = seen[r]
        PROVE  Attached(r)'
    <2>1. Live(cred[r]) /\ cred[r] \in Creds /\ seen[r].path = rows[cred[r]].path
      BY <1>1 DEF OInv, Attached, Live
    <2> QED BY <1>1, <2>1, RowsStay DEF Attached, Live
  <1>2. ASSUME pc'[r] = "idle" PROVE Attached(r)'
    BY <1>2 DEF Attached
  <1>3. ASSUME pc'[r] = pc[r], cred'[r] = cred[r], seen'[r] = seen[r]
        PROVE  Attached(r)'
    BY <1>1, <1>2, <1>3
  <1>4. CASE Load(r)
    BY <1>4 DEF Load, Attached, Live, IInv, TypeOK
  <1>5. CASE Unlocked(r)
    BY <1>1, <1>2, <1>5 DEF Unlocked, ServeSecret, ServeCached, ServeApiKey,
       Unresolvable, QueueForLock, MustRefresh, Return, IInv, TypeOK
  <1>6. CASE Reread(r)
    BY <1>6 DEF Reread, Attached, Live, IInv, TypeOK
  <1>7. CASE Adopt(r) \/ SendRefresh(r) \/ Redeem(r) \/ Store(r)
    BY <1>1, <1>7 DEF Adopt, SendRefresh, Redeem, Store, Step
  <1>8. CASE ServeRefreshed(r) \/ Unreadable(r) \/ Refused(r) \/ Commit(r)
    BY <1>2, <1>8 DEF ServeRefreshed, Unreadable, Refused, Commit, FailLocked,
       Return, IInv, TypeOK
  <1>9. ASSUME NEW s \in Requests, Load(s) \/ Unlocked(s) \/ Locked(s) PROVE Attached(r)'
    <2>1. CASE s = r
      BY <1>4, <1>5, <1>6, <1>7, <1>8, <1>9, <2>1, QuietSteps
    <2>2. CASE s # r
      BY <1>3, <1>9, <2>2, OthersStay
    <2> QED BY <2>1, <2>2
  <1>10. CASE \/ \E c \in Creds : AdminCreate(c)
              \/ \E f \in Files : CliRefresh(f) \/ Expire(f)
              \/ UNCHANGED vars
    BY <1>3, <1>10 DEF AdminCreate, CliRefresh, Expire, request, vars
  <1>11. ~Crash /\ Admins = {}
    BY DEF Crash, Quiet
  <1> QED BY <1>9, <1>10, <1>11 DEF Next

\* A refresh token is only sent when the file's access token has expired.
LEMMA ExchangeStep ==
    ASSUME Quiet, FInv, OInv, [Next]_vars, IInv', NEW r \in Requests, pc'[r] = "exchange"
    PROVE  expired'[seen'[r].path] > 0
  <1>1. IInv /\ \A f \in Files : expired[f] <= issued[f]
    BY DEF FInv
  <1>2. ASSUME NEW f \in Files, expired[f] > 0 PROVE expired'[f] > 0
    <2>1. expired'[f] >= expired[f]
      BY <1>1, CountersGrow
    <2>2. expired'[f] \in Nat /\ expired[f] \in Nat
      BY <1>1 DEF IInv, TypeOK
    <2> QED BY <1>2, <2>1, <2>2
  <1>3. CASE SendRefresh(r)
    <2> DEFINE f == seen[r].path
    <2>1. f \in Files /\ ~_is_fresh(FileToken(f)) /\ UNCHANGED <<expired, seen>>
      BY <1>3 DEF SendRefresh, HasTokens, environment
    <2>2. FileToken(f) # NoToken
      BY <2>1, FilesAssumption DEF FileToken, NoToken
    <2>3. files[f].access \in Nat \ {0} /\ expired[f] \in Nat
      BY <1>1, <2>1 DEF IInv, TypeOK, File
    <2>4. ~(files[f].access > expired[f])
      BY <2>1, <2>2 DEF _is_fresh, FileToken
    <2> QED BY <2>1, <2>3, <2>4
  <1>4. ASSUME pc[r] = "exchange", seen'[r] = seen[r] PROVE expired'[seen'[r].path] > 0
    <2>1. seen[r].path \in Files /\ expired[seen[r].path] > 0
      BY <1>1, <1>4 DEF OInv, IInv, Placed, Place, PastFile, HasTokens
    <2> QED BY <1>2, <1>4, <2>1
  <1>5. ASSUME NEW s \in Requests, Load(s) \/ Unlocked(s) \/ Locked(s)
        PROVE  expired'[seen'[r].path] > 0
    <2>1. CASE s # r
      BY <1>1, <1>4, <1>5, <2>1, OthersStay
    <2>2. CASE s = r /\ ~SendRefresh(r)
      <3>1. Load(r) => pc'[r] = "loaded"
        BY <1>1 DEF Load, IInv, TypeOK
      <3>2. Unlocked(r) => pc'[r] \in {"idle", "waiting"}
        BY <1>1 DEF Unlocked, ServeSecret, ServeCached, ServeApiKey, Unresolvable,
           QueueForLock, Return, IInv, TypeOK
      <3>3. Locked(r) => pc'[r] \in {"idle", "reread", "answered", "commit"}
        BY <1>1, <2>2 DEF Locked, Reread, RereadFails, ServeRefreshed, Unreadable,
           Adopt, Redeem, ReplyLost, Refused, Store, StoreFails, Commit,
           CommitFails, FailLocked, Return, Step, IInv, TypeOK
      <3> QED BY <1>5, <2>2, <3>1, <3>2, <3>3
    <2> QED BY <1>3, <2>1, <2>2
  <1>6. CASE \/ \E c \in Creds : AdminCreate(c)
             \/ \E f \in Files : CliRefresh(f) \/ Expire(f)
             \/ UNCHANGED vars
    BY <1>4, <1>6 DEF AdminCreate, CliRefresh, Expire, request, vars
  <1>7. ~Crash /\ Admins = {}
    BY DEF Crash, Quiet
  <1> QED BY <1>5, <1>6, <1>7 DEF Next

\* A token is still had when neither the row nor the request has changed.
LEMMA HasStays ==
    ASSUME NEW c \in Creds, NEW f \in Files, NEW g \in Nat, Has(c, f, g),
           Live(c)', rows'[c].path = rows[c].path, rows'[c].token = rows[c].token,
           \A s \in Requests : cred[s] = c /\ Carries(s, f, g)
              => cred'[s] = c /\ Carries(s, f, g)'
    PROVE  Has(c, f, g)'
  BY DEF Has, Carries

\* While a request is past the file, its row's token is not fresh: so the
\* credential has one fresh token at most.
LEMMA RowIsStale ==
    ASSUME FInv, NEW r \in Requests, PastFile(r), NEW f \in Files, NEW g \in Nat,
           rows[cred[r]].token = [grant |-> f, gen |-> g]
    PROVE  g <= expired[f]
  <1>1. [grant |-> f, gen |-> g] # NoToken
    BY FilesAssumption DEF NoToken
  <1>2. ~_is_fresh([grant |-> f, gen |-> g])
    BY <1>1 DEF FInv, Kept, InRefresh, PastFile
  <1>3. expired[f] \in Nat
    BY DEF FInv, IInv, TypeOK
  <1> QED BY <1>1, <1>2, <1>3 DEF _is_fresh

LEMMA HasOne ==
    ASSUME FInv, NEW c \in Creds, NEW f \in Files, NEW g \in Nat, NEW h \in Nat,
           g > expired[f], h > expired[f], Has(c, f, g), Has(c, f, h)
    PROVE  g = h
  <1>1. expired[f] \in Nat
    BY DEF FInv, IInv, TypeOK
  <1>2. ASSUME NEW r \in Requests, NEW k \in Nat, cred[r] = c, Carries(r, f, k)
        PROVE  PastFile(r) /\ InRefresh(r)
    BY <1>2 DEF Carries, PastFile, InRefresh
  <1>3. ASSUME NEW r \in Requests, NEW k \in Nat, cred[r] = c, Carries(r, f, k),
               NEW j \in Nat, rows[c].token = [grant |-> f, gen |-> j]
        PROVE  j <= expired[f]
    BY <1>2, <1>3, RowIsStale
  <1>4. ASSUME NEW r \in Requests, NEW s \in Requests, InRefresh(r), InRefresh(s),
               cred[r] = cred[s]
        PROVE  r = s
    BY <1>4 DEF FInv, IInv, Placed, Place, Holds
  <1>5. CASE rows[c].token = [grant |-> f, gen |-> g]
    <2>1. CASE rows[c].token = [grant |-> f, gen |-> h]
      BY <1>5, <2>1
    <2>2. ASSUME NEW r \in Requests, cred[r] = c, Carries(r, f, h) PROVE FALSE
      BY <1>1, <1>3, <1>5, <2>2
    <2> QED BY <2>1, <2>2 DEF Has
  <1>6. ASSUME NEW r \in Requests, cred[r] = c, Carries(r, f, g) PROVE g = h
    <2>1. rows[c].token # [grant |-> f, gen |-> h]
      BY <1>1, <1>3, <1>6
    <2>2. PICK s \in Requests : cred[s] = c /\ Carries(s, f, h)
      BY <2>1 DEF Has
    <2>3. r = s
      BY <1>2, <1>4, <1>6, <2>2
    <2> QED BY <1>6, <2>2, <2>3 DEF Carries
  <1> QED BY <1>5, <1>6 DEF Has

\* A request keeps the token it carries until it commits it.
LEMMA CarryStep ==
    ASSUME Quiet, IInv, OInv, [Next]_vars, NEW s \in Requests, NEW f \in Files,
           NEW g \in Nat, Carries(s, f, g), ~Commit(s)
    PROVE  cred'[s] = cred[s] /\ Carries(s, f, g)'
  <1>1. ASSUME pc'[s] \in {"answered", "commit"}, cred'[s] = cred[s],
               seen'[s] = seen[s], got'[s] = got[s]
        PROVE  cred'[s] = cred[s] /\ Carries(s, f, g)'
    BY <1>1 DEF Carries
  <1>2. ASSUME NEW r \in Requests, Load(r) \/ Unlocked(r) \/ Locked(r)
        PROVE  cred'[s] = cred[s] /\ Carries(s, f, g)'
    <2>1. CASE r # s
      BY <1>1, <1>2, <2>1, OthersStay DEF Carries
    <2>2. CASE r = s
      <3>1. ~Load(s) /\ ~Unlocked(s)
        BY DEF Load, Unlocked, ServeSecret, ServeCached, ServeApiKey, Unresolvable,
           QueueForLock, MustRefresh, Carries
      <3>2. Store(s)
        BY <1>2, <2>2, <3>1, QuietSteps DEF Reread, ServeRefreshed, Unreadable, Adopt,
           SendRefresh, Redeem, Refused, Step, Carries
      <3> QED BY <1>1, <3>2 DEF Store, Step, Carries, IInv, TypeOK
    <2> QED BY <2>1, <2>2
  <1>3. CASE \/ \E c \in Creds : AdminCreate(c)
             \/ \E h \in Files : CliRefresh(h) \/ Expire(h)
             \/ UNCHANGED vars
    BY <1>1, <1>3 DEF AdminCreate, CliRefresh, Expire, request, vars, Carries
  <1>4. ~Crash /\ Admins = {}
    BY DEF Crash, Quiet
  <1> QED BY <1>2, <1>3, <1>4 DEF Next

\* A credential keeps the fresh token it has.
LEMMA HasStep ==
    ASSUME Quiet, FInv, OInv, [Next]_vars, NEW c \in Creds, NEW f \in Files,
           NEW g \in Nat, g > expired[f], Has(c, f, g)
    PROVE  Has(c, f, g)'
  <1>1. IInv /\ expired[f] \in Nat
    BY DEF FInv, IInv, TypeOK
  <1>2. Live(c) /\ rows[c].path = f
    BY DEF Has
  <1>3. Live(c)' /\ rows'[c].path = f
    BY <1>1, <1>2, RowsStay
  <1>4. ASSUME NEW r \in Requests, Commit(r), cred[r] = c PROVE Has(c, f, g)'
    <2>1. PastFile(r) /\ InRefresh(r)
      BY <1>4 DEF Commit, PastFile, InRefresh
    <2>2. rows[c].token # [grant |-> f, gen |-> g]
      BY <1>1, <1>4, <2>1, RowIsStale
    <2>3. PICK s \in Requests : cred[s] = c /\ Carries(s, f, g)
      BY <2>2 DEF Has
    <2>4. s = r
      BY <1>1, <1>4, <2>1, <2>3 DEF Carries, InRefresh, IInv, Placed, Place, Holds
    <2>5. Obtained(r) = [grant |-> f, gen |-> g]
      BY <2>3, <2>4 DEF Carries, Obtained
    <2>6. rows[c] \in Row /\ rows' = [rows EXCEPT ![c].token = Obtained(r)]
      BY <1>1, <1>4 DEF Commit, IInv, TypeOK
    <2>7. rows'[c].token = Obtained(r)
      BY <1>1, <2>6 DEF IInv, TypeOK, Row
    <2> QED BY <1>3, <2>5, <2>7 DEF Has
  <1>5. ASSUME ~\E r \in Requests : Commit(r) /\ cred[r] = c PROVE Has(c, f, g)'
    <2>1. rows'[c].token = rows[c].token
      BY <1>1, <1>2, <1>5, RowsStay
    <2>2. \A s \in Requests : cred[s] = c /\ Carries(s, f, g)
             => cred'[s] = c /\ Carries(s, f, g)'
      BY <1>1, <1>5, CarryStep
    <2> QED BY <1>2, <1>3, <2>1, <2>2, HasStays
  <1> QED BY <1>4, <1>5

\* Only a redemption issues a token of a login that no CLI refreshes.
LEMMA IssuedByRedeem ==
    ASSUME Quiet, IInv, OInv, [Next]_vars, NEW f \in Files \ CliFiles
    PROVE  \/ issued'[f] = issued[f]
           \/ \E r \in Requests : /\ Redeem(r) /\ seen[r].path = f
                                 /\ issued'[f] = issued[f] + 1
  <1>1. ASSUME NEW g \in Files, NEW rotate \in BOOLEAN, Issue(g, rotate)
        PROVE  IF g = f THEN issued'[f] = issued[f] + 1 ELSE issued'[f] = issued[f]
    BY <1>1 DEF Issue, IInv, TypeOK
  <1>2. ASSUME NEW r \in Requests, Redeem(r)
        PROVE  \/ issued'[f] = issued[f]
               \/ seen[r].path = f /\ issued'[f] = issued[f] + 1
    <2>1. seen[r].path \in Files
      BY <1>2 DEF Redeem, Step, IInv, Placed, Place, PastFile, HasTokens
    <2> QED BY <1>1, <1>2, <2>1 DEF Redeem
  <1>3. ASSUME NEW r \in Requests, Load(r) \/ Unlocked(r) PROVE issued' = issued
    BY <1>3 DEF Load, Unlocked, ServeSecret, ServeCached, ServeApiKey, Unresolvable,
                QueueForLock, environment
  <1>4. ASSUME NEW r \in Requests, Locked(r), ~Redeem(r) PROVE issued' = issued
    BY <1>4, QuietSteps DEF Reread, ServeRefreshed, Unreadable, Adopt, SendRefresh,
       Refused, Store, Commit, FailLocked, environment
  <1>5. ASSUME NEW g \in Files, CliRefresh(g) PROVE issued'[f] = issued[f]
    BY <1>1, <1>5 DEF CliRefresh
  <1>6. ASSUME NEW g \in Files, Expire(g) PROVE issued' = issued
    BY <1>6 DEF Expire
  <1>7. ASSUME NEW c \in Creds, AdminCreate(c) PROVE issued' = issued
    BY <1>7 DEF AdminCreate, environment
  <1>8. UNCHANGED vars => issued' = issued
    BY DEF vars, environment
  <1>9. ~Crash /\ Admins = {}
    BY DEF Crash, Quiet
  <1> QED BY <1>2, <1>3, <1>4, <1>5, <1>6, <1>7, <1>8, <1>9 DEF Next

\* What a login's endpoint issued is somebody's after the step too.
LEMMA OwnedStep ==
    ASSUME Quiet, FInv, OInv, [Next]_vars, IInv', NEW f \in Files \ CliFiles
    PROVE  Owned(f)'
  <1>1. IInv /\ (\A h \in Files : expired[h] <= issued[h])
    BY DEF FInv
  <1>2. expired[f] \in Nat /\ expired'[f] \in Nat /\ issued[f] \in Nat /\ issued'[f] \in Nat
    BY <1>1 DEF IInv, TypeOK
  <1>3. expired'[f] >= expired[f]
    BY <1>1, CountersGrow
  <1>4. Owned(f)
    BY DEF OInv
  <1>5. ASSUME NEW g \in Nat, expired'[f] < g, g <= issued[f], g > 1
        PROVE  \E c \in Creds : Has(c, f, g)'
    <2>1. expired[f] < g
      BY <1>2, <1>3, <1>5
    <2>2. PICK c \in Creds : Has(c, f, g)
      BY <1>4, <1>5, <2>1 DEF Owned
    <2>3. Has(c, f, g)'
      BY <2>1, <2>2, HasStep
    <2> QED BY <2>3
  <1>6. CASE issued'[f] = issued[f]
    <2>1. issued'[f] > 1 => expired'[f] > 0
      BY <1>2, <1>3, <1>4, <1>6 DEF Owned
    <2>2. \A g \in Nat : expired'[f] < g /\ g <= issued'[f] /\ g > 1 =>
             \E c \in Creds : Has(c, f, g)'
      BY <1>5, <1>6
    <2> QED BY <2>1, <2>2 DEF Owned
  <1>7. ASSUME NEW r \in Requests, Redeem(r), seen[r].path = f, issued'[f] = issued[f] + 1
        PROVE  Owned(f)'
    <2>1. expired[f] > 0 /\ pc[r] = "exchange" /\ Live(cred[r]) /\ rows[cred[r]].path = f
      BY <1>7 DEF Redeem, Step, OInv, Attached
    <2>2. expired'[f] > 0
      BY <1>2, <1>3, <2>1
    <2>3. ASSUME NEW c \in Creds, c = cred[r], NEW g \in Nat, g = issued[f] + 1
          PROVE  Has(c, f, g)'
      <3>1. Live(c)' /\ rows'[c].path = f
        BY <1>7, <2>1, <2>3 DEF Redeem, Live
      <3>2. PICK rotate \in BOOLEAN :
              got' = [got EXCEPT ![r] =
                        [access |-> g, refresh |-> IF rotate THEN g ELSE 0]]
        BY <1>7, <2>3 DEF Redeem
      <3>3. got'[r].access = g /\ pc'[r] = "answered" /\ UNCHANGED <<cred, seen>>
        BY <1>1, <1>7, <3>2 DEF Redeem, Step, IInv, TypeOK
      <3>4. Carries(r, f, g)' /\ cred'[r] = c
        BY <1>7, <2>3, <3>3 DEF Carries
      <3> QED BY <3>1, <3>4 DEF Has
    <2>4. cred[r] \in Creds
      BY <2>1 DEF Live
    <2>6. ASSUME NEW g \in Nat, expired'[f] < g, g <= issued'[f], g > 1
          PROVE  \E c \in Creds : Has(c, f, g)'
      <3>1. g <= issued[f] \/ g = issued[f] + 1
        BY <1>2, <1>7, <2>6
      <3> QED BY <1>5, <2>3, <2>4, <2>6, <3>1
    <2> QED BY <2>2, <2>6 DEF Owned
  <1> QED BY <1>1, <1>6, <1>7, IssuedByRedeem

LEMMA Ownership ==
    ASSUME Quiet
    PROVE  Spec => []OInv
  <1>1. Init => OInv
    <2> SUFFICES ASSUME Init PROVE OInv
      OBVIOUS
    <2>1. \A f \in Files : issued[f] = 1 /\ \A r \in Requests : pc[r] = "idle"
      BY DEF Init
    <2>2. \A r \in Requests : pc[r] = "idle"
      BY DEF Init
    <2> QED BY <2>1, <2>2 DEF OInv, Attached, Owned
  <1>2. OInv /\ FInv /\ IInv' /\ [Next]_vars => OInv'
    <2> SUFFICES ASSUME OInv, FInv, IInv', [Next]_vars PROVE OInv'
      OBVIOUS
    <2>1. \A r \in Requests : Attached(r)'
      BY AttachedStep DEF FInv
    <2>2. \A r \in Requests : pc'[r] = "exchange" => expired'[seen'[r].path] > 0
      BY ExchangeStep
    <2>3. \A f \in Files \ CliFiles : Owned(f)'
      BY OwnedStep
    <2> QED BY <2>1, <2>2, <2>3 DEF OInv
  <1> QED BY <1>1, <1>2, Freshness, Invariance, PTL DEF Spec

\* One owner each: there are no more fresh tokens than credentials.
LEMMA OwnersCount ==
    ASSUME IsFiniteSet(Creds), FInv, OInv
    PROVE  OneFreshToken
  <1> SUFFICES ASSUME NEW f \in Files \ CliFiles, issued[f] > expired[f] + 1
               PROVE  issued[f] <= expired[f] + Cardinality(Sharers(f))
    BY DEF OneFreshToken
  <1> DEFINE fresh == (expired[f] + 1)..issued[f]
             owner == [g \in fresh |-> CHOOSE c \in Creds : Has(c, f, g)]
  <1>1. expired[f] \in Nat /\ issued[f] \in Nat
    BY DEF FInv, IInv, TypeOK
  <1>2. expired[f] > 0
    BY <1>1 DEF OInv, Owned
  <1>3. \A g \in fresh : owner[g] \in Creds /\ Has(owner[g], f, g)
    <2> SUFFICES ASSUME NEW g \in fresh PROVE owner[g] \in Creds /\ Has(owner[g], f, g)
      OBVIOUS
    <2>1. g \in Nat /\ expired[f] < g /\ g <= issued[f] /\ g > 1
      BY <1>1, <1>2
    <2>2. \E c \in Creds : Has(c, f, g)
      BY <2>1 DEF OInv, Owned
    <2> QED BY <2>2
  <1>4. \A g \in fresh : owner[g] \in Sharers(f)
    BY <1>3 DEF Has, Sharers
  <1>5. \A g, h \in fresh : owner[g] = owner[h] => g = h
    <2> SUFFICES ASSUME NEW g \in fresh, NEW h \in fresh, owner[g] = owner[h] PROVE g = h
      OBVIOUS
    <2>1. g \in Nat /\ h \in Nat /\ g > expired[f] /\ h > expired[f]
      BY <1>1
    <2>2. owner[g] \in Creds /\ Has(owner[g], f, g) /\ Has(owner[g], f, h)
      BY <1>3
    <2> HIDE DEF owner
    <2> QED BY <2>1, <2>2, HasOne
  <1>6. owner \in [fresh -> Sharers(f)]
    BY <1>4
  <1>7. owner \in Injection(fresh, Sharers(f))
    <2> HIDE DEF owner, fresh
    <2> QED BY <1>5, <1>6 DEF Injection, IsInjective
  <1>8. IsFiniteSet(Sharers(f))
    BY FS_Subset DEF Sharers
  <1>9. Cardinality(fresh) <= Cardinality(Sharers(f))
    <2> HIDE DEF owner, fresh
    <2> QED BY <1>7, <1>8, FS_Injection
  <1>10. Cardinality(fresh) = issued[f] - expired[f]
    BY <1>1, FS_Interval
  <1>11. Cardinality(Sharers(f)) \in Nat
    BY <1>8, FS_CardinalityType
  <1> QED
    <2> HIDE DEF fresh
    <2> QED BY <1>1, <1>9, <1>10, <1>11

\* However many requests meet an expired token and however they interleave,
\* a login that only the proxy refreshes never has more fresh tokens than
\* credentials that use it, when nothing fails and nobody edits the rows.
THEOREM NoSpareTokens ==
    ASSUME Quiet, IsFiniteSet(Creds)
    PROVE  Spec => []OneFreshToken
  <1>1. FInv /\ OInv => OneFreshToken
    BY OwnersCount
  <1> QED BY <1>1, Freshness, Ownership, PTL

=============================================================================
