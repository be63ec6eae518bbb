------------------------- MODULE CredentialRefresh --------------------------
(***************************************************************************)
(* Upstream credentials: how a request turns a `credentials` row into a    *)
(* secret (app/credentials.py), refreshing and caching an OAuth access     *)
(* token under a lock, while the admin console edits the row               *)
(* (app/admin/credentials.py), the vendor's CLI refreshes the same login   *)
(* file, tokens expire and the process may die.                            *)
(*                                                                         *)
(* A request is cut at its awaits:                                         *)
(*                                                                         *)
(*     Load      resolve_deployment reads the row                          *)
(*     (sync)    serve what the row holds, fail, or queue for the lock     *)
(*     Reread    lock acquired; session.refresh(cred)                      *)
(*     (sync)    re-check, read the file, adopt its token or              *)
(*     Redeem    the token endpoint exchanges the refresh token            *)
(*     Store     the reply is written back to a Codex file                 *)
(*     Commit    access_token, expires_at, refreshed_at are committed      *)
(*                                                                         *)
(* An access token is named by the login file (the grant) it was issued    *)
(* for and a generation; tokens of one grant expire in the order they were *)
(* issued.  "Fresh" is _is_fresh: further than REFRESH_SKEW from expiry.   *)
(***************************************************************************)
EXTENDS Naturals, Sequences, FiniteSets

CONSTANTS
    Creds,          \* ids of the credentials table
    Requests,       \* proxied requests in progress
    Admins,         \* admin requests in progress
    Files,          \* login files a source_path can name
    CodexFiles,     \* those written by Codex; the others are Claude CLI files
    WritableFiles,  \* those the proxy may replace
    CliFiles,       \* those whose CLI is in use and refreshes on its own
    NoFile, NoCred,
    Faults,         \* what may go wrong: "crash", "reply", "database", "disk"
    MaxIssued       \* bound: access tokens issued per grant

ASSUME FilesAssumption ==
    /\ NoFile \notin Files
    /\ NoCred \notin Creds
    /\ CodexFiles \subseteq Files
    /\ WritableFiles \subseteq Files
    /\ CliFiles \subseteq Files
ASSUME MaxIssuedAssumption == MaxIssued \in Nat

VARIABLES
    rows,       \* the credentials table
    files,      \* the login files
    redeemable, \* endpoint: the refresh token of each grant it will accept
    issued,     \* endpoint: how many access tokens it issued per grant
    expired,    \* how many of them are no longer fresh
    queue,      \* _refresh_locks: holder first, then the waiters in order
    pc, cred, branch, seen, got, answer,    \* the requests
    adminPc, adminCred, adminSeen           \* the admin requests

environment == <<files, redeemable, issued, expired>>
request == <<pc, cred, branch, seen, got, answer>>
admin == <<adminPc, adminCred, adminSeen>>
vars == <<rows, environment, queue, request, admin>>

-----------------------------------------------------------------------------
(* Rows, tokens and files *)

Kinds == {"static", "anthropic_oauth", "openai_oauth"}
Token == [grant : Files, gen : Nat]
NoToken == [grant |-> NoFile, gen |-> 0]

Row == [life : {"unused", "live", "gone"}, kind : Kinds, secret : BOOLEAN,
        path : Files \cup {NoFile}, token : Token \cup {NoToken}]
NoRow == [life |-> "unused", kind |-> "static", secret |-> FALSE,
          path |-> NoFile, token |-> NoToken]

\* A login file that can be read; Unresolvable and Unreadable stand for the rest.
File == [apiKey : BOOLEAN, access : Nat \ {0}, refresh : Nat \ {0}]

\* What the current holder of the lock got from the file or the endpoint.
Got == [access : Nat, refresh : Nat]
Nothing == [access |-> 0, refresh |-> 0]

\* What resolve_secret returned, or that it raised.
Answer == {"none", "secret", "apikey", "token", "error"}

Live(c) == c \in Creds /\ rows[c].life = "live"

_is_fresh(t) == t # NoToken /\ t.gen > expired[t.grant]

\* What a row of each kind must have (create_ and update_credential).
WellFormed(kind, secret, path) ==
    CASE kind = "static"          -> secret /\ path = NoFile
      [] kind = "anthropic_oauth" -> secret \/ path # NoFile
      [] kind = "openai_oauth"    -> path # NoFile

\* The branch of resolve_secret that runs finds its tokens in the file: a
\* missing path and the other vendor's file raise.
HasTokens(b, f) == f \in Files /\ (f \in CodexFiles <=> b = "openai_oauth")

-----------------------------------------------------------------------------
(* Every login is good and its first access token fresh when the model      *)
(* starts; a Codex file may hold a plain API key as well.                   *)

Init ==
    /\ rows = [c \in Creds |-> NoRow]
    /\ files \in [Files -> {[apiKey |-> a, access |-> 1, refresh |-> 1] :
                              a \in BOOLEAN}]
    /\ \A f \in Files \ CodexFiles : ~files[f].apiKey
    /\ redeemable = [f \in Files |-> 1]
    /\ issued = [f \in Files |-> 1]
    /\ expired = [f \in Files |-> 0]
    /\ queue = [c \in Creds |-> <<>>]
    /\ pc = [r \in Requests |-> "idle"]
    /\ cred = [r \in Requests |-> NoCred]
    /\ branch = [r \in Requests |-> "static"]
    /\ seen = [r \in Requests |-> NoRow]
    /\ got = [r \in Requests |-> Nothing]
    /\ answer = [r \in Requests |-> "none"]
    /\ adminPc = [a \in Admins |-> "idle"]
    /\ adminCred = [a \in Admins |-> NoCred]
    /\ adminSeen = [a \in Admins |-> NoRow]

-----------------------------------------------------------------------------
(* The request, up to the lock *)

\* resolve_secret returns or raises; a held lock is released.
Return(r, how) ==
    /\ pc' = [pc EXCEPT ![r] = "idle"]
    /\ cred' = [cred EXCEPT ![r] = NoCred]
    /\ branch' = [branch EXCEPT ![r] = "static"]
    /\ seen' = [seen EXCEPT ![r] = NoRow]
    /\ got' = [got EXCEPT ![r] = Nothing]
    /\ answer' = [answer EXCEPT ![r] = how]

Release(r) == queue' = [queue EXCEPT ![cred[r]] = Tail(@)]

\* The model row and its credential are read; a deleted credential is no
\* longer attached to any model.
Load(r) ==
    /\ pc[r] = "idle"
    /\ \E c \in Creds :
        /\ Live(c)
        /\ pc' = [pc EXCEPT ![r] = "loaded"]
        /\ cred' = [cred EXCEPT ![r] = c]
        /\ branch' = [branch EXCEPT ![r] = rows[c].kind]
        /\ seen' = [seen EXCEPT ![r] = rows[c]]
        /\ answer' = [answer EXCEPT ![r] = "none"]
    /\ UNCHANGED <<rows, environment, queue, got, admin>>

\* A literal secret wins over everything but the openai_oauth kind.
Literal(row) == row.kind # "openai_oauth" /\ row.secret

ServeSecret(r) ==
    /\ pc[r] = "loaded"
    /\ Literal(seen[r])
    /\ Return(r, "secret")
    /\ UNCHANGED <<rows, environment, queue, admin>>

\* Only the openai_oauth branch asks for a path before it looks at the cache.
Resolvable(r) ==
    /\ seen[r].kind # "static" /\ ~Literal(seen[r])
    /\ seen[r].kind = "openai_oauth" => seen[r].path # NoFile

\* The cached token needs no file.
ServeCached(r) ==
    /\ pc[r] = "loaded"
    /\ Resolvable(r)
    /\ _is_fresh(seen[r].token)
    /\ Return(r, "token")
    /\ UNCHANGED <<rows, environment, queue, admin>>

MustRefresh(r) ==
    /\ pc[r] = "loaded"
    /\ Resolvable(r)
    /\ seen[r].path # NoFile
    /\ ~_is_fresh(seen[r].token)

\* The file holds a plain OPENAI_API_KEY.
ServeApiKey(r) ==
    /\ MustRefresh(r)
    /\ branch[r] = "openai_oauth"
    /\ seen[r].path \in CodexFiles
    /\ files[seen[r].path].apiKey
    /\ Return(r, "apikey")
    /\ UNCHANGED <<rows, environment, queue, admin>>

\* No source_path is left to read (overlapping edits can leave such a row,
\* see Written), or the Codex file, looked at before the lock, is unreadable.
Unresolvable(r) ==
    /\ pc[r] = "loaded"
    /\ ~Literal(seen[r])
    /\ Resolvable(r) => ~_is_fresh(seen[r].token)
    /\ Resolvable(r) /\ seen[r].path # NoFile => branch[r] = "openai_oauth"
    /\ Return(r, "error")
    /\ UNCHANGED <<rows, environment, queue, admin>>

QueueForLock(r) ==
    /\ MustRefresh(r)
    /\ branch[r] = "openai_oauth" =>
          ~(seen[r].path \in CodexFiles /\ files[seen[r].path].apiKey)
    /\ pc' = [pc EXCEPT ![r] = "waiting"]
    /\ queue' = [queue EXCEPT ![cred[r]] = Append(@, r)]
    /\ UNCHANGED <<rows, environment, cred, branch, seen, got, answer, admin>>

-----------------------------------------------------------------------------
(* The request, holding the lock *)

Holds(r) == queue[cred[r]] # <<>> /\ Head(queue[cred[r]]) = r

Step(r, from, to) == pc[r] = from /\ pc' = [pc EXCEPT ![r] = to]

\* Mutant: the lock is taken without a context manager.
FailLockedHolding(r) ==
    /\ Return(r, "error")
    /\ UNCHANGED <<rows, environment, queue, admin>>

\* Any exit with an error while the lock is held.
FailLocked(r) ==
    /\ Return(r, "error")
    /\ Release(r)
    /\ UNCHANGED <<rows, environment, admin>>

\* Mutant: no session.refresh after the wait.
RereadSkipped(r) ==
    /\ Step(r, "waiting", "reread")
    /\ Holds(r)
    /\ UNCHANGED <<rows, environment, queue, cred, branch, seen, got, answer, admin>>

\* session.refresh(cred) reads the row as it is now.
Reread(r) ==
    /\ Step(r, "waiting", "reread")
    /\ Holds(r)
    /\ Live(cred[r])
    /\ seen' = [seen EXCEPT ![r] = rows[cred[r]]]
    /\ UNCHANGED <<rows, environment, queue, cred, branch, got, answer, admin>>

\* The row is gone, or the database away.
RereadFails(r) ==
    /\ pc[r] = "waiting"
    /\ Holds(r)
    /\ ~Live(cred[r]) \/ "database" \in Faults
    /\ FailLocked(r)

\* Another request refreshed while this one queued.
ServeRefreshed(r) ==
    /\ pc[r] = "reread"
    /\ _is_fresh(seen[r].token)
    /\ Return(r, "token")
    /\ Release(r)
    /\ UNCHANGED <<rows, environment, admin>>

\* The file cannot be read as the kind the request started with.
Unreadable(r) ==
    /\ pc[r] = "reread"
    /\ ~_is_fresh(seen[r].token)
    /\ FailLocked(r)

FileToken(f) == [grant |-> f, gen |-> files[f].access]

\* The CLI refreshed on disk: its token is adopted.
Adopt(r) ==
    LET f == seen[r].path IN
    /\ Step(r, "reread", "commit")
    /\ ~_is_fresh(seen[r].token)
    /\ HasTokens(branch[r], f)
    /\ _is_fresh(FileToken(f))
    /\ got' = [got EXCEPT ![r] = [access |-> files[f].access, refresh |-> 0]]
    /\ UNCHANGED <<rows, environment, queue, cred, branch, seen, answer, admin>>

\* The file's refresh token is sent to the token endpoint.
SendRefresh(r) ==
    LET f == seen[r].path IN
    /\ Step(r, "reread", "exchange")
    /\ ~_is_fresh(seen[r].token)
    /\ HasTokens(branch[r], f)
    /\ ~_is_fresh(FileToken(f))
    /\ got' = [got EXCEPT ![r] = [access |-> 0, refresh |-> files[f].refresh]]
    /\ UNCHANGED <<rows, environment, queue, cred, branch, seen, answer, admin>>

\* The endpoint issues the next access token of grant f; OpenAI may rotate
\* the refresh token at the same time, and the old one is then spent.
Issue(f, rotate) ==
    /\ issued[f] < MaxIssued
    /\ rotate => f \in CodexFiles
    /\ issued' = [issued EXCEPT ![f] = @ + 1]
    /\ redeemable' = [redeemable EXCEPT ![f] = IF rotate THEN issued[f] + 1 ELSE @]

Redeem(r) ==
    LET f == seen[r].path IN
    /\ Step(r, "exchange", "answered")
    /\ got[r].refresh = redeemable[f]
    /\ \E rotate \in BOOLEAN :
        /\ Issue(f, rotate)
        /\ got' = [got EXCEPT ![r] =
                     [access |-> issued[f] + 1,
                      refresh |-> IF rotate THEN issued[f] + 1 ELSE 0]]
    /\ UNCHANGED <<rows, files, expired, queue, cred, branch, seen, answer, admin>>

\* The endpoint did its part and the reply never arrived.
ReplyLost(r) ==
    /\ "reply" \in Faults
    /\ pc[r] = "exchange"
    /\ got[r].refresh = redeemable[seen[r].path]
    /\ \E rotate \in BOOLEAN : Issue(seen[r].path, rotate)
    /\ Return(r, "error")
    /\ Release(r)
    /\ UNCHANGED <<rows, files, expired, admin>>

\* The endpoint refuses the refresh token, or cannot be reached.
Refused(r) ==
    /\ pc[r] = "exchange"
    /\ FailLocked(r)

\* Mutant: only the access token is written back.
RewrittenAccess(file, reply) ==
    [apiKey |-> file.apiKey, access |-> reply.access, refresh |-> file.refresh]

\* A reply without a refresh token leaves the file's.
Rewritten(file, reply) ==
    [apiKey |-> file.apiKey,
     access |-> reply.access,
     refresh |-> IF reply.refresh > 0 THEN reply.refresh ELSE file.refresh]

\* _write_codex_tokens puts the reply into the file, the rotated refresh
\* token included; a Claude file is never written.
Store(r) ==
    LET f == seen[r].path IN
    /\ Step(r, "answered", "commit")
    /\ \/ /\ branch[r] = "openai_oauth"
          /\ f \in WritableFiles
          /\ files' = [files EXCEPT ![f] = Rewritten(files[f], got[r])]
       \/ /\ branch[r] # "openai_oauth"
          /\ files' = files
    /\ UNCHANGED <<rows, redeemable, issued, expired, queue,
                   cred, branch, seen, got, answer, admin>>

\* The file cannot be replaced, because it is mounted read-only or the disk
\* is full: the error leaves resolve_secret.
StoreFails(r) ==
    /\ pc[r] = "answered"
    /\ branch[r] = "openai_oauth"
    /\ seen[r].path \notin WritableFiles \/ "disk" \in Faults
    /\ FailLocked(r)

Obtained(r) == [grant |-> seen[r].path, gen |-> got[r].access]

\* refreshed_at always changes, so an UPDATE is issued, by primary key alone:
\* it writes the token whatever became of the kind and path meanwhile.
Commit(r) ==
    /\ pc[r] = "commit"
    /\ Live(cred[r])
    /\ rows' = [rows EXCEPT ![cred[r]].token = Obtained(r)]
    /\ Return(r, "token")
    /\ Release(r)
    /\ UNCHANGED <<environment, admin>>

CommitFails(r) ==
    /\ pc[r] = "commit"
    /\ ~Live(cred[r]) \/ "database" \in Faults
    /\ FailLocked(r)

-----------------------------------------------------------------------------
(* The admin console *)

\* create_credential: a static credential has no path, a Codex one no secret.
AdminCreate(c) ==
    /\ rows[c].life = "unused"
    /\ \E k \in Kinds, s \in BOOLEAN, p \in Files \cup {NoFile} :
        /\ WellFormed(k, s, p)
        /\ k = "openai_oauth" => ~s
        /\ rows' = [rows EXCEPT ![c] = [life |-> "live", kind |-> k, secret |-> s,
                                        path |-> p, token |-> NoToken]]
    /\ UNCHANGED <<environment, queue, request, admin>>

\* update_ and delete_credential fetch the row they are about.
AdminLoad(a) ==
    /\ adminPc[a] = "idle"
    /\ \E c \in Creds :
        /\ Live(c)
        /\ adminPc' = [adminPc EXCEPT ![a] = "loaded"]
        /\ adminCred' = [adminCred EXCEPT ![a] = c]
        /\ adminSeen' = [adminSeen EXCEPT ![a] = rows[c]]
    /\ UNCHANGED <<rows, environment, queue, request>>

AdminReturn(a) ==
    /\ adminPc' = [adminPc EXCEPT ![a] = "idle"]
    /\ adminCred' = [adminCred EXCEPT ![a] = NoCred]
    /\ adminSeen' = [adminSeen EXCEPT ![a] = NoRow]

\* The form's fields over the row the handler loaded: a blank field keeps the
\* stored value, a static credential loses its path, and whatever changes the
\* secret's origin drops the cached token.
Edited(row, kind, secret, path) ==
    [life |-> row.life,
     kind |-> kind,
     secret |-> row.secret \/ secret,
     path |-> IF kind = "static" THEN NoFile
              ELSE IF path = NoFile THEN row.path ELSE path,
     token |-> IF kind # row.kind \/ secret \/ path # NoFile
               THEN NoToken ELSE row.token]

\* Mutant: every column is written as the handler has it.
WrittenWholeRow(row, from, to) == [to EXCEPT !.life = row.life]

\* The UPDATE names the columns that differ from what the handler loaded.
Written(row, from, to) ==
    [life |-> row.life,
     kind |-> IF to.kind # from.kind THEN to.kind ELSE row.kind,
     secret |-> row.secret \/ to.secret,
     path |-> IF to.path # from.path THEN to.path ELSE row.path,
     token |-> IF to.token # from.token THEN to.token ELSE row.token]

AdminUpdate(a) ==
    LET c == adminCred[a] IN
    /\ adminPc[a] = "loaded"
    /\ Live(c)
    /\ \E k \in Kinds, s \in BOOLEAN, p \in Files \cup {NoFile} :
        LET to == Edited(adminSeen[a], k, s, p) IN
        /\ WellFormed(to.kind, to.secret, to.path)
        /\ rows' = [rows EXCEPT ![c] = Written(rows[c], adminSeen[a], to)]
    /\ AdminReturn(a)
    /\ UNCHANGED <<environment, queue, request>>

\* The models and providers using it are detached in the same transaction.
AdminDelete(a) ==
    /\ adminPc[a] = "loaded"
    /\ rows' = [rows EXCEPT ![adminCred[a]].life = "gone"]
    /\ AdminReturn(a)
    /\ UNCHANGED <<environment, queue, request>>

\* A form that is refused, a row deleted meanwhile, a failed commit.
AdminFails(a) ==
    /\ adminPc[a] = "loaded"
    /\ AdminReturn(a)
    /\ UNCHANGED <<rows, environment, queue, request>>

-----------------------------------------------------------------------------
(* The environment *)

\* The vendor's CLI refreshes its login on the host, without the proxy's lock.
CliRefresh(f) ==
    /\ f \in CliFiles
    /\ files[f].refresh = redeemable[f]
    /\ \E rotate \in BOOLEAN :
        /\ Issue(f, rotate)
        /\ files' = [files EXCEPT ![f] = Rewritten(files[f],
                       [access |-> issued[f] + 1,
                        refresh |-> IF rotate THEN issued[f] + 1 ELSE 0])]
    /\ UNCHANGED <<rows, expired, queue, request, admin>>

\* The oldest token still fresh comes within REFRESH_SKEW of its expiry.
Expire(f) ==
    /\ expired[f] < issued[f]
    /\ expired' = [expired EXCEPT ![f] = @ + 1]
    /\ UNCHANGED <<rows, files, redeemable, issued, queue, request, admin>>

\* The process dies: requests and locks go, rows and files stay.
Crash ==
    /\ "crash" \in Faults
    /\ queue' = [c \in Creds |-> <<>>]
    /\ pc' = [r \in Requests |-> "idle"]
    /\ cred' = [r \in Requests |-> NoCred]
    /\ branch' = [r \in Requests |-> "static"]
    /\ seen' = [r \in Requests |-> NoRow]
    /\ got' = [r \in Requests |-> Nothing]
    /\ answer' = [r \in Requests |-> "none"]
    /\ adminPc' = [a \in Admins |-> "idle"]
    /\ adminCred' = [a \in Admins |-> NoCred]
    /\ adminSeen' = [a \in Admins |-> NoRow]
    /\ UNCHANGED <<rows, environment>>

-----------------------------------------------------------------------------
(* Specification *)

Unlocked(r) ==
    ServeSecret(r) \/ ServeCached(r) \/ ServeApiKey(r) \/ Unresolvable(r)
    \/ QueueForLock(r)

Locked(r) ==
    Reread(r) \/ RereadFails(r) \/ ServeRefreshed(r) \/ Unreadable(r)
    \/ Adopt(r) \/ SendRefresh(r) \/ Redeem(r) \/ ReplyLost(r) \/ Refused(r)
    \/ Store(r) \/ StoreFails(r) \/ Commit(r) \/ CommitFails(r)

AdminStep(a) == AdminLoad(a) \/ AdminUpdate(a) \/ AdminDelete(a) \/ AdminFails(a)

Next ==
    \/ \E r \in Requests : Load(r) \/ Unlocked(r) \/ Locked(r)
    \/ \E c \in Creds : AdminCreate(c)
    \/ \E a \in Admins : AdminStep(a)
    \/ \E f \in Files : CliRefresh(f) \/ Expire(f)
    \/ Crash

Spec == Init /\ [][Next]_vars

\* The event loop runs every request that can take a step, the token endpoint
\* is given 30 seconds to answer, and asyncio.Lock wakes its waiters in order.
FairSpec == Spec /\ \A r \in Requests : WF_vars(Unlocked(r) \/ Locked(r))


-----------------------------------------------------------------------------
(* Properties *)

\* Every variable keeps its type, and a request its place in at most one queue.
TypeOK ==
    /\ rows \in [Creds -> Row]
    /\ files \in [Files -> File]
    /\ redeemable \in [Files -> Nat]
    /\ issued \in [Files -> Nat]
    /\ expired \in [Files -> Nat]
    /\ queue \in [Creds -> Seq(Requests)]
    /\ pc \in [Requests -> {"idle", "loaded", "waiting", "reread", "exchange",
                            "answered", "commit"}]
    /\ cred \in [Requests -> Creds \cup {NoCred}]
    /\ branch \in [Requests -> Kinds]
    /\ seen \in [Requests -> Row]
    /\ got \in [Requests -> Got]
    /\ answer \in [Requests -> Answer]
    /\ adminPc \in [Admins -> {"idle", "loaded"}]
    /\ adminCred \in [Admins -> Creds \cup {NoCred}]
    /\ adminSeen \in [Admins -> Row]

\* The stretch of resolve_secret inside `async with lock`, after the re-read.
InRefresh(r) == pc[r] \in {"reread", "exchange", "answered", "commit"}

\* At most one request per credential is past the lock, however requests are
\* queued, fail, or find the credential edited or deleted under them
\* (credentials.py:66-68).
OneRefreshAtATime ==
    \A r, s \in Requests :
        InRefresh(r) /\ InRefresh(s) /\ cred[r] = cred[s] => r = s

\* No failure, edit, deletion or crash leaves a lock behind: whoever holds it
\* or queues for it is a request for that credential, in the queue once, only
\* the first is past the lock, and a request that waits is in the queue
\* (credentials.py:66-68, 276-277, 319-320; proved only).
NoLockIsLeaked ==
    /\ \A c \in Creds : \A i, j \in DOMAIN queue[c] : queue[c][i] = queue[c][j] => i = j
    /\ \A c \in Creds : \A i \in DOMAIN queue[c] :
          LET r == queue[c][i]
          IN  cred[r] = c /\ (pc[r] = "waiting" \/ (i = 1 /\ InRefresh(r)))
    /\ \A r \in Requests :
          pc[r] = "waiting" => \E i \in DOMAIN queue[cred[r]] : queue[cred[r]][i] = r

\* A refresh token is spent only while the credential's row has no fresh token
\* of the same login: the row looked at before queueing is not trusted
\* (credentials.py:272-275, "Another waiter may have refreshed").
NoRedundantExchange ==
    \A r \in Requests :
        pc[r] = "exchange" /\ rows[cred[r]].token.grant = seen[r].path
            => ~_is_fresh(rows[cred[r]].token)

\* However many requests meet an expired token, a login the proxy alone
\* refreshes has at most one fresh token per credential that uses it:
\* "concurrent requests against the same credential do not each burn a round
\* trip" (credentials.py:66-67).
Sharers(f) == {c \in Creds : Live(c) /\ rows[c].path = f}
OneFreshToken ==
    \A f \in Files \ CliFiles :
        issued[f] > expired[f] + 1 =>
            issued[f] <= expired[f] + Cardinality(Sharers(f))

\* The refresh token that still works is never only in the hands of a request
\* that has let go of it: it is in the file, or in the reply about to be
\* written there (credentials.py:157-164).
GrantSurvives ==
    \A f \in Files :
        \/ files[f].refresh = redeemable[f]
        \/ \E r \in Requests : /\ pc[r] = "answered"
                               /\ seen[r].path = f
                               /\ got[r].refresh = redeemable[f]

\* No step puts an older token of the same login over a newer one: neither a
\* refresh that took long nor an admin's edit of another column.
TokenAdvances(c) ==
    /\ rows[c].token # NoToken
    /\ rows'[c].token.grant = rows[c].token.grant
    => rows'[c].token.gen >= rows[c].token.gen
StepKeepsTokens == \A c \in Creds : TokenAdvances(c)
TokensNeverRegress == [][StepKeepsTokens]_vars

\* A request queued for the lock gets its answer, an error at worst: no exit
\* of the critical section leaves the lock held.
EveryWaiterLeaves ==
    \A r \in Requests : pc[r] = "waiting" ~> pc[r] = "idle"

=============================================================================
