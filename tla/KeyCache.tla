------------------------------ MODULE KeyCache ------------------------------
(***************************************************************************)
(* Proxy keys: the `clients` and `keys` tables, the in-memory cache that   *)
(* every request is authenticated against (app/auth.py), and the admin     *)
(* console handlers that change the tables and then rebuild the cache      *)
(* (app/admin/clients.py).                                                 *)
(*                                                                         *)
(* The proxy is one asyncio process.  A handler runs without interruption  *)
(* between two awaits, so each action below is the code from one database  *)
(* round trip to the next:                                                 *)
(*                                                                         *)
(*     Load      the SELECT of the row to change (404 when it is absent)   *)
(*     Commit    the assignments and `await session.commit()`              *)
(*     Select    the SELECT of refresh_key_cache, as the database runs it  *)
(*     Swap      the handler resumes with those rows and installs them     *)
(*                                                                         *)
(* Between any two of them another handler may run.  A handler that fails  *)
(* leaves through CommitFails or RefreshFails (get_session rolls back and  *)
(* the console shows an error page).                                       *)
(***************************************************************************)
EXTENDS FiniteSets

CONSTANTS
    Clients,     \* ids of the clients table; the database never reuses one
    Keys,        \* proxy keys that can be minted (their hashes are unique)
    Handlers,    \* admin requests that can be in progress at the same time
    NoClient,    \* "no client"
    NoKey        \* "no key"

ASSUME NoClientAssumption == NoClient \notin Clients
ASSUME NoKeyAssumption == NoKey \notin Keys

VARIABLES
    clients,     \* the clients table
    keys,        \* the keys table
    lookup,      \* _DB_KEY_LOOKUP: what requests are authenticated against
    serving,     \* the process is up and has run its startup refresh
    pc,          \* where each admin request is
    task,        \* what each admin request was asked to do
    row,         \* the columns its Load read: the ORM's committed state
    snap,        \* the rows its Select returned
    reply        \* how the last request of this slot was answered

vars == <<clients, keys, lookup, serving, pc, task, row, snap, reply>>
tables == <<clients, keys>>

-----------------------------------------------------------------------------
(* Tables and records *)

\* A row is not inserted yet, present, or deleted.
Life == {"unused", "live", "gone"}
ClientRow == [life: Life, disabled: BOOLEAN, privileged: BOOLEAN]
NoRow == [life |-> "unused", disabled |-> FALSE, privileged |-> FALSE]
KeyRow == [life: Life, client: Clients \cup {NoClient}, revoked: BOOLEAN]

\* One entry of _DB_KEY_LOOKUP: hash -> (client_id, key_id, privileged).
Entry == [key: Keys, client: Clients, privileged: BOOLEAN]

Ops == {"create", "update", "disable", "enable", "delete", "mint", "revoke"}
Task == [op: Ops, client: Clients \cup {NoClient}, key: Keys \cup {NoKey},
         privileged: BOOLEAN]
NoTask == [op |-> "create", client |-> NoClient, key |-> NoKey,
           privileged |-> FALSE]

Columns == [disabled: BOOLEAN, privileged: BOOLEAN, revoked: BOOLEAN]
NoColumns == [disabled |-> FALSE, privileged |-> FALSE, revoked |-> FALSE]

LiveClient(c) == c \in Clients /\ clients[c].life = "live"
LiveKey(k) == k \in Keys /\ keys[k].life = "live"

\* The keys refresh_key_cache selects: un-revoked, of a client that exists
\* and is not disabled.
Authorised(k) ==
    /\ keys[k].life = "live"
    /\ ~keys[k].revoked
    /\ LiveClient(keys[k].client)
    /\ ~clients[keys[k].client].disabled

\* The result of its SELECT on the tables as they are now.
Selected ==
    { [key |-> k, client |-> keys[k].client,
       privileged |-> clients[keys[k].client].privileged] :
        k \in {x \in Keys : Authorised(x)} }

\* A request that presents key k is accepted; resolve_principal and
\* resolve_requester_role read the same entry.
validate_api_key(k) == \E e \in lookup : e.key = k
resolve_principal(k) == {<<e.client, e.key>> : e \in {x \in lookup : x.key = k}}

-----------------------------------------------------------------------------
(* Initial state: an empty database and a process that just started on it. *)

Init ==
    /\ clients = [c \in Clients |-> NoRow]
    /\ keys = [k \in Keys |->
                    [life |-> "unused", client |-> NoClient, revoked |-> FALSE]]
    /\ lookup = {}
    /\ serving = TRUE
    /\ pc = [w \in Handlers |-> "idle"]
    /\ task = [w \in Handlers |-> NoTask]
    /\ row = [w \in Handlers |-> NoColumns]
    /\ snap = [w \in Handlers |-> {}]
    /\ reply = [w \in Handlers |-> "none"]

\* The request of slot w is over; what it was asked to do stays readable.
Answer(w, r) ==
    /\ pc' = [pc EXCEPT ![w] = "idle"]
    /\ row' = [row EXCEPT ![w] = NoColumns]
    /\ snap' = [snap EXCEPT ![w] = {}]
    /\ reply' = [reply EXCEPT ![w] = r]

-----------------------------------------------------------------------------
(* Load: the row the request names must exist, else the answer is 404 and   *)
(* nothing has changed.                                                    *)

ClientColumns(c) ==
    [disabled |-> clients[c].disabled, privileged |-> clients[c].privileged,
     revoked |-> FALSE]

KeyColumns(k) == [NoColumns EXCEPT !.revoked = keys[k].revoked]

Load(w, t, columns) ==
    /\ serving
    /\ pc[w] = "idle"
    /\ pc' = [pc EXCEPT ![w] = "loaded"]
    /\ task' = [task EXCEPT ![w] = t]
    /\ row' = [row EXCEPT ![w] = columns]
    /\ reply' = [reply EXCEPT ![w] = "none"]
    /\ UNCHANGED <<clients, keys, lookup, serving, snap>>

\* create_client looks for the name only; no row is loaded.
LoadNothing(w) ==
    \E p \in BOOLEAN :
        Load(w, [NoTask EXCEPT !.privileged = p], NoColumns)

\* _get_client, of every handler that names a client.
LoadClient(w) ==
    \E op \in Ops \ {"create", "revoke"}, c \in Clients, p \in BOOLEAN :
        /\ LiveClient(c)
        /\ p => op = "update"
        /\ Load(w, [op |-> op, client |-> c, key |-> NoKey, privileged |-> p],
                ClientColumns(c))

\* revoke_key selects the key by id and client.
LoadKey(w) ==
    \E k \in Keys :
        /\ LiveKey(k)
        /\ Load(w, [op |-> "revoke", client |-> keys[k].client, key |-> k,
                    privileged |-> FALSE],
                KeyColumns(k))

-----------------------------------------------------------------------------
(* Commit.  SQLAlchemy writes only the columns whose assigned value differs *)
(* from the one that was loaded; an UPDATE that finds no row raises         *)
(* StaleDataError, and an assignment that changes nothing issues no UPDATE. *)

Committed(w) ==
    /\ pc' = [pc EXCEPT ![w] = "committed"]
    /\ UNCHANGED <<lookup, serving, task, row, snap, reply>>

\* What the request assigns to the columns of the client it loaded.
Assigned(w) ==
    CASE task[w].op = "update"  -> [row[w] EXCEPT !.privileged = task[w].privileged]
      [] task[w].op = "disable" -> [row[w] EXCEPT !.disabled = TRUE]
      [] task[w].op = "enable"  -> [row[w] EXCEPT !.disabled = FALSE]
      [] OTHER -> row[w]

\* Mutant of Flushed: the whole row is written back.
FlushedWholeRow(loaded, assigned, current) == assigned

\* The column after the flush: written when it is dirty, else what it was.
Flushed(loaded, assigned, current) ==
    IF assigned # loaded THEN assigned ELSE current

\* The client row after the flush.
FlushedRow(loaded, assigned, current) ==
    [life |-> current.life,
     disabled |-> Flushed(loaded.disabled, assigned.disabled, current.disabled),
     privileged |-> Flushed(loaded.privileged, assigned.privileged,
                            current.privileged)]

CommitColumns(w) ==
    LET c == task[w].client
        new == Assigned(w)
    IN  /\ pc[w] = "loaded"
        /\ task[w].op \in {"update", "disable", "enable"}
        /\ new # row[w] => LiveClient(c)
        /\ clients' = [clients EXCEPT ![c] = FlushedRow(row[w], new, clients[c])]
        /\ Committed(w)
        /\ UNCHANGED keys

\* create_client: the new client holds no keys, so nothing is refreshed.
CommitCreate(w) ==
    /\ pc[w] = "loaded"
    /\ task[w].op = "create"
    /\ \E c \in Clients :
        /\ clients[c].life = "unused"
        /\ clients' = [clients EXCEPT
             ![c] = [life |-> "live", disabled |-> FALSE,
                     privileged |-> task[w].privileged]]
    /\ Answer(w, "done")
    /\ UNCHANGED <<keys, lookup, serving, task>>

\* delete_client: the client's keys go with it.  A row that is already gone
\* is deleted again without an error.
CommitDelete(w) ==
    LET c == task[w].client IN
    /\ pc[w] = "loaded"
    /\ task[w].op = "delete"
    /\ clients' = [clients EXCEPT ![c] = [NoRow EXCEPT !.life = "gone"]]
    /\ keys' = [k \in Keys |-> IF keys[k].client = c
                                 THEN [keys[k] EXCEPT !.life = "gone"]
                                 ELSE keys[k]]
    /\ Committed(w)

\* Mutant of CommitMint: no foreign key from keys to clients.
CommitMintUnchecked(w) ==
    /\ pc[w] = "loaded"
    /\ task[w].op = "mint"
    /\ \E k \in Keys :
        /\ keys[k].life = "unused"
        /\ keys' = [keys EXCEPT
             ![k] = [life |-> "live", client |-> task[w].client,
                     revoked |-> FALSE]]
    /\ Committed(w)
    /\ UNCHANGED clients

\* mint_key: the foreign key refuses a key for a client that is gone.
CommitMint(w) ==
    /\ pc[w] = "loaded"
    /\ task[w].op = "mint"
    /\ LiveClient(task[w].client)
    /\ \E k \in Keys :
        /\ keys[k].life = "unused"
        /\ keys' = [keys EXCEPT
             ![k] = [life |-> "live", client |-> task[w].client,
                     revoked |-> FALSE]]
    /\ Committed(w)
    /\ UNCHANGED clients

CommitRevoke(w) ==
    LET k == task[w].key IN
    /\ pc[w] = "loaded"
    /\ task[w].op = "revoke"
    /\ ~row[w].revoked => LiveKey(k)
    /\ keys' = [keys EXCEPT ![k].revoked = Flushed(row[w].revoked, TRUE, @)]
    /\ Committed(w)
    /\ UNCHANGED clients

\* Any failure up to the commit: the name is taken, the row vanished, usage
\* rows still reference the client, the database is away.
CommitFails(w) ==
    /\ pc[w] = "loaded"
    /\ Answer(w, "error")
    /\ UNCHANGED <<clients, keys, lookup, serving, task>>

-----------------------------------------------------------------------------
(* refresh_key_cache, after the commit. *)

\* Mutant of Select: a request joins a rebuild that is already under way.
SelectJoined(w) ==
    LET building == {v \in Handlers : pc[v] = "selected"} IN
    /\ pc[w] = "committed"
    /\ pc' = [pc EXCEPT ![w] = "selected"]
    /\ snap' = [snap EXCEPT ![w] =
                   IF building = {} THEN Selected
                   ELSE snap[CHOOSE v \in building : TRUE]]
    /\ UNCHANGED <<clients, keys, lookup, serving, task, row, reply>>

Select(w) ==
    /\ pc[w] = "committed"
    /\ pc' = [pc EXCEPT ![w] = "selected"]
    /\ snap' = [snap EXCEPT ![w] = Selected]
    /\ UNCHANGED <<clients, keys, lookup, serving, task, row, reply>>

\* Mutant of RefreshFails: the error is swallowed.
RefreshFailsSilently(w) ==
    /\ pc[w] = "committed"
    /\ Answer(w, "done")
    /\ UNCHANGED <<clients, keys, lookup, serving, task>>

\* The SELECT raises: the change is committed, the cache is as it was.
RefreshFails(w) ==
    /\ pc[w] = "committed"
    /\ Answer(w, "error")
    /\ UNCHANGED <<clients, keys, lookup, serving, task>>

\* Both module globals are replaced without an await in between.
Swap(w) ==
    /\ pc[w] = "selected"
    /\ lookup' = snap[w]
    /\ Answer(w, "done")
    /\ UNCHANGED <<clients, keys, serving, task>>

-----------------------------------------------------------------------------
(* The process dies, and starts again: startup refreshes before it serves. *)

Crash ==
    /\ serving
    /\ serving' = FALSE
    /\ lookup' = {}
    /\ pc' = [w \in Handlers |-> "idle"]
    /\ task' = [w \in Handlers |-> NoTask]
    /\ row' = [w \in Handlers |-> NoColumns]
    /\ snap' = [w \in Handlers |-> {}]
    /\ reply' = [w \in Handlers |-> "none"]
    /\ UNCHANGED tables

\* Mutant of Startup: the first requests come before the first refresh.
StartupCold ==
    /\ ~serving
    /\ serving' = TRUE
    /\ UNCHANGED <<clients, keys, lookup, pc, task, row, snap, reply>>

Startup ==
    /\ ~serving
    /\ serving' = TRUE
    /\ lookup' = Selected
    /\ UNCHANGED <<clients, keys, pc, task, row, snap, reply>>

-----------------------------------------------------------------------------

Begin(w) == LoadNothing(w) \/ LoadClient(w) \/ LoadKey(w)

Commit(w) ==
    \/ CommitColumns(w) \/ CommitCreate(w) \/ CommitDelete(w)
    \/ CommitMint(w) \/ CommitRevoke(w)

Resume(w) ==
    Commit(w) \/ CommitFails(w) \/ Select(w) \/ RefreshFails(w) \/ Swap(w)

Next ==
    \/ \E w \in Handlers : Begin(w) \/ Resume(w)
    \/ Crash
    \/ Startup

Spec == Init /\ [][Next]_vars

\* Every database call returns (statement_timeout, connect timeout), so a
\* request that began goes on; and a dead container is started again.
Fairness ==
    /\ \A w \in Handlers : WF_vars(Resume(w))
    /\ WF_vars(Startup)

FairSpec == Spec /\ Fairness

-----------------------------------------------------------------------------
(* Properties that hold however many admin requests overlap. *)

\* Every variable has the shape the code gives it.
TypeOK ==
    /\ clients \in [Clients -> ClientRow]
    /\ keys \in [Keys -> KeyRow]
    /\ lookup \in SUBSET Entry
    /\ serving \in BOOLEAN
    /\ pc \in [Handlers -> {"idle", "loaded", "committed", "selected"}]
    /\ task \in [Handlers -> Task]
    /\ row \in [Handlers -> Columns]
    /\ snap \in [Handlers -> SUBSET Entry]
    /\ reply \in [Handlers -> {"none", "done", "error"}]

\* A live key always belongs to a live client, although mint_key checks the
\* client several awaits before it inserts and delete_client may run between.
NoOrphanKey ==
    \A k \in Keys : keys[k].life = "live" => LiveClient(keys[k].client)

\* Whatever is cached, or about to be, names the client the key was minted
\* for: a stale cache may admit too much, it never bills the wrong client.
CacheAttribution ==
    \A e \in lookup \cup UNION {snap[w] : w \in Handlers} :
        /\ keys[e.key].life # "unused"
        /\ keys[e.key].client = e.client

\* Request w passes its commit in this step and was asked to do op to c.
Commits(w, op, c) ==
    /\ pc[w] = "loaded"
    /\ pc'[w] = "committed"
    /\ task[w].op = op
    /\ task[w].client = c

\* No lost update: only enable_client re-enables a client and only
\* update_client changes its privilege, to the value on its form.  A handler
\* that loaded the row before another one committed must not write back the
\* columns it did not mean to change.
WritesOwnColumns(c) ==
    LiveClient(c) /\ LiveClient(c)' =>
        /\ clients[c].disabled /\ ~clients'[c].disabled
              => \E w \in Handlers : Commits(w, "enable", c)
        /\ clients[c].privileged # clients'[c].privileged
              => \E w \in Handlers :
                    /\ Commits(w, "update", c)
                    /\ clients'[c].privileged = task[w].privileged

ColumnsAreNotClobbered == [][\A c \in Clients : WritesOwnColumns(c)]_vars

\* What request w took away for good: a revoked key, or all of a client's.
TakenAway(w) ==
    CASE task[w].op = "revoke" -> {e \in Entry : e.key = task[w].key}
      [] task[w].op = "delete" -> {e \in Entry : e.client = task[w].client}
      [] OTHER -> {}

\* Request w is answered in this step, and not with an error.
Acknowledges(w) == pc[w] # "idle" /\ pc'[w] = "idle" /\ reply'[w] = "done"

\* A revocation or a deletion is answered only with the keys it took away out
\* of the cache, whatever other requests committed, selected or installed
\* meanwhile: each rebuild reads the tables after its own request's commit
\* (clients.py:196-203, 245-249; auth.py:57-67).
RevocationIsInstalled ==
    [][\A w \in Handlers : Acknowledges(w) => lookup' \cap TakenAway(w) = {}]_vars

-----------------------------------------------------------------------------
(* Properties that hold while admin requests do not overlap, that is, when  *)
(* there is one handler.  With two of them a snapshot taken before another  *)
(* request's commit can be installed after that request was answered       *)
(* (auth.py:57-67): a disabled or revoked key is served again, and a key    *)
(* that was just minted is dropped.                                        *)

\* An answered change is in force: the cache is what the tables authorise.
\* (create_client refreshes nothing, so it says nothing about the cache.)
AcknowledgedIsInstalled ==
    \A w \in Handlers :
        pc[w] = "idle" /\ reply[w] = "done" /\ task[w].op # "create"
            => lookup = Selected

\* A key that is neither served nor authorised comes back only by being
\* authorised again: no refresh brings a revoked key back.
ReturnsOnlyAuthorised(k) ==
    ~validate_api_key(k) /\ validate_api_key(k)' => Authorised(k)'

StopsForGood == [][\A k \in Keys : ReturnsOnlyAuthorised(k)]_vars

\* A committed change takes effect, or its request is answered with an error.
ChangeTakesEffect ==
    \A w \in Handlers :
        pc[w] = "committed" ~> (lookup = Selected \/ reply[w] = "error")

\* disable_client, "The client's keys must stop authenticating immediately.":
\* once it is answered, and while the client stays disabled, none of the
\* client's keys is served.
DisabledStopsAuthenticating ==
    \A w \in Handlers :
        /\ pc[w] = "idle"
        /\ reply[w] = "done"
        /\ task[w].op = "disable"
        /\ clients[task[w].client].disabled
        => \A e \in lookup : e.client # task[w].client

-----------------------------------------------------------------------------
(* The abstract gate, read off the tables and the module globals. *)

Gate == INSTANCE KeyGate WITH
            Grants <- Entry, granted <- Selected,
            installed <- lookup, up <- serving

\* With one admin request at a time the cache is such a gate: what a refresh
\* installs is what the tables authorise at the moment it installs it.
ImplementsGate == Gate!Spec

=============================================================================
