# A TLA+ verification project for inference-proxy

This directory models the control flow of the proxy in `src/app` in TLA+,
checks it with TLC on small instances and proves the central properties with
TLAPS for every instance. It is kept beside the code: each definition names,
in `PROJECT.json` (`map`), the lines it stands for.

Run a check with `tlc -config <run>.cfg <module>.tla`, a proof with
`tlapm <module>.tla`.

## 1. The system

The proxy is **one asyncio process** (FastAPI, uvicorn) on a database (SQLite,
or Postgres after the cutover). Minds, harnesses and apps call it with a proxy
key; it resolves the model they name to an upstream and a credential, forwards
the request in the upstream's wire format, relays or translates the answer
(mostly as a stream), and writes one usage row. An administrator edits
clients, keys, providers, credentials and models in an HTML console.

A coroutine is interrupted only at an `await`. That fixes the grain of every
model: an action is the code from one await to the next, all of it.

| Component | Source | State | Operations | Interacts with |
|---|---|---|---|---|
| Proxy key cache | `auth.py`, `admin/clients.py` | `clients`, `keys`, `_DB_KEY_LOOKUP`, `_DB_KEY_HASHES` | load a row, commit, select, swap; validate | read by every route, written by the console and at startup |
| Upstream credentials | `credentials.py`, `admin/credentials.py` | `credentials`, `_refresh_locks`, login files | resolve, refresh, write back, edit | called by routing; token endpoint; vendor CLIs share the file |
| Deployment routing | `deployments.py` | none (reads `models`, `providers`) | resolve, list, build headers | called by every route |
| Providers and models console | `admin/providers.py`, `admin/models.py` | `providers`, `models` | create, update, delete | rows read by routing |
| Responses WebSocket | `proxy/websocket.py` | one connection: attempt, buffer, flushed | retry, buffer, flush, meter | azure, routing, usage |
| Responses HTTP | `proxy/responses.py`, `overflow.py` | one request | post, stream, relay | azure, routing, usage |
| Anthropic Messages | `proxy/anthropic.py` | one request | resolve an alias, post, stream, relay | azure, routing, usage |
| Chat completions | `proxy/chat_completions.py`, `chat_to_anthropic.py` | one request; call indices, finish reason and counts of a translated stream | translate a request and its answer, stream, meter | azure, routing, usage |
| Compaction, systemone | `proxy/compact.py`, `systemone.py` | none | one upstream call | azure, routing, usage |
| Upstream client | `azure.py` | `_client` | post with retries, backoff | every route |
| Usage metering | `usage.py`, `retention.py` | `usage_logs`, pending tasks, failure counter | schedule, insert, prune | called at the end of every route |
| Rate-limit windows | `provider_limits.py` | last windows per host | record, snapshot | written by routes, read by clients |
| Status | `status.py` | `_HEALTH`, debounce counters | probe, render | database, upstreams |
| Schema bootstrap | `entrypoint.py`, `migrations/` | schema, alembic revision | stamp, upgrade, create | runs before the server |
| Cutover | `.cutover/run.sh`, `switch.sh` | two databases, `.env`, who holds the port | stop, copy, verify, switch, roll back | run once by an operator; bootstrap |
| Assembly | `main.py`, `config.py`, `db.py`, `utils.py` | engine, pool | startup, shutdown | everything |

### What is hard here

* **State read before an await and used after it.** The key cache installs rows
  selected earlier (`auth.py:57-67`); a credential refresh commits onto a row
  that was edited meanwhile (`credentials.py:334`); handlers write back rows
  they loaded (`admin/clients.py:151`).
* **A step of several failing.** Commit succeeds and the cache refresh does not;
  the token endpoint rotates a refresh token and the write-back fails.
* **External writers.** The vendor CLIs refresh the same login files without
  the proxy's lock.
* **Streams.** Events are buffered, flushed, retried, cut off and metered; what
  the client saw and what the usage row says can disagree
  (`proxy/websocket.py:218-280`).
* **Debounce and probes** whose own failure hides what they measure
  (`status.py:114-138`).
* **Crashes and restarts** (`restart: unless-stopped`): memory goes, tables and
  files stay.
* **Operator scripts** that switch databases with a rollback.

What makes each component correct, in short: the cache admits exactly what the
tables authorise, up to the change in progress; one refresh per expiry and no
refresh token lost; what a model list offers resolves; a stream a client gets
is well formed, is never retried after it began, and is metered as what it
was; every request ends in at most one usage row; an outage is shown when it
lasts and only then; a bootstrap or cutover that stops half-way can be run
again or undone.

## 2. Plan

| # | Modules | Subject | State |
|---|---|---|---|
| 1 | `KeyGate`, `KeyCache`, `KeyCacheProofs` | tables, cache and console handlers; the cache as an abstract gate | done |
| 2 | `CredentialRefresh`, `CredentialRefreshProofs` | resolve, lock, exchange, write-back, console, CLI | done |
| 3 | `StatusProbe`, `StatusProbeProofs` | probe loop, debounce, level | done |
| 4 | `TurnRelay`, `ResponsesSocket`, `ResponsesSocketProofs` | one WebSocket connection; the abstract relay it implements | done |
| 5 | `HttpTurns`, `HttpTurnsProofs` | two HTTP routes over both pools, retries and metering | done |
| 6 | `CompletionStream`, `ChatTurn`, `ChatTurnProofs` | a chat completions turn over three upstream wires; the abstract stream its translators implement | done |
| 7 | `Routing`, `RoutingProofs` | what is listed and what a request resolves to, over tables that the console edits | done |
| 8 | `Bootstrap`, `CutoverProofs` | stamp or upgrade a Postgres schema, with a crash between any two steps | done |
| 9 | `Cutover`, `CutoverProofs` | both scripts with clients, old processes, restarts and the bootstrap of each start | done |
| 10 | `Conversation` | a dialogue translated to and fro while it changes its upstream | done; its theorems are in `ChatTurnProofs` |
| 11 | composition | a request from `validate_api_key` to its row while its key is revoked | not modelled: the key is read once, before the turn begins |

Every safety property that a passing run checks is also a theorem; what is only
model-checked is liveness (section 6).

## 3. The modules

Every module is cut at the awaits of the code; a name with an underscore
(`validate_api_key`, `_is_fresh`, `_consec_fail`) is the code's own. Each
operator named in a `mutants` entry of `PROJECT.json` has beside it a mutated
form (its comment begins "Mutant"): a plausible bug that the property named
there detects. Mutants are used by no specification.

### KeyCache (and KeyGate)

`clients` and `keys` are the tables, `lookup` is `_DB_KEY_LOOKUP` (with
`_DB_KEY_HASHES`, assigned beside it without an await), `serving` that the
process is up. A console handler is one of `Handlers`: `Load...` reads the row
it will change, `Commit...` assigns and commits (only the columns that changed
are written, as SQLAlchemy does: `Flushed`), `Select` is the query of
`refresh_key_cache` and `Swap` the assignment of the two globals.
`create_client` commits and refreshes nothing. `CommitFails` and
`RefreshFails` are the exits through `get_session`; `Crash` empties memory
between any two steps and `Startup` loads the cache before anything is served.
Hashing, prefixes and form validation are abstracted.

`KeyGate` is the promise: what is installed is what is granted at that moment.
The refinement maps `granted` to what the tables authorise.

### CredentialRefresh

`rows` are credentials, `files` the login files with a refresh token and an
access token each, `redeemable` the refresh token the vendor still accepts,
`issued` and `expired` count access tokens of a login. A token is a pair of
login and generation; what it contains is left out. A request loads its row,
serves what it can, or queues (`queue[c]`, asyncio.Lock is first come first
served), re-reads, re-checks, adopts the file's token, or sends, stores and
commits. A Codex refresh may rotate the refresh token; only a Codex file is
written back. Every await has its failure. `Faults` turns
on those a run is about (a crash, a lost reply, a disk error); `WritableFiles`
and `CliFiles` say which files the proxy may replace and which a vendor CLI
refreshes too.

### StatusProbe

One cycle of `_probe_once`: database, origins, gather, publish, sleep. The
environment changes database, upstreams and models between any two of them and
restarts the process. `_overall_status` is the level of the page.

### ResponsesSocket (and TurnRelay)

One connection of `/v1/responses` over a socket, from accept to its usage row:
up to `max_retries` posts, events held back until one shows output, then
flushed and relayed; overflow, error events, streams that stop, clients that
leave at any send. `emitted` is what the current attempt produced, `buffer`
what is held, `sent` what the client has. `TurnRelay` is the promise: a prefix
of one attempt, in order, then at most one message of the proxy's own.

### HttpTurns

The passthrough routes `/v1/responses` and `/v1/messages` share this shape:
a session checks a database connection out at its first query, holds it while
the turn waits for an upstream connection and for the answer (unless a token
refresh committed), and gives it back when the handler returns, before a
`StreamingResponse` is sent (FastAPI 0.109 closes dependencies first). Retries
go through `backoff` without an upstream connection. A generator yields a line
(`Line`) and reads it only when resumed (`Sniff`); between the two the client
may leave. The two routes differ where the source does: the retry without
reasoning items, the rewritten overflow and the noted error event are of the
Responses route; the error event of the proxy's own is of the Messages route.
A row is written by a task with a connection of its own.

### ChatTurn (and CompletionStream)

One turn after another of the chat completions route, over an upstream that
speaks Chat Completions, Responses or Anthropic Messages, streamed or not. The
generators are cut where they await the upstream's next line (`read`) and where
the server sends what they yielded (`send`); `then` says what follows the chunk
being sent. `index`, `next`, `finish`, `ended`, `captured` and `outcome` are
the variables of `stream_anthropic_to_completions` and
`stream_responses_to_completions`; `fate` is how the upstream really ended,
`view` what an SDK makes of the chunks, `row` the usage row. A client that
leaves cancels the streaming task where it next awaits. One count stands for
the counters of a usage block, which are treated alike.

`CompletionStream` is the promise to the client: the role, calls numbered from
zero without gaps and each opened once, one end, nothing after it.

### Routing

`model` and `provider` are the tables. A caller asks for the list (two queries)
and then for a model on some wire (two queries, and on the Messages route more
for an alias); each query is a step, so that rows change between
them. `resolve_target_uri`, `wires_for`, `judged_harness`, `offerable_to` and
`visible_to` are the code's decisions over rows. A URI is abstracted to its
host and to the wire its path is recognised as. The console's handlers are cut
between the query they rest on and their commit (`task` holds what was read);
foreign keys and unique names are checked at the commit, where the database
does. `calm` records that nothing was committed since the list was asked for:
only then can a list and a request be compared.

### Bootstrap

`bootstrap_schema` on Postgres as the steps the database sees: create the
schema if that is allowed, inspect and decide, stamp, upgrade. A revision is in
`has` when what its migration makes is there, whoever made it; `version` is
the bookkeeping row. `Unmarked` revisions add no column and look before they
create, so they cannot be recognised and may be run again. A start may die
between any two steps; stamp and upgrade are one transaction each.

### Cutover

`run.sh` and `switch.sh` line by line (`step`), on a host with clients that
write, processes told to stop that still write, processes that start and run
the bootstrap of `Bootstrap` before they bind, and restarts of the host,
after which the service is started on the store that `.env` names. A process is named by
the store it writes; rows are numbers, so a lost row is a missing number.
`stray` is a listener that `pkill` does not recognise, found on the port at the
beginning. `told` is the last line of the script. Assumed of what is outside:
the loader replaces what is in the target, the usage row of the script's own
request lands within the 6 seconds `switch.sh` waits, and two starts on one
store at once count as one.

### Conversation

A dialogue kept by a caller in chat messages: instructions, texts, images,
parts of unknown type, parallel calls and their results in any order; a message,
an instruction and a result each hold a list of parts, and a list of one text
stands for a string. Each
request names an upstream (`wire`), a thinking effort and a ceiling;
`transform_to_anthropic_messages`, `transform_to_responses_format` and
`transform_anthropic_to_completions` are folds over messages and blocks, most of
them by `Gather`: what is made of each element, one after the other. What may be
said or answered is any set of sequences of the kinds of parts and blocks there
are (`ContentsAssumption`, `ShapesAssumption`). A text
is a sequence of serial numbers, so that texts that are joined, dropped,
doubled or reordered differ. `Assembled` is what an SDK puts together from a
streamed answer. What the code drops is dropped in the model: `_text_of` (`Joined`)
keeps the known texts of an instruction or a result on the Anthropic wire and no
other part of it, and a message without calls goes to the Responses wire whole,
thinking included (`InputItems`). A list among Responses instructions is sent as
it stands when it is alone, as Python's formatting of it otherwise (`Formatted`,
a raw block), and nothing is claimed of it. Tool declarations, stop sequences and the spelling of parts
are left out. The Responses wire is forwarded neither an effort nor
`max_completion_tokens`: `ceiling` stands for `max_tokens` there.

## 4. The runs

| Run | Instance | What it shows |
|---|---|---|
| `key_cache_overlap` | 1 client, 2 keys, 2 handlers | two console requests interleaved at every await, with crashes: no key outlives its client, no handler writes back a column it did not mean to, a revocation or a deletion is answered only with its keys out of the cache |
| `key_cache_serial` | 2 clients, 2 keys, 1 handler | one console request at a time: the cache implements `KeyGate`, and a committed change takes effect or is answered with an error |
| `key_cache_stale` | 1 client, 1 key, 2 handlers | violation, see section 7 |
| `credential_shared` | 2 credentials, 2 requests, 2 files | two credentials on one login: tokens are not multiplied, the working grant survives, every waiter leaves |
| `credential_edited` | 1 credential, 2 requests, 1 admin, a CLI, every fault | no older token over a newer one, whatever is edited, lost or cut off |
| `status_page` | 2 origins, threshold 3, warm-up 2, 1 restart | an outage is measured, published if it lasts, and cleared |
| `socket_turns` | 5 attempts, streams of 4 events | one attempt relayed, an overflow told, whether refused or in the stream, and never retried, what is billed was delivered, every turn ends |
| `http_turns` | 2 turns, 2 attempts, 1 database connection, 1 upstream connection, 1 line | each answer metered once and as what it was, dead streams told, every turn ends |
| `chat_turn` | 2 calls, counts up to 2, streams of 5 lines | chunks refine `CompletionStream`, a terminator is earned, the row says how the turn ended and what it counted, every stream ends |
| `routing` | 2 models, 1 provider, 2 administrators, 4 callers | what is listed is accepted, what is reached was listed, the hidden is absent, a disabled provider gets nothing, and only overtaken commits break rows |
| `cutover` | 4 revisions, 1 row of the clients' own, 2 scripts or restarts | the bookkeeping row is true, no empty copy, no row left behind, what a script says last is so, the service comes back |
| `conversation` | 5 things said, every kind of part, 9 requests | a request says what was said, once and in order, save what the property names as dropped; results stand behind their calls; the thinking budget fits |

**Bounds.** Two of everything that competes (handlers, requests, turns,
administrators) is what an interleaving needs; a third only repeats a role. Two
keys let one stay authorised while the other changes; two credentials let them
share a file, and two files let a credential change between them. `MaxIssued`
lets a token be refreshed, expire and be refreshed again. `MaxCount` saturates
the status counters at the threshold, the last value that is told apart; in
`chat_turn` counts of 0, 1 and 2 can grow, shrink and be absent. Four events of
a socket hold a quiet event, output, and both ends of a stream; five lines of
`chat_turn` hold two interleaved calls and a report before an end. One line in
`http_turns` is the shortest stream in which a line is yielded and unread; the
theorems of section 6 are for any number. One connection in each pool is the
tightest pool. In `routing` the two models are a base and its alias; two forms
are open at once (`OneFormWhileAsked`, a constraint) only before the first list
and with one of the two models there, which is where they can race for a row;
while a caller is served one administrator at a time commits between its queries.
`cutover` has four revisions, the last of them without a column: two before and
two after the last table is made. `MaxRuns` of 2 is a script and another one, or
a restart of the host in the middle of one; the safety properties were also
checked with 3. In `conversation` five serial numbers suffice for a
question, an answer with parallel calls or thinking, its results and another
request over the other wire; the ceilings lie on both sides of 5120, the least
that holds the least budget and its headroom, and of every budget. `MaxRestarts`,
`MaxEvents`, `MaxLines`, `MaxIssued`, `MaxWrites`, `MaxRuns` and `MaxSerial`
are bounds of the models, not of the code; the other constants are the code's
(`OUTAGE_FAIL_THRESHOLD`, `WARMUP_PROBES`, `max_retries`, the budgets) or the
deployment's.

**Deadlock** is checked except where the system stops: a connection of
`ResponsesSocket` ends in `closed`, a finished cutover with its writes spent has
nothing left to do, and a dialogue ends when its serial numbers do.

**Symmetry** is used for safety only, never in a run with a liveness property.

**Types.** The type invariants (`TypeOK`) are theorems of every module that has
proofs (`HostType` for `Cutover`), and are not checked again by TLC;
`Conversation` takes its types from its actions; `Dialogue` in `ChatTurnProofs`
states them.

## 5. Fairness

Weak fairness on the steps of a coroutine that has what it waits for: asyncio
runs every ready task, every query ends (`statement_timeout`, pool and connect
timeouts of `db.py`), every upstream call ends within httpx's 300 seconds, and
a failure is an allowed end. Nothing is assumed of the environment: neither that
a client stays or sends, nor that the admin acts, nor that a token expires or
an upstream recovers.

* `KeyCache`: `Resume` of every handler, and `Startup`: the container is
  restarted unless stopped.
* `CredentialRefresh`: the steps of every request, the lock's hand-over included.
  What `EveryWaiterLeaves` needs of the locks themselves is `NoLockIsLeaked`,
  which is proved without any fairness.
* `StatusProbe`: the loop, which catches what a cycle raises and sleeps.
  Persistence of an outage is a hypothesis of the property, not a fairness.
* `ResponsesSocket`: the handler; not the client's frame.
* `HttpTurns`: in addition strong fairness on getting a connection from either
  pool, because both serve their waiters in order. The pools' timeouts are
  allowed and not relied on: `EveryTurnEnds` holds because no turn waits for a
  connection while it holds one its holder needs.
* `ChatTurn`: the handler, the upstream (it answers, ends or breaks within its
  read timeout), the server's send and the finally clause; not the client.
* `Cutover`: the next step of a script that has begun, the steps of a bootstrap,
  binding the port, and the start of the service after a restart of the host:
  for the container that is docker's policy (`restart: unless-stopped`); for the
  process that `run.sh` starts with nohup (23-28) it is an assumption, and the
  half of `ServiceReturns` that is about a restart of the host rests on it. Nobody has to write, to begin a script, or to fail.
* `Routing`, `Bootstrap` and `Conversation` state safety only.

## 6. What is proved

Each `...Proofs` module proves its theorems for every value of the constants
under the assumptions of the module it extends (sets, positive bounds,
`NoClient` and the like outside their sets).

* **KeyCacheProofs.** Types; `NoOrphanKey` (the invariant is inductive with
  types, because deleting a client deletes its keys and the foreign key
  refuses a mint for a client that is gone); `CacheAttribution`, strengthened to snapshots
  in flight; `ColumnsAreNotClobbered`; `RevocationIsInstalled`, from `TakenInv`: what a
  committed request took away cannot come back, so that no snapshot it selects
  has it. For one handler
  (`Handlers = {h}`): `AcknowledgedIsInstalled`, `StopsForGood`, and the
  refinement `ImplementsGate`, from `SerialInv`: a snapshot in flight is what
  the tables authorise, which is exactly what two handlers break.
* **CredentialRefreshProofs.** Types, with the queue discipline (a request
  stands in one queue, once, and only while it waits or holds); from it
  `OneRefreshAtATime`, `NoRedundantExchange`, and `TokensNeverRegress`, which
  needs that generations in rows, files and replies never exceed what was
  issued. `NoLockIsLeaked`, from the same discipline, whatever fails.
  `GrantSurvives` under `WritableFiles = Files` and without crash, lost
  reply or disk error: the very conditions whose absence loses a grant.
  `OneFreshToken` for any finite table, without faults and edits and with Codex
  files that can be written (`Quiet`; a file that cannot be written back wastes
  tokens, and so does an edit that takes a login away). It counts: every fresh
  generation but the first of a login has an owner (`Owned`), a credential on
  that login whose row holds it or whose request is bringing it; a credential
  owns one at a time, because only one request is past its lock and
  that request found nothing fresh; so the generations inject into the credentials
  that share the login.
* **StatusProbeProofs.** Types; `OutageIsMeasured` and `NeverJumpsToOutage`
  from the coupling of the published snapshot to the two counters, for
  `WARMUP_PROBES <= OUTAGE_FAIL_THRESHOLD` and a threshold above one.
* **ResponsesSocketProofs.** Types; `OverflowIsFinal`; the refinement
  `RelaysOneAttempt` from `Held`: sent, then held back, are consecutive pieces
  of the current attempt, and nothing was sent wherever a retry can happen.
  `OverflowIsTold` and `BilledIsDelivered`, for streams of any length, from what
  the handler has noted of the answer: an overflow, whether the body of a refusal
  or an event of the stream, is captured when it is seen and no attempt follows it, and usage is
  captured with the very event whose sending it will be billed for.
* **HttpTurnsProofs.** Types; `MeteredOnce`; `NothingIsKept`; `UsageIsBilled`;
  `DeathIsTold`. A step of a turn leaves the others' entries alone, so the
  induction is about one turn: rows exist exactly while an answer waits for
  them, a generator starts with nothing captured, what was captured is what was
  relayed save a line not read yet, and a dead Messages stream has told it.
* **ChatTurnProofs.** Types; `TerminatorIsEarned`, `MeteredAsServed`,
  `CountsAgree` and the refinement `ImplementsStream`, for any set of calls and
  streams of any length. The invariant relates the translator's flags to how the
  upstream ended (`Judged`), the chunk being sent to what follows it (`Sending`),
  the indices to the order in which calls were opened (`Numbered`), the SDK's
  view to the chunks before it (`Sees`) and every count to the reports
  (`Counted`).
  In the same module, of the dialogue a turn belongs to: `ThinkingFits`, for any
  ceilings and efforts (TLC tries nine requests), from what `Fitted`
  and `Raised` leave of a budget; `SaidIsSent` and `AnsweredTogether`, for
  any number of messages, parts, calls and changes of the upstream, which need
  induction over the dialogue (below).
* **RoutingProofs.** Types; `ListedIsAccepted`, `ReachedIsListed`,
  `HiddenIsAbsent`, `SwitchedOffIsSilent`, for any models, providers, forms,
  callers and administrators. The invariant: rows refer to rows that are or were
  there (`Whole`), what a request has loaded is what it says (`Asking`), and,
  while nothing was committed, its listing and outcome are those that the tables
  give now (`Current`). Then the two decisions are compared case by case. And
  `OnlyRacesBreakRows`, from `Sound`: every form that a handler goes on with is
  valid; with one administrator it gives `[]RowsStayUsable`.
* **CutoverProofs.** First the bootstrap alone: types; `StampMatches` and
  `NoEmptyCopy` for any number of revisions. The invariant adds that revisions
  with a column are there without gaps (`Closed`), and that what a start has
  recognised or decided still holds when it acts (`Recognised`, `Decided`); the
  lemma `NewestIsWhole` is the arithmetic behind stamping at the newest column.
  Then the host, for any number of scripts, restarts and rows: `HostType`,
  `NothingLeftBehind`, `CompleteIsPostgres`, `SwitchProvesStore` and
  `AbortIsLite`. The invariant `HInv` says, beside the types, what `.env` holds
  at the steps that start a process (`Pointed`); that nobody writes the SQLite
  file from the stop to the end of the load, nor while `.env` names Postgres
  (`Moved`); that a last line stays true (`Said`); and that a request answered
  from SQLite is counted there, so that `switch.sh` cannot take it for one that
  Postgres answered (`Counted`). And `HostSpec => Spec`: every step of the host
  is a step of the bootstrap or leaves the schema alone, so that the theorems
  about the bootstrap hold through the cutover.

**Induction over a dialogue.** The provers cannot instantiate the library's
induction theorems, which take an operator. They can take a set, so the
induction is stated of sets: a set of sequences that holds the empty one and is
closed under `Append` holds every sequence (`SeqInduction`, by the least element
of a set of numbers, `NatLessThanWellFounded`). `EachAppend` and `FoldAppend`
unfold the library's recursive functions by one element; from them follows that
`Gather`, from which all translations are built, commutes with concatenation
(`EachConcat`). Then:

* `SaidIsSent`: `Dialogue` says which messages there can be (a result is one
  block that holds parts, an answer is what was assembled from its blocks), `Translation` that what was sent is the translation of the dialogue.
  Message by message, the blocks that a Messages turn and that Responses items
  gain are what the message meant (`AddMessageAdds`, `InputItemsSay`), although
  results join the turn before them; the induction adds them up
  (`ConvertedSays`, `ItemizedSays`).
* `AnsweredTogether`: what a prefix of a dialogue must satisfy depends on the
  calls still pending, so the induction is over dialogues with their pending
  calls. `Grown` is the least set of such pairs that the caller's and the
  model's steps leave closed, and `Threaded` says that the state is in it; a
  message taken back after a refusal leaves it there, because only a user's
  message can be refused (`SendableGrown`). On `Grown`, `Together` (turns of a
  Messages request: every turn's results are those of the turn before it, save
  the pending ones at the end) and `Answered` (items of a Responses request)
  hold by rule induction (`GrownInduction`); when a request is sent, nothing is
  pending.

**Only model-checked.** Liveness is out of the prover's reach:
`ChangeTakesEffect`, `EveryWaiterLeaves`, `OutageIsPublished`,
`RecoveryIsPublished`, the two `EveryTurnEnds`, `EveryStreamEnds` and
`ServiceReturns`. No module declares a RECURSIVE operator.

## 7. Where code and documents disagree

One run expects a violation:

* `key_cache_stale`: "The client's keys must stop authenticating immediately."
  (`admin/clients.py:174`). Two overlapping console requests can install the
  older snapshot last (`auth.py:57-67`); the disabled client's key is served
  until the next refresh. In the same way a key that was just minted can be
  dropped again. `RevocationIsInstalled` is what remains true of overlapping
  requests: the moment it is answered, a revocation is in force.

Others were met while modelling. The models contain them, and the properties
are stated around them:

* **Console races.** `delete_provider` looks for attached models and deletes in
  two statements (`admin/providers.py:207-225`), and the foreign key is ON
  DELETE SET NULL: a model attached in between is left with no upstream, which
  the check is there to rule out. Two forms over one row, each writing its own
  columns, do the same. `OnlyRacesBreakRows` says that nothing else does.
* **Streamed thinking is lost.** `chat_to_anthropic.py:368-375` says that signed
  thinking must come back with a turn that carries calls, and "otherwise
  'reasoning effort plus tools' is a one-turn conversation by construction". The
  streamed form of an answer (725-728) passes on the text of the thinking only,
  never the signed blocks. `SaidIsSent` claims thinking for whole answers only.
* **Thinking on the other wire.** A message without calls is forwarded to a
  Responses upstream as it stands (`chat_completions.py:208-210`), with
  `reasoning_content` and the signed `reasoning_details` that an Anthropic answer
  left on it; with calls both are left out (175-206). `SaidIsSent` states the
  two cases.
* **Parts of results and instructions.** That "a part quietly dropped produces a 200
  answering the wrong question" is why parts are refused
  (`chat_to_anthropic.py:35-43`), but `_text_of` (99-114) drops the images and
  unknown parts of a tool result (249-254) and of a system message (349).
  `SaidIsSent` says refused of a user's message only.
* **A cut Responses stream** of the chat completions route is ended with
  `[DONE]` although nothing completed (`chat_completions.py:528`); it lacks the
  finish chunk, by which `TerminatorIsEarned` tells it apart.
* **The outage of the database is not shown.** "A cycle is "hard down" when the
  DB is unreachable" (`status.py:124`), and "a current hard-down still below the
  outage threshold surfaces as degraded rather than silently reading
  "operational"" (267-268). The query for the origins raises first and the cycle
  is dropped (117, `CycleFails`): while the database stays down the level is the
  one before. The page's own queries fail then too.
* **The last error of a socket is dropped.** "forwarding error to client"
  (`proxy/websocket.py:276`): an error event ends the reading before it is held
  back (218-230, `LineError`), so that a client that waited through every
  attempt gets the events before it, and never the error.
* **A token of the file before.** "The cached token belonged to the previous
  kind or file; drop it" (`admin/credentials.py:195`): a refresh in progress
  commits the old file's token after the edit. **Read-only files:** "Rotated
  tokens must land back in the file" (`tests/test_credentials.py:272`), while
  `docker-compose.oauth.yml:7` mounts it read-only: the grant is spent, and
  dropped.
* **Sessions of streams.** The comment at `db.py:69` says a streamed turn holds
  its session for the whole stream; with the pinned FastAPI it is closed before
  the stream begins.
* **A provider path of no known shape** is listed (`deployments.py:266`) and
  then refused with a 400, against 420-422; `ListedIsAccepted` excepts it. A
  provider that is deleted between the two queries of a request makes the row
  fall back to its own stale URI (305-309); `SwitchedOffIsSilent` is about
  tables at rest.
* **Cutover.** `run.sh:104-109` loads "Twice on purpose", but line 117 leaves the
  loop after the first clean pass. "cutover COMPLETE" can be said while a stray
  listener still serves SQLite, as `switch.sh:4-6` tells. `switch.sh` rewrites
  no `.env` and reloads nothing: a restart falls back to SQLite, and rows written
  to it since the load are not in Postgres. Its rollback does not stop a Postgres
  process that has not bound the port yet.
* **Bootstrap.** The markers of revisions 0001 to 0003 can never be chosen, for
  the tables that are required first include `providers`, which 0004 makes; and
  the refusal for a schema with "none of the columns" cannot be reached.

## 8. What is not modelled

* **Rate-limit windows** (`provider_limits.py`): the last reading is replaced
  whole under a lock by the answer that arrives last, and nothing in the
  repository says which should win.
* **Compaction and systemone routes**: one upstream call each over the retries of
  `HttpTurns`; where a systemone request goes is in `Routing`.
* **Anthropic Messages**: the rewriting of headers, system prompt and body.
* **Pruning** of old rows (`retention.py`) and the **shutdown**, which awaits
  no insert.
* **SQLite's bootstrap**: its DDL is not transactional, so a migration that is cut
  off leaves a part; only the Postgres branch, where it cannot, is modelled.
* **Migrations**: what each one rewrites is data.
* **Login and usage pages** keep no state.
* **Contents**: prompts, token values, header and error wording, back-off
  delays, costs. Properties do not depend on them.
* **Libraries** (FastAPI, Starlette, httpx, SQLAlchemy, the token endpoints,
  the vendor CLIs, the SDKs of callers, the loader and the shell tools of the
  scripts) are modelled as `src/` uses them and marked external; it is
  assumed that closing an upstream response does not raise.
