--------------------------- MODULE KeyCacheProofs ---------------------------
(***************************************************************************)
(* What holds of the key cache for any sets of clients, keys and admin     *)
(* requests, and what one request at a time adds.                          *)
(***************************************************************************)
EXTENDS KeyCache, TLAPS

-----------------------------------------------------------------------------
(* Type correctness *)

\* The SELECT of refresh_key_cache returns cache entries.
LEMMA SelectedType ==
    ASSUME TypeOK
    PROVE  Selected \in SUBSET Entry
  BY DEF TypeOK, Selected, Authorised, LiveClient, Entry, ClientRow, KeyRow

\* Answering a request keeps the types of what it resets.
LEMMA AnswerType ==
    ASSUME TypeOK, NEW w \in Handlers, NEW r \in {"done", "error"}, Answer(w, r)
    PROVE  /\ pc' \in [Handlers -> {"idle", "loaded", "committed", "selected"}]
           /\ row' \in [Handlers -> Columns]
           /\ snap' \in [Handlers -> SUBSET Entry]
           /\ reply' \in [Handlers -> {"none", "done", "error"}]
  BY DEF TypeOK, Answer, Columns, NoColumns

\* Loading a well-typed task and row keeps the types.
LEMMA LoadType ==
    ASSUME TypeOK, NEW w \in Handlers, NEW t \in Task, NEW cols \in Columns,
           Load(w, t, cols)
    PROVE  TypeOK'
  BY DEF TypeOK, Load

LEMMA BeginType ==
    ASSUME TypeOK, NEW w \in Handlers, Begin(w)
    PROVE  TypeOK'
  <1>1. CASE LoadNothing(w)
    <2>1. PICK p \in BOOLEAN :
            Load(w, [NoTask EXCEPT !.privileged = p], NoColumns)
      BY <1>1 DEF LoadNothing
    <2>2. [NoTask EXCEPT !.privileged = p] \in Task
      BY DEF NoTask, Task, Ops
    <2>3. NoColumns \in Columns
      BY DEF NoColumns, Columns
    <2> QED BY <2>1, <2>2, <2>3, LoadType
  <1>2. CASE LoadClient(w)
    <2>1. PICK op \in Ops \ {"create", "revoke"}, c \in Clients, p \in BOOLEAN :
            Load(w, [op |-> op, client |-> c, key |-> NoKey, privileged |-> p],
                 ClientColumns(c))
      BY <1>2 DEF LoadClient
    <2>2. [op |-> op, client |-> c, key |-> NoKey, privileged |-> p] \in Task
      BY DEF Task
    <2>3. ClientColumns(c) \in Columns
      BY DEF ClientColumns, Columns, TypeOK, ClientRow
    <2> QED BY <2>1, <2>2, <2>3, LoadType
  <1>3. CASE LoadKey(w)
    <2>1. PICK k \in Keys :
            Load(w, [op |-> "revoke", client |-> keys[k].client, key |-> k,
                     privileged |-> FALSE], KeyColumns(k))
      BY <1>3 DEF LoadKey
    <2>2. [op |-> "revoke", client |-> keys[k].client, key |-> k,
           privileged |-> FALSE] \in Task
      BY DEF Task, Ops, TypeOK, KeyRow
    <2>3. KeyColumns(k) \in Columns
      BY DEF KeyColumns, NoColumns, Columns, TypeOK, KeyRow
    <2> QED BY <2>1, <2>2, <2>3, LoadType
  <1> QED BY <1>1, <1>2, <1>3 DEF Begin

LEMMA CommitType ==
    ASSUME TypeOK, NEW w \in Handlers, Commit(w)
    PROVE  TypeOK'
  <1>1. CASE CommitColumns(w)
    <2> DEFINE c == task[w].client
               new == Assigned(w)
    <2>1. new \in Columns
      BY DEF Assigned, TypeOK, Columns, Task
    <2>2. row[w] \in Columns
      BY DEF TypeOK
    <2>3. ASSUME NEW r \in ClientRow
          PROVE  FlushedRow(row[w], new, r) \in ClientRow
      BY <2>1, <2>2 DEF FlushedRow, Flushed, ClientRow, Columns
    <2>4. clients \in [Clients -> ClientRow]
      BY DEF TypeOK
    <2>5. clients' \in [Clients -> ClientRow]
      BY <1>1, <2>3, <2>4 DEF CommitColumns
    <2>6. keys' = keys
      BY <1>1 DEF CommitColumns
    <2> QED BY <1>1, <2>5, <2>6 DEF CommitColumns, Committed, TypeOK
  <1>2. CASE CommitCreate(w)
    <2>1. clients' \in [Clients -> ClientRow]
      BY <1>2 DEF CommitCreate, TypeOK, ClientRow, Life, Task
    <2> QED BY <1>2, <2>1, AnswerType DEF CommitCreate, TypeOK
  <1>3. CASE CommitDelete(w)
    <2>1. /\ clients' \in [Clients -> ClientRow]
          /\ keys' \in [Keys -> KeyRow]
      BY <1>3 DEF CommitDelete, NoRow, TypeOK, ClientRow, KeyRow, Life
    <2> QED BY <1>3, <2>1 DEF CommitDelete, Committed, TypeOK
  <1>4. CASE CommitMint(w)
    <2>1. keys' \in [Keys -> KeyRow]
      BY <1>4 DEF CommitMint, LiveClient, TypeOK, KeyRow, Life
    <2> QED BY <1>4, <2>1 DEF CommitMint, Committed, TypeOK
  <1>5. CASE CommitRevoke(w)
    <2>1. keys' \in [Keys -> KeyRow]
      BY <1>5 DEF CommitRevoke, Flushed, TypeOK, KeyRow
    <2> QED BY <1>5, <2>1 DEF CommitRevoke, Committed, TypeOK
  <1> QED BY <1>1, <1>2, <1>3, <1>4, <1>5 DEF Commit

\* Every reachable state has the shape the code gives it.
THEOREM TypeCorrect == Spec => []TypeOK
  <1>1. Init => TypeOK
    BY DEF Init, TypeOK, ClientRow, KeyRow, NoRow, Life, Task, NoTask, Ops,
           Columns, NoColumns
  <1>2. TypeOK /\ [Next]_vars => TypeOK'
    <2> SUFFICES ASSUME TypeOK, [Next]_vars PROVE TypeOK'
      OBVIOUS
    <2>1. ASSUME NEW w \in Handlers, Begin(w) PROVE TypeOK'
      BY <2>1, BeginType
    <2>2. ASSUME NEW w \in Handlers, Commit(w) PROVE TypeOK'
      BY <2>2, CommitType
    <2>3. ASSUME NEW w \in Handlers, CommitFails(w) PROVE TypeOK'
      BY <2>3, AnswerType DEF CommitFails, TypeOK
    <2>4. ASSUME NEW w \in Handlers, Select(w) PROVE TypeOK'
      BY <2>4, SelectedType DEF Select, TypeOK
    <2>5. ASSUME NEW w \in Handlers, RefreshFails(w) PROVE TypeOK'
      BY <2>5, AnswerType DEF RefreshFails, TypeOK
    <2>6. ASSUME NEW w \in Handlers, Swap(w) PROVE TypeOK'
      <3>1. lookup' \in SUBSET Entry
        BY <2>6 DEF Swap, TypeOK
      <3> QED BY <2>6, <3>1, AnswerType DEF Swap, TypeOK
    <2>7. CASE Crash
      BY <2>7 DEF Crash, tables, TypeOK, Task, NoTask, Ops, Columns, NoColumns
    <2>8. CASE Startup
      BY <2>8, SelectedType DEF Startup, TypeOK
    <2>9. CASE UNCHANGED vars
      BY <2>9 DEF vars, TypeOK
    <2> QED
      BY <2>1, <2>2, <2>3, <2>4, <2>5, <2>6, <2>7, <2>8, <2>9 DEF Next, Resume
  <1> QED BY <1>1, <1>2, PTL DEF Spec

-----------------------------------------------------------------------------
(* What any number of overlapping admin requests preserve *)

\* Live keys have live clients, whatever mint_key and delete_client interleave.
THEOREM NoOrphans == Spec => []NoOrphanKey
  <1>1. Init => NoOrphanKey
    BY DEF Init, NoOrphanKey
  <1>2. TypeOK /\ NoOrphanKey /\ [Next]_vars => NoOrphanKey'
    <2> SUFFICES ASSUME TypeOK, NoOrphanKey, [Next]_vars PROVE NoOrphanKey'
      OBVIOUS
    <2>1. ASSUME NEW w \in Handlers, CommitColumns(w) PROVE NoOrphanKey'
      BY <2>1 DEF CommitColumns, FlushedRow, NoOrphanKey, LiveClient, TypeOK
    <2>2. ASSUME NEW w \in Handlers, CommitCreate(w) PROVE NoOrphanKey'
      BY <2>2 DEF CommitCreate, NoOrphanKey, LiveClient, TypeOK
    <2>3. ASSUME NEW w \in Handlers, CommitDelete(w) PROVE NoOrphanKey'
      BY <2>3 DEF CommitDelete, NoOrphanKey, LiveClient, TypeOK, KeyRow
    <2>4. ASSUME NEW w \in Handlers, CommitMint(w) PROVE NoOrphanKey'
      BY <2>4 DEF CommitMint, NoOrphanKey, LiveClient, TypeOK
    <2>5. ASSUME NEW w \in Handlers, CommitRevoke(w) PROVE NoOrphanKey'
      BY <2>5 DEF CommitRevoke, NoOrphanKey, LiveClient, TypeOK, KeyRow
    <2>6. ASSUME UNCHANGED tables PROVE NoOrphanKey'
      BY <2>6 DEF tables, NoOrphanKey, LiveClient
    <2> QED
      BY <2>1, <2>2, <2>3, <2>4, <2>5, <2>6
      DEF Next, vars, tables, Begin, LoadNothing, LoadClient, LoadKey, Load,
          Resume, Commit, CommitFails, Select, RefreshFails, Swap, Crash, Startup
  <1> QED BY <1>1, <1>2, TypeCorrect, PTL DEF Spec

\* Entries name the client their key was minted for.
Attributed(entries) ==
    \A e \in entries :
        keys[e.key].life # "unused" /\ keys[e.key].client = e.client

\* A key that was minted keeps its client, and is never unused again.
KeepsOwner(k) ==
    keys[k].life # "unused" =>
        keys'[k].life # "unused" /\ keys'[k].client = keys[k].client

LEMMA OwnersAreKept ==
    ASSUME TypeOK, [Next]_vars, NEW k \in Keys
    PROVE  KeepsOwner(k)
  <1> USE DEF KeepsOwner
  <1>1. ASSUME NEW w \in Handlers, CommitDelete(w) PROVE KeepsOwner(k)
    BY <1>1 DEF CommitDelete, TypeOK, KeyRow
  <1>2. ASSUME NEW w \in Handlers, CommitMint(w) PROVE KeepsOwner(k)
    BY <1>2 DEF CommitMint, TypeOK
  <1>3. ASSUME NEW w \in Handlers, CommitRevoke(w) PROVE KeepsOwner(k)
    BY <1>3 DEF CommitRevoke, TypeOK, KeyRow
  <1>4. ASSUME UNCHANGED keys PROVE KeepsOwner(k)
    BY <1>4
  <1> QED
    BY <1>1, <1>2, <1>3, <1>4
    DEF Next, vars, tables, Begin, LoadNothing, LoadClient, LoadKey, Load,
        Resume, Commit, CommitColumns, CommitCreate, CommitFails, Select,
        RefreshFails, Swap, Crash, Startup

\* The cache, and every snapshot on its way to it, bills the right client.
THEOREM Attribution == Spec => []CacheAttribution
  <1> DEFINE Inv == /\ Attributed(lookup)
                    /\ \A w \in Handlers : Attributed(snap[w])
  <1>1. Init => Inv
    BY DEF Init, Attributed
  <1>2. TypeOK /\ Inv /\ [Next]_vars => Inv'
    <2> SUFFICES ASSUME TypeOK, Inv, [Next]_vars PROVE Inv'
      OBVIOUS
    <2>1. ASSUME NEW S \in SUBSET Entry, Attributed(S)
          PROVE  \A e \in S : keys'[e.key].life # "unused"
                              /\ keys'[e.key].client = e.client
      BY <2>1, OwnersAreKept DEF Attributed, KeepsOwner, Entry
    <2>2. Attributed(Selected)
      BY DEF Attributed, Selected, Authorised
    <2>3. Selected \in SUBSET Entry
      BY SelectedType
    <2>4. /\ lookup \in SUBSET Entry
          /\ \A w \in Handlers : snap[w] \in SUBSET Entry
      BY DEF TypeOK
    <2>5. lookup' \in {lookup, {}, Selected} \cup {snap[w] : w \in Handlers}
      BY DEF Next, vars, Begin, LoadNothing, LoadClient, LoadKey, Load,
             Resume, Commit, CommitColumns, CommitCreate, CommitDelete,
             CommitMint, CommitRevoke, Committed, CommitFails, Select,
             RefreshFails, Swap, Crash, Startup
    <2>6. ASSUME NEW w \in Handlers
          PROVE  snap'[w] \in {snap[w], {}, Selected}
      BY DEF TypeOK, Next, vars, Begin, LoadNothing, LoadClient, LoadKey, Load,
             Resume, Commit, CommitColumns, CommitCreate, CommitDelete,
             CommitMint, CommitRevoke, Committed, CommitFails, Select,
             RefreshFails, Swap, Crash, Startup, Answer
    <2>7. Attributed({})
      BY DEF Attributed
    <2> QED
      BY <2>1, <2>2, <2>3, <2>4, <2>5, <2>6, <2>7 DEF Attributed
  <1>3. TypeOK /\ Inv => CacheAttribution
    BY DEF CacheAttribution, Attributed
  <1> QED BY <1>1, <1>2, <1>3, TypeCorrect, PTL DEF Spec

\* No handler writes back a column it was not asked to change.
THEOREM NoLostUpdate == Spec => ColumnsAreNotClobbered
  <1>1. ASSUME TypeOK, [Next]_vars, NEW c \in Clients
        PROVE  WritesOwnColumns(c)
    <2> USE <1>1 DEF WritesOwnColumns
    <2>1. ASSUME NEW w \in Handlers, CommitColumns(w) PROVE WritesOwnColumns(c)
      <3>1. /\ pc[w] = "loaded"
            /\ pc'[w] = "committed"
            /\ task[w].op \in {"update", "disable", "enable"}
        BY <2>1 DEF CommitColumns, Committed, TypeOK
      <3>2. CASE c = task[w].client
        <4>1. clients'[c] = FlushedRow(row[w], Assigned(w), clients[c])
          BY <2>1, <3>2 DEF CommitColumns, TypeOK
        <4>2. CASE task[w].op = "update"
          <5>1. Assigned(w) = [row[w] EXCEPT !.privileged = task[w].privileged]
            BY <4>2 DEF Assigned
          <5> QED BY <3>1, <3>2, <4>1, <4>2, <5>1
                  DEF Commits, FlushedRow, Flushed, TypeOK, Columns
        <4>3. CASE task[w].op = "disable"
          <5>1. Assigned(w) = [row[w] EXCEPT !.disabled = TRUE]
            BY <4>3 DEF Assigned
          <5>2. clients'[c].privileged = clients[c].privileged
            BY <4>1, <5>1 DEF FlushedRow, Flushed, TypeOK, Columns
          <5>3. clients[c].disabled => clients'[c].disabled
            BY <4>1, <5>1 DEF FlushedRow, Flushed, TypeOK, Columns
          <5> QED BY <5>2, <5>3
        <4>4. CASE task[w].op = "enable"
          <5>1. Assigned(w) = [row[w] EXCEPT !.disabled = FALSE]
            BY <4>4 DEF Assigned
          <5>2. clients'[c].privileged = clients[c].privileged
            BY <4>1, <5>1 DEF FlushedRow, Flushed, TypeOK, Columns
          <5>3. Commits(w, "enable", c)
            BY <3>1, <3>2, <4>4 DEF Commits
          <5> QED BY <5>2, <5>3
        <4> QED BY <3>1, <4>2, <4>3, <4>4
      <3>3. CASE c # task[w].client
        BY <2>1, <3>3 DEF CommitColumns, TypeOK
      <3> QED BY <3>2, <3>3
    <2>2. ASSUME NEW w \in Handlers, CommitCreate(w) PROVE WritesOwnColumns(c)
      BY <2>2 DEF CommitCreate, LiveClient, TypeOK
    <2>3. ASSUME NEW w \in Handlers, CommitDelete(w) PROVE WritesOwnColumns(c)
      BY <2>3 DEF CommitDelete, NoRow, LiveClient, TypeOK
    <2>4. ASSUME UNCHANGED clients PROVE WritesOwnColumns(c)
      BY <2>4
    <2> QED
      BY <2>1, <2>2, <2>3, <2>4
      DEF Next, vars, tables, Begin, LoadNothing, LoadClient, LoadKey, Load,
          Resume, Commit, CommitMint, CommitRevoke, CommitFails, Select,
          RefreshFails, Swap, Crash, Startup
  <1>2. TypeOK /\ [Next]_vars => [\A c \in Clients : WritesOwnColumns(c)]_vars
    BY <1>1
  <1> QED BY <1>2, TypeCorrect, PTL DEF Spec, ColumnsAreNotClobbered

\* A key that can never be authorised again.
Dead(k) == \/ keys[k].life = "gone"
           \/ keys[k].life = "live" /\ keys[k].revoked

\* The inductive invariant of what a request takes away: the key it loaded was
\* there, and if it was loaded as revoked it still is; once committed, what was
\* taken away stays away, and the snapshot it selected is without it.
RevokeInv(w) ==
    task[w].op = "revoke" =>
        /\ pc[w] # "idle" => task[w].key \in Keys
        /\ pc[w] = "loaded" =>
              /\ keys[task[w].key].life \in {"live", "gone"}
              /\ row[w].revoked => Dead(task[w].key)
        /\ pc[w] \in {"committed", "selected"} => Dead(task[w].key)

DeleteInv(w) ==
    task[w].op = "delete" /\ pc[w] # "idle" =>
        /\ task[w].client \in Clients
        /\ pc[w] \in {"committed", "selected"} => clients[task[w].client].life = "gone"

TakenInv(w) ==
    /\ RevokeInv(w)
    /\ DeleteInv(w)
    /\ pc[w] = "selected" => snap[w] \cap TakenAway(w) = {}

LEMMA TakenInit == Init => \A w \in Handlers : TakenInv(w)
  BY DEF Init, TakenInv, RevokeInv, DeleteInv, NoTask

\* What the tables lost does not come back.
LEMMA DeadStaysDead ==
    ASSUME TypeOK, [Next]_vars
    PROVE  /\ \A k \in Keys : Dead(k) => Dead(k)'
           /\ \A k \in Keys : keys[k].life \in {"live", "gone"} => keys'[k].life \in {"live", "gone"}
           /\ \A c \in Clients : clients[c].life = "gone" => clients'[c].life = "gone"
  <1> DEFINE Kept == /\ \A k \in Keys : Dead(k) => Dead(k)'
                     /\ \A k \in Keys : keys[k].life \in {"live", "gone"} => keys'[k].life \in {"live", "gone"}
                     /\ \A c \in Clients : clients[c].life = "gone" => clients'[c].life = "gone"
  <1>1. ASSUME UNCHANGED tables PROVE Kept
    BY <1>1 DEF tables, Dead
  <1>2. ASSUME NEW w \in Handlers, CommitColumns(w) PROVE Kept
    BY <1>2 DEF CommitColumns, FlushedRow, Dead, TypeOK
  <1>3. ASSUME NEW w \in Handlers, CommitCreate(w) PROVE Kept
    BY <1>3 DEF CommitCreate, Dead, TypeOK
  <1>4. ASSUME NEW w \in Handlers, CommitDelete(w) PROVE Kept
    BY <1>4 DEF CommitDelete, NoRow, Dead, TypeOK, KeyRow
  <1>5. ASSUME NEW w \in Handlers, CommitMint(w) PROVE Kept
    BY <1>5 DEF CommitMint, Dead, TypeOK
  <1>6. ASSUME NEW w \in Handlers, CommitRevoke(w) PROVE Kept
    BY <1>6 DEF CommitRevoke, Flushed, Dead, TypeOK, KeyRow
  <1> QED
    BY <1>1, <1>2, <1>3, <1>4, <1>5, <1>6
    DEF Next, vars, tables, Begin, LoadNothing, LoadClient, LoadKey, Load,
        Resume, Commit, CommitFails, Select, RefreshFails, Swap, Crash, Startup

\* A snapshot of the tables is without what was taken away.
LEMMA SelectedIsWithoutTaken ==
    ASSUME TypeOK, NEW w \in Handlers, RevokeInv(w), DeleteInv(w), pc[w] = "committed"
    PROVE  Selected \cap TakenAway(w) = {}
  <1> SUFFICES ASSUME NEW e \in Selected, e \in TakenAway(w) PROVE FALSE
    OBVIOUS
  <1>1. PICK k \in Keys : Authorised(k) /\ e.key = k /\ e.client = keys[k].client
    BY DEF Selected
  <1>2. CASE task[w].op = "revoke"
    BY <1>1, <1>2 DEF TakenAway, RevokeInv, Dead, Authorised
  <1>3. CASE task[w].op = "delete"
    BY <1>1, <1>3 DEF TakenAway, DeleteInv, Authorised, LiveClient
  <1> QED BY <1>2, <1>3 DEF TakenAway

\* A request that this step does not move keeps what it knows.
LEMMA TakenFrame ==
    ASSUME TypeOK, [Next]_vars, NEW w \in Handlers, TakenInv(w),
           pc'[w] = pc[w], task'[w] = task[w], row'[w] = row[w], snap'[w] = snap[w]
    PROVE  TakenInv(w)'
  <1>1. RevokeInv(w)'
    <2>1. SUFFICES ASSUME task[w].op = "revoke", pc[w] # "idle"
                   PROVE  /\ task[w].key \in Keys
                          /\ pc[w] = "loaded" =>
                                /\ keys'[task[w].key].life \in {"live", "gone"}
                                /\ row[w].revoked => Dead(task[w].key)'
                          /\ pc[w] \in {"committed", "selected"} => Dead(task[w].key)'
      BY DEF RevokeInv
    <2> DEFINE k == task[w].key
    <2>2. RevokeInv(w) /\ k \in Keys
      BY <2>1 DEF TakenInv, RevokeInv
    <2>3. Dead(k) => keys'[k].life = "gone" \/ (keys'[k].life = "live" /\ keys'[k].revoked)
      BY <2>2, DeadStaysDead DEF Dead
    <2>4. keys[k].life \in {"live", "gone"} => keys'[k].life \in {"live", "gone"}
      BY <2>2, DeadStaysDead
    <2>5. Dead(task[w].key)' <=> (keys'[k].life = "gone" \/ (keys'[k].life = "live" /\ keys'[k].revoked))
      BY DEF Dead
    <2> QED BY <2>1, <2>2, <2>3, <2>4, <2>5 DEF RevokeInv
  <1>2. DeleteInv(w)'
    BY DeadStaysDead DEF TakenInv, DeleteInv
  <1>3. TakenAway(w)' = TakenAway(w)
    BY DEF TakenAway
  <1> QED BY <1>1, <1>2, <1>3 DEF TakenInv

LEMMA TakenStep ==
    ASSUME TypeOK, [Next]_vars, \A w \in Handlers : TakenInv(w), NEW v \in Handlers
    PROVE  TakenInv(v)'
  <1> DEFINE Still == /\ pc'[v] = pc[v] /\ task'[v] = task[v]
                      /\ row'[v] = row[v] /\ snap'[v] = snap[v]
  <1>1. CASE Still
    BY <1>1, TakenFrame
  <1>2. ASSUME NEW w \in Handlers, Begin(w) PROVE TakenInv(v)'
    <2>1. CASE w # v
      BY <1>1, <1>2, <2>1
      DEF Begin, LoadNothing, LoadClient, LoadKey, Load, TypeOK
    <2>2. CASE w = v /\ LoadNothing(v)
      BY <2>2 DEF LoadNothing, Load, NoTask, TakenInv, RevokeInv, DeleteInv, TypeOK
    <2>3. CASE w = v /\ LoadClient(v)
      BY <2>3 DEF LoadClient, Load, TakenInv, RevokeInv, DeleteInv, TypeOK
    <2>4. CASE w = v /\ LoadKey(v)
      BY <2>4 DEF LoadKey, Load, LiveKey, KeyColumns, NoColumns, Dead,
                  TakenInv, RevokeInv, DeleteInv, TypeOK
    <2> QED BY <1>2, <2>1, <2>2, <2>3, <2>4 DEF Begin
  <1>3. ASSUME NEW w \in Handlers, Commit(w) PROVE TakenInv(v)'
    <2>1. CASE w # v
      BY <1>1, <1>3, <2>1
      DEF Commit, CommitColumns, CommitCreate, CommitDelete, CommitMint,
          CommitRevoke, Committed, Answer, TypeOK
    <2>2. CASE w = v /\ CommitCreate(v)
      BY <2>2 DEF CommitCreate, Answer, TakenInv, RevokeInv, DeleteInv, TypeOK
    <2>3. CASE w = v /\ (CommitColumns(v) \/ CommitMint(v))
      BY <2>3 DEF CommitColumns, CommitMint, Committed, TakenInv, RevokeInv,
                  DeleteInv, TypeOK
    <2>4. CASE w = v /\ CommitDelete(v)
      BY <2>4 DEF CommitDelete, Committed, NoRow, TakenInv, RevokeInv,
                  DeleteInv, TypeOK
    <2>5. CASE w = v /\ CommitRevoke(v)
      <3> DEFINE k == task[v].key
      <3>1. /\ pc[v] = "loaded" /\ task[v].op = "revoke" /\ k \in Keys
            /\ keys[k].life \in {"live", "gone"}
            /\ row[v].revoked => Dead(k)
        BY <2>5 DEF CommitRevoke, TakenInv, RevokeInv
      <3>2. /\ keys'[k].life = keys[k].life
            /\ keys'[k].revoked = Flushed(row[v].revoked, TRUE, keys[k].revoked)
            /\ pc'[v] = "committed" /\ task' = task
        BY <2>5, <3>1 DEF CommitRevoke, Committed, TypeOK, KeyRow
      <3>3. row[v].revoked \in BOOLEAN /\ keys[k].revoked \in BOOLEAN
        BY <3>1 DEF TypeOK, Columns, KeyRow
      <3>4. keys'[k].life = "gone" \/ (keys'[k].life = "live" /\ keys'[k].revoked)
        <4>1. CASE row[v].revoked
          BY <3>1, <3>2, <3>3, <4>1 DEF Flushed, Dead
        <4>2. CASE ~row[v].revoked
          BY <3>1, <3>2, <3>3, <4>2 DEF Flushed
        <4> QED BY <4>1, <4>2
      <3> QED BY <3>1, <3>2, <3>4 DEF Dead, TakenInv, RevokeInv, DeleteInv
    <2> QED BY <1>3, <2>1, <2>2, <2>3, <2>4, <2>5 DEF Commit
  <1>4. ASSUME NEW w \in Handlers, Select(w) PROVE TakenInv(v)'
    <2>1. CASE w # v
      BY <1>1, <1>4, <2>1 DEF Select, TypeOK
    <2>2. CASE w = v
      <3>1. Selected \cap TakenAway(v) = {}
        BY <1>4, <2>2, SelectedIsWithoutTaken DEF Select, TakenInv
      <3>2. snap'[v] = Selected /\ TakenAway(v)' = TakenAway(v)
        BY <1>4, <2>2 DEF Select, TakenAway, TypeOK
      <3>3. RevokeInv(v)' /\ DeleteInv(v)'
        BY <1>4, <2>2 DEF Select, TakenInv, RevokeInv, DeleteInv, Dead, TypeOK
      <3> QED BY <3>1, <3>2, <3>3 DEF TakenInv
    <2> QED BY <2>1, <2>2
  <1>5. ASSUME NEW w \in Handlers, CommitFails(w) \/ RefreshFails(w) \/ Swap(w)
        PROVE  TakenInv(v)'
    <2>1. CASE w # v
      BY <1>1, <1>5, <2>1 DEF CommitFails, RefreshFails, Swap, Answer, TypeOK
    <2>2. CASE w = v
      BY <1>5, <2>2 DEF CommitFails, RefreshFails, Swap, Answer, TakenInv,
                        RevokeInv, DeleteInv, TypeOK
    <2> QED BY <2>1, <2>2
  <1>6. CASE Crash
    BY <1>6 DEF Crash, NoTask, TakenInv, RevokeInv, DeleteInv
  <1>7. CASE Startup \/ UNCHANGED vars
    BY <1>1, <1>7 DEF Startup, vars
  <1> QED
    BY <1>2, <1>3, <1>4, <1>5, <1>6, <1>7 DEF Next, Resume

\* A revocation or a deletion is answered with its keys out of the cache,
\* however many requests overlap.
THEOREM RevocationInstalled == Spec => RevocationIsInstalled
  <1>1. ASSUME TypeOK, \A w \in Handlers : TakenInv(w), [Next]_vars,
               NEW w \in Handlers, Acknowledges(w)
        PROVE  lookup' \cap TakenAway(w) = {}
    <2>1. ASSUME NEW u \in Handlers, Swap(u)
          PROVE  lookup' \cap TakenAway(w) = {}
      BY <1>1, <2>1 DEF Acknowledges, Swap, Answer, TakenInv, TypeOK
    <2>2. ASSUME NEW u \in Handlers, CommitCreate(u)
          PROVE  TakenAway(w) = {}
      BY <1>1, <2>2 DEF Acknowledges, CommitCreate, Answer, TakenAway, TypeOK
    <2>3. ASSUME NEW u \in Handlers, CommitFails(u) \/ RefreshFails(u)
          PROVE  FALSE
      BY <1>1, <2>3 DEF Acknowledges, CommitFails, RefreshFails, Answer, TypeOK
    <2>4. CASE Crash
      BY <1>1, <2>4 DEF Acknowledges, Crash
    <2>5. ASSUME pc'[w] = pc[w] \/ pc'[w] # "idle" PROVE FALSE
      BY <1>1, <2>5 DEF Acknowledges
    <2>6. ASSUME NEW u \in Handlers, Begin(u) \/ Select(u) \/ CommitColumns(u)
                   \/ CommitDelete(u) \/ CommitMint(u) \/ CommitRevoke(u)
          PROVE  FALSE
      BY <1>1, <2>6
      DEF Acknowledges, Begin, LoadNothing, LoadClient, LoadKey, Load, Select,
          CommitColumns, CommitDelete, CommitMint, CommitRevoke, Committed, TypeOK
    <2>7. CASE Startup \/ UNCHANGED vars
      BY <2>5, <2>7 DEF Startup, vars
    <2> QED
      BY <1>1, <2>1, <2>2, <2>3, <2>4, <2>6, <2>7 DEF Next, Resume, Commit
  <1>2. /\ Init => \A w \in Handlers : TakenInv(w)
        /\ TypeOK /\ (\A w \in Handlers : TakenInv(w)) /\ [Next]_vars
               => (\A w \in Handlers : TakenInv(w))'
    BY TakenInit, TakenStep
  <1>3. TypeOK /\ (\A w \in Handlers : TakenInv(w)) /\ [Next]_vars
            => [\A w \in Handlers : Acknowledges(w) => lookup' \cap TakenAway(w) = {}]_vars
    BY <1>1
  <1> QED BY <1>2, <1>3, TypeCorrect, PTL DEF Spec, RevocationIsInstalled

-----------------------------------------------------------------------------
(* One admin request at a time *)

\* The inductive invariant: while there is one handler nothing changes the
\* tables between its Select and its Swap, so what it installs is current,
\* and stays current until the next commit.
SerialInv(h) ==
    /\ ~serving => pc[h] = "idle"
    /\ pc[h] = "selected" => snap[h] = Selected
    /\ pc[h] = "idle" /\ reply[h] = "done" /\ task[h].op # "create"
          => lookup = Selected

\* Selected depends on the tables alone.
LEMMA SelectedUnchanged ==
    UNCHANGED tables => Selected' = Selected
  BY DEF tables, Selected, Authorised, LiveClient

LEMMA SerialStep ==
    ASSUME NEW h, Handlers = {h}, TypeOK, SerialInv(h), [Next]_vars
    PROVE  SerialInv(h)'
  <1> USE DEF SerialInv
  <1>1. CASE Begin(h)
    BY <1>1, SelectedUnchanged
    DEF Begin, LoadNothing, LoadClient, LoadKey, Load, tables, TypeOK
  <1>2. CASE Commit(h)
    BY <1>2 DEF Commit, CommitColumns, CommitCreate, CommitDelete, CommitMint,
                CommitRevoke, Committed, Answer, TypeOK
  <1>3. CASE CommitFails(h) \/ RefreshFails(h)
    BY <1>3 DEF CommitFails, RefreshFails, Answer, TypeOK
  <1>4. CASE Select(h)
    BY <1>4, SelectedUnchanged DEF Select, tables, TypeOK
  <1>5. CASE Swap(h)
    BY <1>5, SelectedUnchanged DEF Swap, Answer, tables, TypeOK
  <1>6. CASE Crash
    BY <1>6 DEF Crash, TypeOK
  <1>7. CASE Startup
    BY <1>7, SelectedUnchanged DEF Startup, tables
  <1>8. CASE UNCHANGED vars
    BY <1>8, SelectedUnchanged DEF vars, tables
  <1> QED
    BY <1>1, <1>2, <1>3, <1>4, <1>5, <1>6, <1>7, <1>8 DEF Next, Resume

LEMMA SerialInvariant ==
    ASSUME NEW CONSTANT h, Handlers = {h}
    PROVE  Spec => []SerialInv(h)
  <1>1. Init => SerialInv(h)
    BY DEF Init, SerialInv
  <1>2. TypeOK /\ SerialInv(h) /\ [Next]_vars => SerialInv(h)'
    BY SerialStep
  <1> QED BY <1>1, <1>2, TypeCorrect, PTL DEF Spec

\* An answered change is in force, when admin requests do not overlap.
THEOREM SerialAgreement ==
    ASSUME NEW CONSTANT h, Handlers = {h}
    PROVE  Spec => []AcknowledgedIsInstalled
  <1>1. SerialInv(h) => AcknowledgedIsInstalled
    BY DEF SerialInv, AcknowledgedIsInstalled
  <1> QED BY <1>1, SerialInvariant, PTL

\* An entry of the SELECT is an authorised key.
LEMMA SelectedAuthorised ==
    ASSUME NEW k \in Keys, NEW e \in Selected, e.key = k
    PROVE  Authorised(k)
  BY DEF Selected

\* A key that is not served comes back only by being authorised.
THEOREM SerialStopsForGood ==
    ASSUME NEW CONSTANT h, Handlers = {h}
    PROVE  Spec => StopsForGood
  <1>1. ASSUME SerialInv(h), [Next]_vars, NEW k \in Keys
        PROVE  ReturnsOnlyAuthorised(k)
    <2> USE <1>1 DEF ReturnsOnlyAuthorised
    <2>1. ASSUME UNCHANGED tables, lookup' = Selected
          PROVE  ReturnsOnlyAuthorised(k)
      <3>1. SUFFICES ASSUME validate_api_key(k)' PROVE Authorised(k)'
        BY Zenon
      <3>2. PICK e \in Selected : e.key = k
        BY <2>1, <3>1 DEF validate_api_key
      <3>3. Authorised(k)
        BY <3>2, SelectedAuthorised
      <3> QED BY <2>1, <3>3 DEF tables, Authorised, LiveClient
    <2>2. CASE Swap(h)
      BY <2>1, <2>2 DEF Swap, SerialInv, tables
    <2>3. CASE Startup
      BY <2>1, <2>3 DEF Startup, tables
    <2>4. ASSUME lookup' \in {lookup, {}} PROVE ReturnsOnlyAuthorised(k)
      BY <2>4 DEF validate_api_key
    <2> QED
      BY <2>2, <2>3, <2>4
      DEF Next, vars, Begin, LoadNothing, LoadClient, LoadKey, Load,
          Resume, Commit, CommitColumns, CommitCreate, CommitDelete,
          CommitMint, CommitRevoke, Committed, CommitFails, Select,
          RefreshFails, Crash
  <1>2. SerialInv(h) /\ [Next]_vars => [\A k \in Keys : ReturnsOnlyAuthorised(k)]_vars
    BY <1>1
  <1> QED BY <1>2, SerialInvariant, PTL DEF Spec, StopsForGood

\* With one admin request at a time, the cache is the gate of KeyGate: every
\* set of grants it installs is the set in force at that moment.
THEOREM SerialRefinement ==
    ASSUME NEW CONSTANT h, Handlers = {h}
    PROVE  Spec => ImplementsGate
  <1>1. Init => Gate!Init
    <2> SUFFICES ASSUME Init PROVE Gate!Init
      OBVIOUS
    <2>1. {x \in Keys : Authorised(x)} = {}
      BY DEF Init, Authorised
    <2>2. Selected = {}
      BY <2>1, Zenon DEF Selected
    <2> QED BY <2>2 DEF Init, Gate!Init
  <1>2. ASSUME TypeOK, TypeOK', SerialInv(h), [Next]_vars
        PROVE  [Gate!Next]_Gate!gateVars
    <2> USE <1>2
    <2>1. ASSUME UNCHANGED <<lookup, serving>> PROVE Gate!Change
      <3>1. Selected' \in SUBSET Entry
        BY DEF TypeOK, Selected, Authorised, LiveClient, Entry, ClientRow, KeyRow
      <3> QED BY <2>1, <3>1 DEF Gate!Change
    <2>2. CASE Swap(h)
      BY <2>2, SelectedUnchanged DEF Swap, SerialInv, tables, Gate!Next, Gate!Install
    <2>3. CASE Crash
      BY <2>3, SelectedUnchanged DEF Crash, tables, Gate!Next, Gate!Stop
    <2>4. CASE Startup
      BY <2>4, SelectedUnchanged DEF Startup, tables, Gate!Next, Gate!Start
    <2> QED
      BY <2>1, <2>2, <2>3, <2>4
      DEF Gate!Next, Next, vars, Begin, LoadNothing, LoadClient, LoadKey, Load,
          Resume, Commit, CommitColumns, CommitCreate, CommitDelete,
          CommitMint, CommitRevoke, Committed, CommitFails, Select, RefreshFails
  <1>3. TypeOK /\ TypeOK' /\ SerialInv(h) /\ [Next]_vars => [Gate!Next]_Gate!gateVars
    BY <1>2
  <1> QED BY <1>1, <1>3, TypeCorrect, SerialInvariant, PTL DEF Spec, ImplementsGate, Gate!Spec

=============================================================================
