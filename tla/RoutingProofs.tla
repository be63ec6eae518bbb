--------------------------- MODULE RoutingProofs ----------------------------
(***************************************************************************)
(* Proofs about Routing, for any models, providers, harnesses, forms and   *)
(* administrators.  What a request has loaded and decided agrees with the  *)
(* tables while nothing is committed (Current), and a row names no         *)
(* provider that is not there (Whole); the rest is about the operators     *)
(* that decide.  That rows stay usable is proved of one administrator.     *)
(***************************************************************************)
EXTENDS Routing, TLAPS

\* A row names a provider that exists, and a console request rows that do.
RowsWhole == \A m \in Models : model[m] # NoRow => Exists(model[m].provider)
TasksWhole ==
    \A a \in Admins :
        /\ task[a].op = "update_model" => model[task[a].of] # NoRow
        /\ task[a].op \in {"update_provider", "delete_provider"}
                => provider[task[a].of] # NoRow
Whole == RowsWhole /\ TasksWhole

\* What the tables answer to a request for this name.
Now(name) == Resolved(model[name], ProviderOf(model[name]), caller, wire)

AliasNow == model[asked] = NoRow /\ AliasOf[asked] # NoModel

Current ==
    /\ pc \notin {"idle", "listing"}
            => listing = Offered(model[asked], ProviderOf(model[asked]), caller)
    /\ pc \in {"listing", "exact"} => row = model[asked]
    /\ pc \in {"missed", "base", "alias"} =>
            AliasOf[asked] # NoModel /\ Hidden(model[asked], caller, wire)
    /\ pc \in {"base", "alias"} => model[asked] = NoRow
    /\ pc = "alias" => row = model[AliasOf[asked]]
    /\ pc = "answered" => \/ outcome \in Now(asked)
                          \/ AliasNow /\ outcome \in Now(AliasOf[asked])

\* Who asks is one of the callers, and only an alias is looked up again.
Asking ==
    /\ pc # "idle" => caller \in Callers
    /\ pc \in {"missed", "base", "alias"} => AliasOf[asked] # NoModel

IInv == TypeOK /\ Whole /\ Asking /\ (calm => Current)

-----------------------------------------------------------------------------
(* The operators *)

\* A URI's target is well typed.
LEMMA TargetType ==
    ASSUME NEW r \in ModelRow, NEW p \in ProviderRow \cup {NoRow},
           p # NoRow => r.provider \in Providers, NEW w \in Wires
    PROVE  /\ resolve_target_uri(r, p, w).host \in Providers \cup {NoProvider}
           /\ resolve_target_uri(r, p, w).shape \in Paths
           /\ resolve_target_uri(r, p, w) # NoTarget
                => resolve_target_uri(r, p, w).shape \in Shapes
<1>1. r.uri \in Paths
  BY DEF ModelRow
<1>2. CASE p = NoRow
  BY <1>1, <1>2 DEF resolve_target_uri, Target, NoTarget, Paths, Shapes
<1>3. CASE p # NoRow
  <2>1. p \in ProviderRow /\ r.provider \in Providers
    BY <1>3
  <2>2. \A v \in Wires : p.paths[v] \in Paths
    BY <2>1 DEF ProviderRow
  <2>3. path_for(p, w) \in Paths
    BY <2>2 DEF path_for, StandIn, Wires
  <2> QED
    BY <1>3, <2>1, <2>3 DEF resolve_target_uri, Target, NoTarget, Paths, Shapes
<1> QED
  BY <1>2, <1>3

\* The answers to a request are well typed.
LEMMA ResolvedType ==
    ASSUME NEW r \in ModelRow \cup {NoRow}, NEW p \in ProviderRow \cup {NoRow},
           NEW c, NEW w \in Wires, p # NoRow => r \in ModelRow /\ r.provider \in Providers
    PROVE  Resolved(r, p, c, w) \subseteq Outcomes
<1>0. \A k \in {"none", "absent", "no_upstream", "no_credential", "wrong_protocol"} :
            Answer(k) \in Outcomes
  BY DEF Answer, Outcomes
<1>1. CASE Hidden(r, c, w)
  BY <1>0, <1>1 DEF Resolved
<1>2. CASE ~Hidden(r, c, w)
  <2>1. r \in ModelRow
    BY <1>2 DEF Hidden, Readable
  <2> DEFINE to == resolve_target_uri(r, p, w)
  <2>2. to.host \in Providers \cup {NoProvider}
    BY <2>1, TargetType
  <2>3. [kind |-> "sent", host |-> to.host] \in Outcomes
    BY <2>2 DEF Outcomes
  <2> QED
    BY <1>0, <1>2, <2>3 DEF Resolved
<1> QED
  BY <1>1, <1>2

\* A list offers no decision wire.
LEMMA OfferedType ==
    ASSUME NEW r, NEW p, NEW c
    PROVE  Offered(r, p, c) \subseteq Wires \ {"systemone"}
  BY DEF Offered, wires_for, ALL_WIRES

\* A list judges a harness as its requests will be.
LEMMA JudgedAlike ==
    ASSUME NEW c \in Callers, NEW w \in Wires
    PROVE  judged_harness(w, Declared(c)) = judged_harness(w, c.harness)
  BY DEF judged_harness, Declared, DECLARED_HARNESSES, Unnamed

\* A request on a listed wire is judged as some harness.
LEMMA JudgedNamed ==
    ASSUME NEW h, NEW w \in ALL_WIRES
    PROVE  judged_harness(w, h) # Unnamed
  BY DEF judged_harness, HARNESS_FOR_WIRE, DECLARED_HARNESSES, Unnamed, ALL_WIRES, Wires

\* No harness sends a decision request that a list could offer.
LEMMA HarnessWires ==
    ASSUME NEW h \in Harnesses \cup {Unnamed}
    PROVE  HARNESS_WIRES(h) \subseteq ALL_WIRES
  BY DEF HARNESS_WIRES, Harnesses, Unnamed, ALL_WIRES, Wires

-----------------------------------------------------------------------------
(* The caller's steps *)

\* A row is loaded with a provider of the table, or with none.
LEMMA ProviderOfType ==
    ASSUME TypeOK, NEW r \in ModelRow \cup {NoRow}
    PROVE  /\ ProviderOf(r) \in ProviderRow \cup {NoRow}
           /\ ProviderOf(r) # NoRow => r \in ModelRow /\ r.provider \in Providers
<1>1. CASE r = NoRow \/ r.provider = NoProvider
  BY <1>1 DEF ProviderOf
<1>2. CASE r # NoRow /\ r.provider # NoProvider
  <2>1. r \in ModelRow /\ r.provider \in Providers
    BY <1>2 DEF ModelRow
  <2>2. provider[r.provider] \in ProviderRow \cup {NoRow, Deleted}
    BY <2>1 DEF TypeOK
  <2> QED
    BY <1>2, <2>1, <2>2 DEF ProviderOf
<1> QED
  BY <1>1, <1>2

\* What a request is answered is well typed.
LEMMA AnswerType ==
    ASSUME TypeOK, NEW r \in ModelRow \cup {NoRow}
    PROVE  Resolved(r, ProviderOf(r), caller, wire) \subseteq Outcomes
<1>1. wire \in Wires
  BY DEF TypeOK
<1> QED
  BY <1>1, ProviderOfType, ResolvedType

LEMMA AnswerKinds ==
    \A k \in {"none", "absent"} : Answer(k) \in Outcomes
  BY DEF Answer, Outcomes

\* The tables are left alone: what rows say, and whose they are, stays so.
LEMMA SameTables ==
    ASSUME UNCHANGED <<tables, task>>
    PROVE  /\ \A r : ProviderOf(r)' = ProviderOf(r)
           /\ Whole => Whole'
  BY DEF tables, ProviderOf, Whole, RowsWhole, TasksWhole, Exists

\* Every step of a caller keeps the types.
LEMMA CallType ==
    ASSUME TypeOK, Asking, Call
    PROVE  TypeOK' /\ Asking'
<1> USE DEF tables
<1>0. NoRow \in ModelRow \cup {NoRow} /\ {} \subseteq Wires \ {"systemone"}
  OBVIOUS
<1>1. ASSUME NEW c \in Callers, NEW m \in Models, List(c, m)
      PROVE  TypeOK' /\ Asking'
  <2>1. model[m] \in ModelRow \cup {NoRow}
    BY DEF TypeOK
  <2>2. "systemone" \in Wires
    BY DEF Wires
  <2> QED
    BY <1>1, <2>1, <2>2, AnswerKinds DEF List, TypeOK, Asking
<1>2. ASSUME NEW w \in Wires, Request(w)
      PROVE  TypeOK' /\ Asking'
  <2>1. model[asked] \in ModelRow \cup {NoRow}
    BY DEF TypeOK
  <2> QED
    BY <1>2, <2>1, AnswerKinds DEF Request, TypeOK, Asking
<1>3. CASE ListReturns
  <2>1. listing' \subseteq Wires \ {"systemone"}
    BY <1>3, OfferedType DEF ListReturns
  <2> QED
    BY <1>3, <2>1 DEF ListReturns, TypeOK, Asking
<1>4. CASE Resolve
  <2>1. row \in ModelRow \cup {NoRow}
    BY DEF TypeOK
  <2>2. PICK o \in Resolved(row, ProviderOf(row), caller, wire) :
            IF o.kind = "absent" /\ wire = "anthropic_messages" /\ AliasOf[asked] # NoModel
            THEN pc' = "missed" /\ row' = NoRow /\ UNCHANGED outcome
            ELSE Answered(o)
    BY <1>4 DEF Resolve
  <2>3. o \in Outcomes
    BY <2>1, AnswerType
  <2>4. UNCHANGED <<tables, task, caller, asked, listing, wire, calm>> /\ pc = "exact"
    BY <1>4 DEF Resolve
  <2>5. CASE o.kind = "absent" /\ wire = "anthropic_messages" /\ AliasOf[asked] # NoModel
    BY <2>2, <2>4, <2>5 DEF TypeOK, Asking
  <2>6. CASE ~(o.kind = "absent" /\ wire = "anthropic_messages" /\ AliasOf[asked] # NoModel)
    BY <2>2, <2>3, <2>4, <2>6 DEF TypeOK, Asking, Answered
  <2> QED
    BY <2>5, <2>6
<1>5. CASE CheckExact
  BY <1>5, AnswerKinds DEF CheckExact, Answered, TypeOK, Asking
<1>6. CASE LoadBase
  <2>1. AliasOf[asked] \in Models
    BY <1>6, ConstantsAssumption DEF LoadBase, Asking, TypeOK
  <2>2. model[AliasOf[asked]] \in ModelRow \cup {NoRow}
    BY <2>1 DEF TypeOK
  <2> QED
    BY <1>6, <2>2 DEF LoadBase, TypeOK, Asking
<1>7. CASE ResolveBase
  <2>1. row \in ModelRow \cup {NoRow}
    BY DEF TypeOK
  <2>2. PICK o \in Resolved(row, ProviderOf(row), caller, wire) : Answered(o)
    BY <1>7 DEF ResolveBase
  <2>3. o \in Outcomes
    BY <2>1, AnswerType
  <2> QED
    BY <1>7, <2>2, <2>3 DEF ResolveBase, TypeOK, Asking, Answered
<1> QED
  BY <1>1, <1>2, <1>3, <1>4, <1>5, <1>6, <1>7 DEF Call

\* A request that is answered from the exact row: Hidden is the one reason
\* for being absent.
LEMMA AbsentIsHidden ==
    ASSUME NEW r, NEW p, NEW c, NEW w, NEW o \in Resolved(r, p, c, w), o.kind = "absent"
    PROVE  Hidden(r, c, w)
  BY DEF Resolved, Answer

\* What a caller has loaded stays in agreement with the tables.
LEMMA CallCurrent ==
    ASSUME TypeOK, Asking, calm => Current, Call
    PROVE  calm' => Current'
<1> SUFFICES ASSUME calm' PROVE Current'
  OBVIOUS
<1>0. UNCHANGED <<model, provider, task>>
  BY DEF Call, List, ListReturns, Request, Resolve, CheckExact, LoadBase, ResolveBase, tables
<1>p. \A r : ProviderOf(r)' = ProviderOf(r)
  BY <1>0, SameTables DEF tables
<1>1. ASSUME NEW c \in Callers, NEW m \in Models, List(c, m)
      PROVE  Current'
  BY <1>0, <1>1 DEF List, Current
<1>c. ASSUME calm
      PROVE  Current
  BY <1>c
<1>2. ASSUME NEW w \in Wires, Request(w)
      PROVE  Current'
  <2>1. calm
    BY <1>2 DEF Request
  <2> QED
    BY <1>0, <1>p, <1>2, <1>c, <2>1 DEF Request, Current
<1>3. CASE ListReturns
  <2>1. calm
    BY <1>3 DEF ListReturns
  <2> QED
    BY <1>0, <1>p, <1>3, <1>c, <2>1 DEF ListReturns, Current
<1>4. CASE Resolve
  <2>1. calm /\ pc = "exact" /\ row = model[asked]
    BY <1>4, <1>c DEF Resolve, Current
  <2>2. PICK o \in Now(asked) :
            IF o.kind = "absent" /\ wire = "anthropic_messages" /\ AliasOf[asked] # NoModel
            THEN pc' = "missed" /\ row' = NoRow /\ UNCHANGED outcome
            ELSE Answered(o)
    BY <1>4, <2>1 DEF Resolve, Now
  <2>3. UNCHANGED <<caller, asked, listing, wire, calm>>
    BY <1>4 DEF Resolve
  <2>4. listing = Offered(model[asked], ProviderOf(model[asked]), caller)
    BY <1>c, <2>1 DEF Current
  <2>5. CASE o.kind = "absent" /\ wire = "anthropic_messages" /\ AliasOf[asked] # NoModel
    <3>1. Hidden(model[asked], caller, wire)
      BY <2>2, <2>5, AbsentIsHidden DEF Now
    <3> QED
      BY <1>0, <1>p, <2>2, <2>3, <2>4, <2>5, <3>1 DEF Current
  <2>6. CASE ~(o.kind = "absent" /\ wire = "anthropic_messages" /\ AliasOf[asked] # NoModel)
    BY <1>0, <1>p, <2>2, <2>3, <2>4, <2>6 DEF Current, Answered, Now
  <2> QED
    BY <2>5, <2>6
<1>5. CASE CheckExact
  <2>1. calm /\ pc = "missed"
    BY <1>5 DEF CheckExact
  <2>2. /\ AliasOf[asked] # NoModel
        /\ Hidden(model[asked], caller, wire)
        /\ listing = Offered(model[asked], ProviderOf(model[asked]), caller)
    BY <1>c, <2>1 DEF Current
  <2>3. Answer("absent") \in Now(asked)
    BY <2>2 DEF Now, Resolved
  <2>4. UNCHANGED <<caller, asked, listing, wire>>
    BY <1>5 DEF CheckExact
  <2>5. CASE pc' = "base" /\ model[asked] = NoRow
    BY <1>0, <1>p, <2>2, <2>4, <2>5 DEF Current
  <2>6. CASE Answered(Answer("absent"))
    BY <1>0, <1>p, <2>2, <2>3, <2>4, <2>6 DEF Current, Answered, Now
  <2> QED
    BY <1>5, <2>5, <2>6 DEF CheckExact
<1>6. CASE LoadBase
  <2>1. calm
    BY <1>6 DEF LoadBase
  <2> QED
    BY <1>0, <1>p, <1>6, <1>c, <2>1 DEF LoadBase, Current
<1>7. CASE ResolveBase
  <2>1. calm /\ pc = "alias" /\ row = model[AliasOf[asked]]
    BY <1>7, <1>c DEF ResolveBase, Current
  <2>2. /\ AliasNow
        /\ listing = Offered(model[asked], ProviderOf(model[asked]), caller)
    BY <1>c, <2>1 DEF Current, AliasNow
  <2>3. PICK o \in Now(AliasOf[asked]) : Answered(o)
    BY <1>7, <2>1 DEF ResolveBase, Now
  <2>4. UNCHANGED <<caller, asked, listing, wire>>
    BY <1>7 DEF ResolveBase
  <2> QED
    BY <1>0, <1>p, <2>2, <2>3, <2>4 DEF Current, Answered, Now, AliasNow
<1> QED
  BY <1>1, <1>2, <1>3, <1>4, <1>5, <1>6, <1>7 DEF Call

-----------------------------------------------------------------------------
(* The console's steps *)

\* What is written of a form is a row.
LEMMA FlushedModelType ==
    ASSUME NEW now \in ModelRow, NEW seen \in ModelRow, NEW form \in ModelRow
    PROVE  FlushedModel(now, seen, form) \in ModelRow
  BY DEF FlushedModel, Flushed, ModelRow

LEMMA FlushedProviderType ==
    ASSUME NEW now \in ProviderRow, NEW seen \in ProviderRow, NEW form \in ProviderRow
    PROVE  FlushedProvider(now, seen, form) \in ProviderRow
<1>1. \A w \in Wires : (IF w = "systemone" THEN now.paths[w]
                        ELSE Flushed(now.paths[w], seen.paths[w], form.paths[w])) \in Paths
  BY DEF Flushed, ProviderRow
<1>2. Flushed(now.enabled, seen.enabled, form.enabled) \in BOOLEAN
  BY DEF Flushed, ProviderRow
<1> QED
  BY <1>1, <1>2 DEF FlushedProvider, ProviderRow

\* A request that has begun is a task.
LEMMA Begun ==
    /\ \A m \in Models, seen \in ModelRow, form \in ModelForms :
          [op |-> "update_model", of |-> m, seen |-> seen, form |-> form] \in Task
    /\ \A p \in Providers, seen \in ProviderRow, form \in ProviderForms :
          [op |-> "update_provider", of |-> p, seen |-> seen, form |-> form] \in Task
    /\ \A p \in Providers : [op |-> "delete_provider", of |-> p] \in Task
    /\ NoTask \in Task
  BY DEF Task

\* A task says what was loaded and what is meant.
LEMMA TaskFields ==
    ASSUME NEW t \in Task
    PROVE  /\ t.op = "update_model" =>
                t.of \in Models /\ t.seen \in ModelRow /\ t.form \in ModelForms
           /\ t.op = "update_provider" =>
                t.of \in Providers /\ t.seen \in ProviderRow /\ t.form \in ProviderForms
           /\ t.op = "delete_provider" => t.of \in Providers
  BY DEF Task, NoTask

Asked == Asking /\ (calm => Current)

\* A step that leaves requests alone, and commits or leaves the tables alone,
\* keeps what is known of them.
LEMMA AskedStays ==
    ASSUME Asked, UNCHANGED request, calm' = FALSE \/ UNCHANGED <<tables, calm>>
    PROVE  Asked'
<1>1. Asking'
  BY DEF Asked, Asking, request
<1>2. CASE calm' = FALSE
  BY <1>1, <1>2 DEF Asked
<1>3. CASE UNCHANGED <<tables, calm>>
  <2>1. \A r : ProviderOf(r)' = ProviderOf(r)
    BY <1>3 DEF tables, ProviderOf
  <2> QED
    BY <1>1, <1>3, <2>1 DEF Asked, Current, Now, AliasNow, request, tables
<1> QED
  BY <1>2, <1>3

\* The request's part of the types.
LEMMA RequestType ==
    ASSUME TypeOK, UNCHANGED request, calm' \in BOOLEAN,
           model' \in [Models -> ModelRow \cup {NoRow}],
           provider' \in [Providers -> ProviderRow \cup {NoRow, Deleted}],
           task' \in [Admins -> Task]
    PROVE  TypeOK'
  BY DEF TypeOK, request

\* Beginning a console request on rows that are there keeps the invariant.
LEMMA StartKeeps ==
    ASSUME IInv, NEW a \in Admins, NEW t \in Task, Start(a, t),
           t.op = "update_model" => model[t.of] # NoRow,
           t.op \in {"update_provider", "delete_provider"} => provider[t.of] # NoRow
    PROVE  IInv'
<1>1. task' \in [Admins -> Task]
  BY DEF Start, IInv, TypeOK
<1>2. UNCHANGED <<tables, request, calm>>
  BY DEF Start
<1>3. TypeOK'
  BY <1>1, <1>2, RequestType DEF IInv, TypeOK, tables
<1>4. Whole'
  <2>1. \A b \in Admins : task'[b] = IF b = a THEN t ELSE task[b]
    BY DEF Start, IInv, TypeOK
  <2> QED
    BY <1>2, <2>1 DEF IInv, Whole, RowsWhole, TasksWhole, Exists, tables
<1>5. Asked'
  BY <1>2, AskedStays DEF IInv, Asked
<1> QED
  BY <1>3, <1>4, <1>5 DEF IInv, Asked

\* An error ends the console request and nothing else.
LEMMA RefuseKeeps ==
    ASSUME IInv, NEW a \in Admins, Refuse(a), UNCHANGED request
    PROVE  IInv'
<1>1. task' \in [Admins -> Task] /\ UNCHANGED <<tables, calm>>
  BY Begun DEF Refuse, IInv, TypeOK
<1>3. TypeOK'
  BY <1>1, RequestType DEF IInv, TypeOK, tables
<1>4. Whole'
  <2>1. \A b \in Admins : task'[b] = IF b = a THEN NoTask ELSE task[b]
    BY DEF Refuse, IInv, TypeOK
  <2> QED
    BY <1>1, <2>1 DEF IInv, Whole, RowsWhole, TasksWhole, Exists, tables, NoTask
<1>5. Asked'
  BY <1>1, AskedStays DEF IInv, Asked
<1> QED
  BY <1>3, <1>4, <1>5 DEF IInv, Asked

\* A commit with well typed tables and tasks keeps the invariant where its
\* rows are whole.
LEMMA CommitKeeps ==
    ASSUME IInv, UNCHANGED request, calm' = FALSE, Whole',
           model' \in [Models -> ModelRow \cup {NoRow}],
           provider' \in [Providers -> ProviderRow \cup {NoRow, Deleted}],
           task' \in [Admins -> Task]
    PROVE  IInv'
<1>1. calm' \in BOOLEAN
  OBVIOUS
<1>2. TypeOK'
  BY <1>1, RequestType DEF IInv
<1>3. Asked'
  BY AskedStays DEF IInv, Asked
<1> QED
  BY <1>2, <1>3 DEF IInv, Asked

\* The constants' part that the steps rest on.
LEMMA Forms ==
    /\ ModelForms \subseteq ModelRow /\ ProviderForms \subseteq ProviderRow
    /\ NoRow \notin ModelRow /\ NoRow \notin ProviderRow /\ Deleted \notin ProviderRow
    /\ Deleted # NoRow /\ NoProvider \notin Providers
  BY ConstantsAssumption

LEMMA add_modelKeeps ==
    ASSUME IInv, NEW a \in Admins, NEW m \in Models, NEW form \in ModelForms,
           add_model(a, m, form)
    PROVE  IInv'
<1>1. model' = [model EXCEPT ![m] = form] /\ UNCHANGED <<provider, task, request>> /\ calm' = FALSE
  BY DEF add_model
<1>2. /\ model' \in [Models -> ModelRow \cup {NoRow}]
      /\ \A n \in Models : model'[n] = IF n = m THEN form ELSE model[n]
  BY <1>1, Forms DEF IInv, TypeOK
<1>3. Whole'
  BY <1>1, <1>2, Forms DEF add_model, IInv, Whole, RowsWhole, TasksWhole, Exists
<1> QED
  BY <1>1, <1>2, <1>3, CommitKeeps DEF IInv, TypeOK

LEMMA update_modelKeeps ==
    ASSUME IInv, NEW a \in Admins, NEW m \in Models, NEW form \in ModelForms,
           update_model(a, m, form)
    PROVE  IInv'
<1>1. model[m] \in ModelRow
  BY DEF update_model, IInv, TypeOK
<1> DEFINE t == [op |-> "update_model", of |-> m, seen |-> model[m], form |-> form]
<1>2. t \in Task
  BY <1>1, Begun
<1>3. Start(a, t) /\ model[t.of] # NoRow /\ t.op = "update_model"
  BY DEF update_model
<1> HIDE DEF t
<1> QED
  BY <1>2, <1>3, StartKeeps

LEMMA CommitModelKeeps ==
    ASSUME IInv, NEW a \in Admins, CommitModel(a)
    PROVE  IInv'
<1> DEFINE t == task[a]
<1>0. t \in Task /\ t.op = "update_model" /\ UNCHANGED request
  BY DEF CommitModel, IInv, TypeOK
<1>1. t.of \in Models /\ t.seen \in ModelRow /\ t.form \in ModelForms
  BY <1>0, TaskFields
<1>2. CASE Refuse(a)
  BY <1>0, <1>2, RefuseKeeps
<1>3. CASE /\ t.form.provider = t.seen.provider \/ Exists(t.form.provider)
           /\ model' = [model EXCEPT ![t.of] = FlushedModel(@, t.seen, t.form)]
           /\ calm' = FALSE
           /\ task' = [task EXCEPT ![a] = NoTask]
           /\ UNCHANGED provider
  <2>1. model[t.of] \in ModelRow
    BY <1>0, <1>1 DEF IInv, TypeOK, Whole, RowsWhole, TasksWhole
  <2> DEFINE new == FlushedModel(model[t.of], t.seen, t.form)
  <2>2. new \in ModelRow
    BY <1>1, <2>1, Forms, FlushedModelType
  <2>3. Exists(new.provider)
    <3>1. new.provider = Flushed(model[t.of].provider, t.seen.provider, t.form.provider)
      BY DEF FlushedModel
    <3>2. Exists(model[t.of].provider)
      BY <1>0, <1>1 DEF IInv, Whole, RowsWhole, TasksWhole
    <3> QED
      BY <1>3, <3>1, <3>2 DEF Flushed
  <2>4. \A n \in Models : model'[n] = IF n = t.of THEN new ELSE model[n]
    BY <1>1, <1>3 DEF IInv, TypeOK
  <2>5. \A b \in Admins : task'[b] = IF b = a THEN NoTask ELSE task[b]
    BY <1>3 DEF IInv, TypeOK
  <2>6. /\ model' \in [Models -> ModelRow \cup {NoRow}]
        /\ task' \in [Admins -> Task]
    <3>1. model' \in [Models -> ModelRow \cup {NoRow}]
      BY <1>1, <1>3, <2>2 DEF IInv, TypeOK
    <3>2. task' \in [Admins -> Task]
      BY <1>3, Begun DEF IInv, TypeOK
    <3> QED
      BY <3>1, <3>2
  <2> HIDE DEF new
  <2>7. Whole'
    <3>1. RowsWhole'
      BY <1>3, <2>3, <2>4 DEF IInv, Whole, RowsWhole, Exists
    <3>2. \A b \in Admins :
            /\ task'[b].op = "update_model" => model'[task'[b].of] # NoRow
            /\ task'[b].op \in {"update_provider", "delete_provider"}
                  => provider'[task'[b].of] # NoRow
      <4> SUFFICES ASSUME NEW b \in Admins, b # a
                   PROVE  /\ task[b].op = "update_model" => model'[task[b].of] # NoRow
                          /\ task[b].op \in {"update_provider", "delete_provider"}
                                => provider'[task[b].of] # NoRow
        BY <2>5 DEF NoTask
      <4>1. task[b] \in Task
        BY DEF IInv, TypeOK
      <4>2. task[b].op = "update_model" => task[b].of \in Models
        BY <4>1, TaskFields
      <4> QED
        BY <1>3, <2>2, <2>4, <4>2, Forms DEF IInv, Whole, RowsWhole, TasksWhole
    <3> QED
      BY <3>1, <3>2 DEF Whole, TasksWhole
  <2> QED
    BY <1>0, <1>3, <2>6, <2>7, CommitKeeps DEF IInv, TypeOK
<1> QED
  BY <1>2, <1>3 DEF CommitModel

LEMMA delete_modelKeeps ==
    ASSUME IInv, NEW a \in Admins, NEW m \in Models, delete_model(a, m)
    PROVE  IInv'
<1>1. /\ model' = [model EXCEPT ![m] = NoRow] /\ calm' = FALSE
      /\ task' = [b \in Admins |-> IF task[b].op = "update_model" /\ task[b].of = m
                                   THEN NoTask ELSE task[b]]
      /\ UNCHANGED <<provider, request>>
  BY DEF delete_model
<1>2. \A n \in Models : model'[n] = IF n = m THEN NoRow ELSE model[n]
  BY <1>1 DEF IInv, TypeOK
<1>3. model' \in [Models -> ModelRow \cup {NoRow}]
  BY <1>1 DEF IInv, TypeOK
<1>4. task' \in [Admins -> Task]
  BY <1>1, Begun DEF IInv, TypeOK
<1>5. Whole'
  <2>1. RowsWhole'
    BY <1>1, <1>2 DEF IInv, Whole, RowsWhole, Exists
  <2>2. ASSUME NEW b \in Admins
        PROVE  /\ task'[b].op = "update_model" => model'[task'[b].of] # NoRow
               /\ task'[b].op \in {"update_provider", "delete_provider"}
                     => provider'[task'[b].of] # NoRow
    <3>1. task[b] \in Task
      BY DEF IInv, TypeOK
    <3>2. task[b].op = "update_model" => task[b].of \in Models
      BY <3>1, TaskFields
    <3>3. CASE task[b].op = "update_model" /\ task[b].of = m
      BY <1>1, <3>3 DEF NoTask
    <3>4. CASE ~(task[b].op = "update_model" /\ task[b].of = m)
      BY <1>1, <1>2, <3>2, <3>4 DEF IInv, Whole, RowsWhole, TasksWhole
    <3> QED
      BY <3>3, <3>4
  <2> QED
    BY <2>1, <2>2 DEF Whole, TasksWhole
<1> QED
  BY <1>1, <1>3, <1>4, <1>5, CommitKeeps DEF IInv, TypeOK

LEMMA add_providerKeeps ==
    ASSUME IInv, NEW a \in Admins, NEW p \in Providers, NEW form \in ProviderForms,
           add_provider(a, p, form)
    PROVE  IInv'
<1>1. /\ provider' = [provider EXCEPT ![p] = form] /\ calm' = FALSE
      /\ UNCHANGED <<model, task, request>>
  BY DEF add_provider
<1>2. provider' \in [Providers -> ProviderRow \cup {NoRow, Deleted}]
  BY <1>1, Forms DEF IInv, TypeOK
<1>3. \A q \in Providers : provider'[q] = IF q = p THEN form ELSE provider[q]
  BY <1>1 DEF IInv, TypeOK
<1>4. RowsWhole'
  <2>1. \A n \in Models : model[n] # NoRow /\ model[n].provider # NoProvider
            => model[n].provider \in Providers
    BY DEF IInv, TypeOK, ModelRow
  <2> QED
    BY <1>1, <1>3, <2>1, Forms DEF IInv, Whole, RowsWhole, Exists
<1>5. TasksWhole'
  <2>1. \A b \in Admins : task[b].op \in {"update_provider", "delete_provider"}
            => task[b].of \in Providers
    BY TaskFields DEF IInv, TypeOK
  <2> QED
    BY <1>1, <1>3, <2>1, Forms DEF IInv, Whole, TasksWhole
<1> QED
  BY <1>1, <1>2, <1>4, <1>5, CommitKeeps DEF IInv, TypeOK, Whole

LEMMA update_providerKeeps ==
    ASSUME IInv, NEW a \in Admins, NEW p \in Providers, NEW form \in ProviderForms,
           update_provider(a, p, form)
    PROVE  IInv'
<1>1. provider[p] \in ProviderRow
  BY DEF update_provider, IInv, TypeOK
<1> DEFINE t == [op |-> "update_provider", of |-> p, seen |-> provider[p], form |-> form]
<1>2. t \in Task
  BY <1>1, Begun
<1>3. Start(a, t) /\ provider[t.of] # NoRow /\ t.op = "update_provider"
  BY DEF update_provider
<1> HIDE DEF t
<1> QED
  BY <1>2, <1>3, StartKeeps

LEMMA delete_providerKeeps ==
    ASSUME IInv, NEW a \in Admins, NEW p \in Providers, delete_provider(a, p)
    PROVE  IInv'
<1> DEFINE t == [op |-> "delete_provider", of |-> p]
<1>2. t \in Task
  BY Begun
<1>3. Start(a, t) /\ provider[t.of] # NoRow /\ t.op = "delete_provider"
  BY DEF delete_provider
<1> HIDE DEF t
<1> QED
  BY <1>2, <1>3, StartKeeps

\* The end of a task leaves the others'.
LEMMA TaskEnds ==
    ASSUME IInv, NEW a \in Admins, task' = [task EXCEPT ![a] = NoTask]
    PROVE  /\ task' \in [Admins -> Task]
           /\ \A b \in Admins : task'[b].op # "none" => b # a /\ task'[b] = task[b]
<1>1. task' \in [Admins -> Task]
  BY Begun DEF IInv, TypeOK
<1>2. \A b \in Admins : task'[b] = IF b = a THEN NoTask ELSE task[b]
  BY DEF IInv, TypeOK
<1> QED
  BY <1>1, <1>2 DEF NoTask

LEMMA CommitProviderKeeps ==
    ASSUME IInv, NEW a \in Admins, CommitProvider(a)
    PROVE  IInv'
<1> DEFINE t == task[a]
<1>0. t \in Task /\ t.op = "update_provider" /\ UNCHANGED request
  BY DEF CommitProvider, IInv, TypeOK
<1>1. t.of \in Providers /\ t.seen \in ProviderRow /\ t.form \in ProviderForms
  BY <1>0, TaskFields
<1>2. CASE Refuse(a)
  BY <1>0, <1>2, RefuseKeeps
<1>3. CASE /\ provider[t.of] # Deleted
           /\ provider' = [provider EXCEPT ![t.of] = FlushedProvider(@, t.seen, t.form)]
           /\ calm' = FALSE
           /\ task' = [task EXCEPT ![a] = NoTask]
           /\ UNCHANGED model
  <2>1. provider[t.of] \in ProviderRow
    BY <1>0, <1>1, <1>3 DEF IInv, TypeOK, Whole, TasksWhole
  <2> DEFINE new == FlushedProvider(provider[t.of], t.seen, t.form)
  <2>2. new \in ProviderRow
    BY <1>1, <2>1, Forms, FlushedProviderType
  <2>3. /\ provider' \in [Providers -> ProviderRow \cup {NoRow, Deleted}]
        /\ \A q \in Providers : provider'[q] = IF q = t.of THEN new ELSE provider[q]
    BY <1>1, <1>3, <2>2 DEF IInv, TypeOK
  <2> HIDE DEF new
  <2>4. RowsWhole'
    <3>1. \A n \in Models : model[n] # NoRow /\ model[n].provider # NoProvider
              => model[n].provider \in Providers
      BY DEF IInv, TypeOK, ModelRow
    <3> QED
      BY <1>3, <2>2, <2>3, <3>1, Forms DEF IInv, Whole, RowsWhole, Exists
  <2>5. TasksWhole'
    <3>1. \A b \in Admins : task[b].op \in {"update_provider", "delete_provider"}
              => task[b].of \in Providers
      BY TaskFields DEF IInv, TypeOK
    <3>2. \A b \in Admins : task'[b].op # "none" => task'[b] = task[b]
      BY <1>3, TaskEnds
    <3>3. \A q \in Providers : provider[q] # NoRow => provider'[q] # NoRow
      BY <2>2, <2>3, Forms
    <3> QED
      BY <1>3, <3>1, <3>2, <3>3 DEF IInv, Whole, TasksWhole
  <2> QED
    BY <1>0, <1>3, <2>3, <2>4, <2>5, TaskEnds, CommitKeeps DEF IInv, TypeOK, Whole
<1> QED
  BY <1>2, <1>3 DEF CommitProvider

LEMMA CommitDeleteKeeps ==
    ASSUME IInv, NEW a \in Admins, CommitDelete(a)
    PROVE  IInv'
<1> DEFINE t == task[a]
<1>0. t \in Task /\ t.op = "delete_provider"
  BY DEF CommitDelete, IInv, TypeOK
<1>1. t.of \in Providers
  BY <1>0, TaskFields
<1>2. /\ provider' = [provider EXCEPT ![t.of] = Deleted]
      /\ model' = [m \in Models |->
                      IF model[m] # NoRow /\ model[m].provider = t.of
                      THEN [model[m] EXCEPT !.provider = NoProvider] ELSE model[m]]
      /\ task' = [task EXCEPT ![a] = NoTask]
      /\ calm' = FALSE
      /\ UNCHANGED request
  BY DEF CommitDelete
<1>3. /\ provider' \in [Providers -> ProviderRow \cup {NoRow, Deleted}]
      /\ \A q \in Providers : provider'[q] = IF q = t.of THEN Deleted ELSE provider[q]
  BY <1>1, <1>2 DEF IInv, TypeOK
<1>4. ASSUME NEW n \in Models
      PROVE  /\ model'[n] \in ModelRow \cup {NoRow}
             /\ model'[n] # NoRow <=> model[n] # NoRow
             /\ model'[n] # NoRow => model'[n].provider =
                    IF model[n].provider = t.of THEN NoProvider ELSE model[n].provider
  <2>1. model[n] \in ModelRow \cup {NoRow}
    BY DEF IInv, TypeOK
  <2>2. ASSUME model[n] \in ModelRow
        PROVE  /\ [model[n] EXCEPT !.provider = NoProvider] \in ModelRow
               /\ [model[n] EXCEPT !.provider = NoProvider].provider = NoProvider
    BY <2>2 DEF ModelRow
  <2> QED
    BY <1>2, <2>1, <2>2, Forms
<1>5. model' \in [Models -> ModelRow \cup {NoRow}]
  BY <1>2, <1>4
<1>6. RowsWhole'
  <2>1. \A n \in Models : model[n] # NoRow /\ model[n].provider # NoProvider
            => model[n].provider \in Providers
    BY DEF IInv, TypeOK, ModelRow
  <2> QED
    BY <1>3, <1>4, <2>1 DEF IInv, Whole, RowsWhole, Exists
<1>7. TasksWhole'
  <2>1. \A b \in Admins :
            /\ task[b].op \in {"update_provider", "delete_provider"} => task[b].of \in Providers
            /\ task[b].op = "update_model" => task[b].of \in Models
    BY TaskFields DEF IInv, TypeOK
  <2> QED
    BY <1>2, <1>3, <1>4, <2>1, TaskEnds, Forms DEF IInv, Whole, TasksWhole
<1> QED
  BY <1>2, <1>3, <1>5, <1>6, <1>7, TaskEnds, CommitKeeps DEF Whole

-----------------------------------------------------------------------------
(* The invariant of every run *)

LEMMA InitInv == Init => IInv
<1> SUFFICES ASSUME Init PROVE IInv
  OBVIOUS
<1>1. LegacyRows \subseteq ModelRow /\ SeededRows \subseteq ProviderRow
  BY ConstantsAssumption
<1>2. NoTask \in Task /\ Answer("none") \in Outcomes /\ "systemone" \in Wires
  BY Begun, AnswerKinds DEF Wires
<1>3. TypeOK
  <2>1. calm \in BOOLEAN
    BY Zenon DEF Init
  <2>2. /\ model \in [Models -> ModelRow \cup {NoRow}]
        /\ provider \in [Providers -> ProviderRow \cup {NoRow, Deleted}]
        /\ task \in [Admins -> Task]
    BY <1>1, <1>2 DEF Init, NoTask
  <2> QED
    BY <1>2, <2>1, <2>2 DEF Init, TypeOK
<1>4. Whole
  BY ConstantsAssumption DEF Init, Whole, RowsWhole, TasksWhole, Exists
<1>5. Asking /\ Current
  BY DEF Init, Asking, Current
<1> QED
  BY <1>3, <1>4, <1>5 DEF IInv

LEMMA ConsoleKeeps ==
    ASSUME IInv, NEW a \in Admins, Console(a)
    PROVE  IInv'
  BY add_modelKeeps, update_modelKeeps, CommitModelKeeps, delete_modelKeeps,
     add_providerKeeps, update_providerKeeps, CommitProviderKeeps,
     delete_providerKeeps, CommitDeleteKeeps DEF Console

LEMMA NextKeeps == IInv /\ [Next]_vars => IInv'
<1> SUFFICES ASSUME IInv, [Next]_vars PROVE IInv'
  OBVIOUS
<1>1. CASE Call
  <2>1. UNCHANGED <<tables, task>>
    BY <1>1 DEF Call, List, ListReturns, Request, Resolve, CheckExact, LoadBase, ResolveBase
  <2> QED
    BY <1>1, <2>1, CallType, CallCurrent, SameTables DEF IInv
<1>2. ASSUME NEW a \in Admins, Console(a) PROVE IInv'
  BY <1>2, ConsoleKeeps
<1>3. CASE UNCHANGED vars
  <2>1. UNCHANGED request /\ UNCHANGED <<tables, calm>> /\ UNCHANGED <<tables, task>>
    BY <1>3 DEF vars
  <2>2. TypeOK'
    BY <2>1, RequestType DEF IInv, TypeOK, tables
  <2> QED
    BY <2>1, <2>2, AskedStays, SameTables DEF IInv, Asked
<1> QED
  BY <1>1, <1>2, <1>3 DEF Next

LEMMA Inductive == Spec => []IInv
<1>1. Init => IInv
  BY InitInv
<1>2. IInv /\ [Next]_vars => IInv'
  BY NextKeeps
<1> QED
  BY <1>1, <1>2, PTL DEF Spec

\* Every variable keeps its type.
THEOREM TypeCorrect == Spec => []TypeOK
<1>1. IInv => TypeOK
  BY DEF IInv
<1> QED
  BY <1>1, Inductive, PTL

-----------------------------------------------------------------------------
(* What follows from it *)

\* Why a settled request was answered as it was.
LEMMA Decided ==
    ASSUME IInv, Settled, model[asked] # NoRow
    PROVE  /\ outcome \in Now(asked)
           /\ listing = Offered(model[asked], ProviderOf(model[asked]), caller)
           /\ caller \in Callers /\ wire \in Wires /\ model[asked] \in ModelRow
  BY DEF IInv, Settled, Current, Asking, AliasNow, TypeOK

\* A model is refused on no wire on which it is listed for the harness that
\* asks, save for the path its provider was given (deployments.py:420-422).
THEOREM ListedAccepted == Spec => []ListedIsAccepted
<1>1. IInv => ListedIsAccepted
  <2> SUFFICES ASSUME IInv, Settled, caller.harness # Unnamed, wire \in listing
               PROVE  \/ outcome.kind \in {"sent", "no_credential"}
                      \/ outcome.kind = "wrong_protocol" /\ model[asked].provider # NoProvider
    BY DEF ListedIsAccepted
  <2> DEFINE r == model[asked]
             p == ProviderOf(model[asked])
             to == resolve_target_uri(r, p, wire)
  <2>1. listing = Offered(r, p, caller)
    BY DEF IInv, Settled, Current
  <2>2. r # NoRow
    BY <2>1 DEF Offered, Readable
  <2>3. /\ outcome \in Now(asked) /\ caller \in Callers /\ wire \in Wires
        /\ r \in ModelRow
    BY <2>2, Decided
  <2>4. /\ Readable(r, caller) /\ wire \in wires_for(r, p)
        /\ visible_to(r, judged_harness(wire, caller.harness))
    BY <2>1 DEF Offered
  <2>5. ~Hidden(r, caller, wire)
    BY <2>3, <2>4, JudgedAlike DEF Hidden
  <2>6. to # NoTarget
    BY <2>4 DEF wires_for
  <2>7. outcome = Answer("no_credential") \/ outcome =
            IF Serves(to.shape, wire) THEN [kind |-> "sent", host |-> to.host]
            ELSE Answer("wrong_protocol")
    BY <2>3, <2>5, <2>6 DEF Now, Resolved
  <2>8. CASE ~Serves(to.shape, wire)
    <3>1. p # NoRow
      <4>1. SUFFICES ASSUME p = NoRow PROVE FALSE
        OBVIOUS
      <4>2. Serves(r.uri, wire)
        BY <2>4, <4>1 DEF wires_for
      <4>3. to = Target(NoProvider, r.uri)
        BY <4>1 DEF resolve_target_uri
      <4> QED
        BY <2>6, <2>8, <4>2, <4>3 DEF Target
    <3>2. r.provider # NoProvider
      BY <3>1 DEF ProviderOf
    <3> QED
      BY <2>7, <2>8, <3>2 DEF Answer
  <2>9. CASE Serves(to.shape, wire)
    BY <2>7, <2>9 DEF Answer
  <2> QED
    BY <2>8, <2>9
<1> QED
  BY <1>1, Inductive, PTL

\* A request that was sent passed every check.
LEMMA SentFacts ==
    ASSUME NEW r, NEW p, NEW c, NEW w, NEW o \in Resolved(r, p, c, w), o.kind = "sent"
    PROVE  /\ ~Hidden(r, c, w)
           /\ resolve_target_uri(r, p, w) # NoTarget
           /\ Serves(resolve_target_uri(r, p, w).shape, w)
           /\ o.host = resolve_target_uri(r, p, w).host
  BY DEF Resolved, Answer

\* What a harness reaches it was listed, on the shapes that it sends
\* (deployments.py:201-207).
THEOREM ReachedListed == Spec => []ReachedIsListed
<1>1. IInv => ReachedIsListed
  <2> DEFINE r == model[asked]
             p == ProviderOf(model[asked])
  <2> SUFFICES ASSUME IInv, Settled, outcome.kind = "sent", model[asked] # NoRow,
                      r.measured, wire \in HARNESS_WIRES(caller.harness),
                      offerable_to(r, p, wire, caller.harness)
               PROVE  wire \in listing
    BY DEF ReachedIsListed
  <2>1. /\ outcome \in Now(asked) /\ caller \in Callers /\ wire \in Wires
        /\ listing = Offered(r, p, caller)
    BY Decided
  <2>2. /\ ~Hidden(r, caller, wire)
        /\ resolve_target_uri(r, p, wire) # NoTarget
        /\ Serves(resolve_target_uri(r, p, wire).shape, wire)
    BY <2>1, SentFacts DEF Now
  <2>3. wire \in ALL_WIRES
    BY <2>1, HarnessWires, ConstantsAssumption
  <2>4. p = NoRow => Serves(r.uri, wire)
    BY <2>2 DEF resolve_target_uri, Target
  <2>5. wire \in wires_for(r, p)
    BY <2>2, <2>3, <2>4 DEF wires_for
  <2>6. Readable(r, caller) /\ visible_to(r, judged_harness(wire, caller.harness))
    BY <2>1, <2>2, <2>3, JudgedAlike, JudgedNamed DEF Hidden
  <2> QED
    BY <2>1, <2>5, <2>6 DEF Offered
<1> QED
  BY <1>1, Inductive, PTL

\* A model that is withheld is answered as one that is not there
\* (deployments.py:374-385, proxy/anthropic.py:217-226).
THEOREM HiddenAbsent == Spec => []HiddenIsAbsent
<1>1. IInv => HiddenIsAbsent
  <2> DEFINE r == model[asked]
             p == ProviderOf(model[asked])
  <2> SUFFICES ASSUME IInv, Settled, model[asked] # NoRow, Hidden(r, caller, wire)
               PROVE  /\ outcome.kind = "absent"
                      /\ wire \in listing =>
                            Readable(r, caller) /\ caller.harness = Unnamed
    BY DEF HiddenIsAbsent
  <2>1. /\ outcome \in Now(asked) /\ caller \in Callers /\ wire \in Wires
        /\ listing = Offered(r, p, caller)
    BY Decided
  <2>2. outcome.kind = "absent"
    BY <2>1 DEF Now, Resolved, Answer
  <2>3. ASSUME wire \in listing
        PROVE  Readable(r, caller) /\ caller.harness = Unnamed
    BY <2>1, <2>3, JudgedAlike DEF Offered, Hidden
  <2> QED
    BY <2>2, <2>3
<1> QED
  BY <1>1, Inductive, PTL

\* A request reaches the provider its model is attached to, while that is
\* enabled, and nobody else (deployments.py:305-309).
THEOREM SwitchedOffSilent == Spec => []SwitchedOffIsSilent
<1>1. IInv => SwitchedOffIsSilent
  <2> DEFINE name == IF model[asked] = NoRow THEN AliasOf[asked] ELSE asked
             r == model[name]
             p == ProviderOf(r)
  <2> SUFFICES ASSUME IInv, Settled, outcome.kind = "sent"
               PROVE  /\ name # NoModel /\ r # NoRow /\ outcome.host = r.provider
                      /\ outcome.host # NoProvider => p.enabled
    BY DEF SwitchedOffIsSilent
  <2>1. outcome \in Now(asked) \/ (AliasNow /\ outcome \in Now(AliasOf[asked]))
    BY DEF IInv, Settled, Current
  <2>2. ASSUME outcome \in Now(asked) PROVE model[asked] # NoRow
    BY <2>2, SentFacts DEF Now, Hidden, Readable
  <2>3. /\ outcome \in Resolved(r, p, caller, wire)
        /\ asked \in Models
        /\ name = asked \/ (name = AliasOf[asked] /\ name # NoModel)
    BY <2>1, <2>2 DEF AliasNow, Now, IInv, TypeOK
  <2>4. name \in Models
    BY <2>3, ConstantsAssumption
  <2> HIDE DEF name
  <2>5. /\ ~Hidden(r, caller, wire)
        /\ resolve_target_uri(r, p, wire) # NoTarget
        /\ outcome.host = resolve_target_uri(r, p, wire).host
    BY <2>3, SentFacts
  <2>6. r # NoRow /\ Exists(r.provider)
    BY <2>4, <2>5 DEF Hidden, Readable, IInv, Whole, RowsWhole
  <2>7. name # NoModel
    BY <2>4, ConstantsAssumption
  <2>8. CASE r.provider = NoProvider
    BY <2>5, <2>6, <2>7, <2>8 DEF ProviderOf, resolve_target_uri, Target, NoTarget
  <2>9. CASE r.provider # NoProvider
    <3>1. p = provider[r.provider] /\ p # NoRow
      BY <2>6, <2>9 DEF ProviderOf, Exists
    <3>2. p.enabled /\ resolve_target_uri(r, p, wire) = Target(r.provider, path_for(p, wire))
      BY <2>5, <3>1 DEF resolve_target_uri
    <3> QED
      BY <2>5, <2>6, <2>7, <3>2 DEF Target
  <2> QED
    BY <2>8, <2>9
<1> QED
  BY <1>1, Inductive, PTL

-----------------------------------------------------------------------------
(* Rows that stay usable *)

\* What a handler goes on with would leave its row usable.
Valid(t) ==
    /\ t.op = "update_model" => _upstream_required(t.form)
    /\ t.op = "update_provider" => _paths(t.form)

Sound == \A a \in Admins : Valid(task[a])

\* A form that nobody overtook is written as it is, but for systemone.
LEMMA FlushedForm ==
    /\ \A seen \in ModelRow, form \in ModelRow : FlushedModel(seen, seen, form) = form
    /\ \A seen \in ProviderRow, form \in ProviderRow :
            _paths(form) => _paths(FlushedProvider(seen, seen, form))
<1>1. ASSUME NEW seen \in ModelRow, NEW form \in ModelRow
      PROVE  FlushedModel(seen, seen, form) = form
  BY DEF FlushedModel, Flushed, ModelRow
<1>2. ASSUME NEW seen \in ProviderRow, NEW form \in ProviderRow, NEW w \in ALL_WIRES,
             form.paths[w] # "none"
      PROVE  FlushedProvider(seen, seen, form).paths[w] # "none"
  BY <1>2 DEF FlushedProvider, Flushed, ALL_WIRES, ProviderRow
<1> QED
  BY <1>1, <1>2 DEF _paths

LEMMA Idle == Valid(NoTask) /\ ~Overtaken(NoTask) /\ ~Overtaken(NoTask)'
  BY DEF Valid, Overtaken, NoTask

\* How a step of one administrator changes the tasks.
Ended(a) == task'[a] = task[a] \/ task'[a] = NoTask
Started(b) ==
    /\ task[b] = NoTask /\ Valid(task'[b]) /\ ~Overtaken(task[b])' /\ UNCHANGED tables
    /\ \A a \in Admins \ {b} : task'[a] = task[a]

Finished(b) == task'[b] = NoTask /\ \A a \in Admins : Ended(a)

LEMMA Starting ==
    ASSUME IInv, NEW b \in Admins, NEW t, Start(b, t), Valid(t), ~Overtaken(t)
    PROVE  Started(b)
<1>1. /\ UNCHANGED tables /\ task'[b] = t /\ task[b] = NoTask
      /\ \A a \in Admins \ {b} : task'[a] = task[a]
  BY DEF Start, IInv, TypeOK
<1>2. ~Overtaken(task[b])'
  BY <1>1 DEF Overtaken, tables
<1> QED
  BY <1>1, <1>2 DEF Started

LEMMA TaskNext ==
    ASSUME IInv, NEW b \in Admins, Console(b)
    PROVE  Started(b) \/ Finished(b)
<1>1. ASSUME NEW m \in Models, NEW form \in ModelForms, add_model(b, m, form)
      PROVE  Finished(b)
  BY <1>1 DEF add_model, Finished, Ended
<1>2. ASSUME NEW m \in Models, NEW form \in ModelForms, update_model(b, m, form)
      PROVE  Started(b)
  <2> DEFINE t == [op |-> "update_model", of |-> m, seen |-> model[m], form |-> form]
  <2>1. Start(b, t) /\ Valid(t) /\ ~Overtaken(t)
    BY <1>2 DEF update_model, Valid, Overtaken
  <2> HIDE DEF t
  <2> QED
    BY <2>1, Starting
<1>3. ASSUME NEW p \in Providers, NEW form \in ProviderForms, update_provider(b, p, form)
      PROVE  Started(b)
  <2> DEFINE t == [op |-> "update_provider", of |-> p, seen |-> provider[p], form |-> form]
  <2>1. Start(b, t) /\ Valid(t) /\ ~Overtaken(t)
    BY <1>3 DEF update_provider, Valid, Overtaken
  <2> HIDE DEF t
  <2> QED
    BY <2>1, Starting
<1>4. ASSUME NEW p \in Providers, delete_provider(b, p)
      PROVE  Started(b)
  <2> DEFINE t == [op |-> "delete_provider", of |-> p]
  <2>1. Start(b, t) /\ Valid(t) /\ ~Overtaken(t)
    BY <1>4 DEF delete_provider, Valid, Overtaken
  <2> HIDE DEF t
  <2> QED
    BY <2>1, Starting
<1>5. ASSUME NEW p \in Providers, NEW form \in ProviderForms, add_provider(b, p, form)
      PROVE  Finished(b)
  BY <1>5 DEF add_provider, Finished, Ended
<1>6. ASSUME task' = [task EXCEPT ![b] = NoTask]
      PROVE  Finished(b)
  BY <1>6 DEF IInv, TypeOK, Finished, Ended
<1>7. CASE CommitModel(b) \/ CommitProvider(b) \/ CommitDelete(b)
  BY <1>6, <1>7 DEF CommitModel, CommitProvider, CommitDelete, Refuse
<1>8. ASSUME NEW m \in Models, delete_model(b, m)
      PROVE  Finished(b)
  BY <1>8 DEF delete_model, NoTask, Finished, Ended
<1> QED
  BY <1>1, <1>2, <1>3, <1>4, <1>5, <1>7, <1>8 DEF Console

\* A step of one administrator, other than a commit that was overtaken, leaves
\* the rows usable.
LEMMA UsableNext ==
    ASSUME IInv, Sound, RowsStayUsable, NEW b \in Admins, Console(b), ~Overtaken(task[b])
    PROVE  RowsStayUsable'
<1>1. ASSUME UNCHANGED tables PROVE RowsStayUsable'
  BY <1>1 DEF RowsStayUsable, tables
<1>2. ASSUME NEW m \in Models, NEW form \in ModelForms, add_model(b, m, form)
      PROVE  RowsStayUsable'
  <2>1. \A n \in Models : model'[n] = IF n = m THEN form ELSE model[n]
    BY <1>2 DEF add_model, IInv, TypeOK
  <2> QED
    BY <1>2, <2>1 DEF add_model, RowsStayUsable
<1>3. CASE Refuse(b)
  BY <1>1, <1>3 DEF Refuse
<1>4. CASE CommitModel(b)
  <2> DEFINE t == task[b]
  <2>1. CASE /\ model' = [model EXCEPT ![t.of] = FlushedModel(@, t.seen, t.form)]
             /\ UNCHANGED provider
    <3>1. t \in Task /\ t.op = "update_model"
      BY <1>4 DEF CommitModel, IInv, TypeOK
    <3>2. /\ t.of \in Models /\ t.seen \in ModelRow /\ t.form \in ModelRow
          /\ t.seen = model[t.of] /\ _upstream_required(t.form)
      BY <3>1, TaskFields, Forms DEF Overtaken, Sound, Valid
    <3>3. \A n \in Models : model'[n] = IF n = t.of THEN t.form ELSE model[n]
      BY <2>1, <3>2, FlushedForm DEF IInv, TypeOK
    <3> QED
      BY <2>1, <3>2, <3>3 DEF RowsStayUsable
  <2> QED
    BY <1>3, <1>4, <2>1 DEF CommitModel
<1>5. ASSUME NEW m \in Models, delete_model(b, m)
      PROVE  RowsStayUsable'
  <2>1. \A n \in Models : model'[n] = IF n = m THEN NoRow ELSE model[n]
    BY <1>5 DEF delete_model, IInv, TypeOK
  <2> QED
    BY <1>5, <2>1 DEF delete_model, RowsStayUsable
<1>6. ASSUME NEW p \in Providers, NEW form \in ProviderForms, add_provider(b, p, form)
      PROVE  RowsStayUsable'
  <2>1. \A q \in Providers : provider'[q] = IF q = p THEN form ELSE provider[q]
    BY <1>6 DEF add_provider, IInv, TypeOK
  <2> QED
    BY <1>6, <2>1 DEF add_provider, RowsStayUsable
<1>7. CASE CommitProvider(b)
  <2> DEFINE t == task[b]
  <2>1. CASE /\ provider' = [provider EXCEPT ![t.of] = FlushedProvider(@, t.seen, t.form)]
             /\ UNCHANGED model
    <3>1. t \in Task /\ t.op = "update_provider"
      BY <1>7 DEF CommitProvider, IInv, TypeOK
    <3>2. /\ t.of \in Providers /\ t.seen \in ProviderRow /\ t.form \in ProviderRow
          /\ t.seen = provider[t.of] /\ _paths(t.form)
      BY <3>1, TaskFields, Forms DEF Overtaken, Sound, Valid
    <3> DEFINE new == FlushedProvider(t.seen, t.seen, t.form)
    <3>3. \A q \in Providers : provider'[q] = IF q = t.of THEN new ELSE provider[q]
      BY <2>1, <3>2 DEF IInv, TypeOK
    <3>4. _paths(new)
      BY <3>2, FlushedForm
    <3> HIDE DEF new
    <3> QED
      BY <2>1, <3>2, <3>3, <3>4 DEF RowsStayUsable
  <2> QED
    BY <1>3, <1>7, <2>1 DEF CommitProvider
<1>8. CASE CommitDelete(b)
  <2> DEFINE t == task[b]
  <2>1. t \in Task /\ t.op = "delete_provider" /\ provider' = [provider EXCEPT ![t.of] = Deleted]
    BY <1>8 DEF CommitDelete, IInv, TypeOK
  <2>2. \A m \in Models : model[m] # NoRow => model[m].provider # t.of
    BY <2>1 DEF Overtaken
  <2>3. \A m \in Models : model'[m] = model[m]
    BY <1>8, <2>2 DEF CommitDelete
  <2>4. \A q \in Providers : provider'[q] \in {Deleted, provider[q]}
    BY <2>1 DEF IInv, TypeOK
  <2> QED
    BY <2>3, <2>4 DEF RowsStayUsable
<1>9. CASE \E t : Start(b, t)
  BY <1>1, <1>9 DEF Start
<1> QED
  BY <1>2, <1>4, <1>5, <1>6, <1>7, <1>8, <1>9
     DEF Console, update_model, update_provider, delete_provider

\* A commit ends its task, and nothing else goes on with one.
LEMMA CommitEnds ==
    ASSUME IInv, NEW b \in Admins, Console(b), Overtaken(task[b])
    PROVE  task'[b] # task[b]
<1>1. task[b] # NoTask
  BY Idle
<1>2. CommitModel(b) \/ CommitProvider(b) \/ CommitDelete(b)
  BY <1>1 DEF Console, add_model, update_model, delete_model, add_provider,
              update_provider, delete_provider, Start
<1>3. task' = [task EXCEPT ![b] = NoTask]
  BY <1>2 DEF CommitModel, CommitProvider, CommitDelete, Refuse
<1> QED
  BY <1>1, <1>3 DEF IInv, TypeOK

LEMMA Quiet == Call \/ UNCHANGED vars => UNCHANGED <<tables, task>>
  BY DEF Call, List, ListReturns, Request, Resolve, CheckExact, LoadBase, ResolveBase, vars

LEMMA SoundInv == Spec => [](IInv /\ Sound)
<1>1. Init => IInv /\ Sound
  BY InitInv, Idle DEF Init, Sound, NoTask
<1>2. IInv /\ Sound /\ [Next]_vars => (IInv /\ Sound)'
  <2> SUFFICES ASSUME IInv, Sound, [Next]_vars PROVE Sound'
    BY NextKeeps
  <2>1. CASE Call \/ UNCHANGED vars
    BY <2>1, Quiet DEF Sound
  <2>2. ASSUME NEW b \in Admins, Console(b) PROVE Sound'
    BY <2>2, TaskNext, Idle DEF Sound, Started, Finished, Ended
  <2> QED
    BY <2>1, <2>2 DEF Next
<1> QED
  BY <1>1, <1>2, PTL DEF Spec

\* Only a commit that was overtaken leaves a row unusable, and no handler goes
\* on that is overtaken already (admin/models.py:229-231,
\* admin/providers.py:207-215).
THEOREM OnlyRaces == Spec => OnlyRacesBreakRows
<1> DEFINE Kept ==
      RowsStayUsable =>
          RowsStayUsable' \/ \E a \in Admins : task'[a] # task[a] /\ Overtaken(task[a])
           Begins == \A a \in Admins : task[a] = NoTask => ~Overtaken(task[a])'
<1>1. IInv /\ Sound /\ [Next]_vars => [Kept /\ Begins]_vars
  <2> SUFFICES ASSUME IInv, Sound, [Next]_vars PROVE Kept /\ Begins
    OBVIOUS
  <2>1. CASE Call \/ UNCHANGED vars
    <3>1. UNCHANGED <<tables, task>>
      BY <2>1, Quiet
    <3>2. Kept
      BY <3>1 DEF RowsStayUsable, tables
    <3>3. Begins
      BY <3>1 DEF Overtaken, NoTask
    <3> QED
      BY <3>2, <3>3
  <2>2. ASSUME NEW b \in Admins, Console(b) PROVE Kept /\ Begins
    <3>1. Kept
      BY <2>2, UsableNext, CommitEnds
    <3>2. ASSUME NEW a \in Admins, task[a] = NoTask PROVE ~Overtaken(task[a])'
      <4>1. task'[a] = NoTask \/ (a = b /\ Started(b))
        BY <2>2, <3>2, TaskNext DEF Started, Finished, Ended
      <4> QED
        BY <4>1 DEF Started, Overtaken, NoTask
    <3> QED
      BY <3>1, <3>2
  <2> QED
    BY <2>1, <2>2 DEF Next
<1> QED
  BY <1>1, SoundInv, PTL DEF Spec, OnlyRacesBreakRows

\* With one administrator no model is left without an upstream, and no
\* provider without a shape (admin/models.py:231, admin/providers.py:84).
THEOREM OneAdministrator ==
    ASSUME NEW CONSTANT a, Admins = {a}
    PROVE  Spec => []RowsStayUsable
<1> DEFINE UInv == RowsStayUsable /\ ~Overtaken(task[a])
<1>1. Init => UInv
  BY ConstantsAssumption
     DEF Init, RowsStayUsable, _upstream_required, _paths, Overtaken
<1>2. UInv /\ IInv /\ Sound /\ [Next]_vars => UInv'
  <2> SUFFICES ASSUME UInv, IInv, Sound, [Next]_vars PROVE UInv'
    OBVIOUS
  <2>1. CASE Call \/ UNCHANGED vars
    <3>1. UNCHANGED <<tables, task>>
      BY <2>1, Quiet
    <3> QED
      BY <3>1 DEF RowsStayUsable, tables, Overtaken
  <2>2. CASE Console(a)
    <3>1. RowsStayUsable'
      BY <2>2, UsableNext
    <3>2. task'[a] = NoTask \/ Started(a)
      BY <2>2, TaskNext DEF Finished
    <3> QED
      BY <3>1, <3>2 DEF Started, Overtaken, NoTask
  <2> QED
    BY <2>1, <2>2 DEF Next
<1> QED
  BY <1>1, <1>2, SoundInv, PTL DEF Spec

=============================================================================
