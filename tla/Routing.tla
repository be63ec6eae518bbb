------------------------------ MODULE Routing -------------------------------
(***************************************************************************)
(* Where a request goes: what a model list offers (listing_for) and what a *)
(* request for a model is answered (resolve_deployment, the aliases of the *)
(* Messages route, reject_wrong_protocol), over the two tables that the    *)
(* console edits meanwhile (admin/models.py, admin/providers.py).          *)
(*                                                                         *)
(* Every query is a step of its own, so rows change between a listing's    *)
(* two queries, between those of a request, and between the query of a     *)
(* console request and its commit.  A URI is abstracted to who hosts it    *)
(* and to which wire its path is recognised as.  One caller stands for     *)
(* all: callers share no state.                                            *)
(***************************************************************************)
EXTENDS FiniteSets

CONSTANTS
    Models,         \* deployment names
    Providers,      \* provider ids, used once
    Admins,         \* console requests in progress
    Callers,        \* who asks: a harness's name, or none, and the key's role
    AliasOf,        \* the name an alias of the Messages route stands for
    ModelForms,     \* what the model form is submitted with
    ProviderForms,  \* what the provider form is submitted with
    LegacyRows,     \* models rows from before providers and context windows
    SeededRows,     \* providers rows that the migrations have made
    NoModel,
    NoProvider,
    NoRow,
    Deleted

Wires == {"anthropic_messages", "openai_responses", "chat_completions", "systemone"}

ALL_WIRES == Wires \ {"systemone"}

\* What the path of a URI is recognised as; "other" is a path of some vendor's.
Shapes == {"messages", "responses", "chat", "other"}
Paths == Shapes \cup {"none"}

Harnesses == {"claude", "codex", "dsh", "hermes"}
WITHHOLDABLE_HARNESSES == {"claude", "codex", "dsh"}
DECLARED_HARNESSES == {"dsh"}
Unnamed == "none"

ProviderRow == [paths : [Wires -> Paths], enabled : BOOLEAN]
ModelRow == [provider : Providers \cup {NoProvider}, uri : Paths,
             harnesses : SUBSET WITHHOLDABLE_HARNESSES,
             enabled : BOOLEAN, adminOnly : BOOLEAN, measured : BOOLEAN]

ASSUME ConstantsAssumption ==
    /\ Callers \subseteq [harness : Harnesses \cup {Unnamed}, admin : BOOLEAN]
    /\ AliasOf \in [Models -> Models \cup {NoModel}]
    /\ ModelForms \subseteq ModelRow
    /\ \A form \in ModelForms : form.measured
    /\ ProviderForms \subseteq ProviderRow
    /\ \A form \in ProviderForms : form.paths["systemone"] = "none"
    /\ LegacyRows \subseteq ModelRow
    /\ \A row \in LegacyRows : row.provider = NoProvider /\ row.uri # "none"
    /\ SeededRows \subseteq ProviderRow
    /\ \A row \in SeededRows : \E w \in ALL_WIRES : row.paths[w] # "none"
    /\ NoModel \notin Models
    /\ NoProvider \notin Providers
    /\ NoRow \notin ModelRow \cup ProviderRow
    /\ Deleted \notin ProviderRow \cup {NoRow}

VARIABLES
    model,      \* the table models, by deployment_name
    provider,   \* the table providers
    task,       \* what each console request has loaded and means to write
    pc,         \* where the caller's request is
    caller,
    asked,      \* the model it asks about
    row,        \* the models row its request has loaded
    listing,    \* the wires it was offered that model on
    wire,       \* the wire of its request
    outcome,    \* how that was answered
    calm        \* no commit since the caller asked for the list

tables == <<model, provider>>
request == <<pc, caller, asked, row, listing, wire, outcome>>
vars == <<tables, task, request, calm>>

-----------------------------------------------------------------------------
(* Wires and harnesses (deployments.py) *)

HARNESS_FOR_WIRE(w) ==
    CASE w = "anthropic_messages" -> "claude"
      [] w = "openai_responses" -> "codex"
      [] w = "chat_completions" -> "codex"
      [] w = "systemone" -> Unnamed

HARNESS_WIRES(h) ==
    CASE h = "claude" -> {"anthropic_messages"}
      [] h = "codex" -> {"openai_responses", "chat_completions"}
      [] h = "dsh" -> {"chat_completions"}
      [] h \in {"hermes", Unnamed} -> ALL_WIRES

judged_harness(w, declared) ==
    IF declared \in DECLARED_HARNESSES /\ w \in HARNESS_WIRES(declared)
    THEN declared ELSE HARNESS_FOR_WIRE(w)

\* Mutant: no request names its harness.
Undeclared(c) == Unnamed

\* A harness that declares itself does so in each request (HARNESS_HEADER).
Declared(c) == IF c.harness \in DECLARED_HARNESSES THEN c.harness ELSE Unnamed

visible_to(r, h) == r.harnesses = {} \/ h \in r.harnesses

-----------------------------------------------------------------------------
(* Where a row is sent (deployments.py).  p is the provider the row was     *)
(* loaded with, NoRow where it has none.                                    *)

NoTarget == [host |-> NoProvider, shape |-> "none"]
Target(host, path) ==
    IF path = "none" THEN NoTarget ELSE [host |-> host, shape |-> path]

\* The Responses API and Anthropic Messages stand in for Chat Completions.
StandIn(p) ==
    IF p.paths["openai_responses"] # "none"
    THEN p.paths["openai_responses"] ELSE p.paths["anthropic_messages"]

path_for(p, w) ==
    IF w = "chat_completions" /\ p.paths[w] = "none" THEN StandIn(p) ELSE p.paths[w]

\* Mutant: the row's own URI where the provider is switched off.
OwnUriWhenDisabled(r, p, w) ==
    IF p = NoRow \/ ~p.enabled THEN Target(NoProvider, r.uri)
    ELSE Target(r.provider, path_for(p, w))

resolve_target_uri(r, p, w) ==
    IF p = NoRow THEN Target(NoProvider, r.uri)
    ELSE IF ~p.enabled THEN NoTarget
    ELSE Target(r.provider, path_for(p, w))

\* uri_serves, and what reject_wrong_protocol lets through.
Serves(shape, w) ==
    CASE w = "anthropic_messages" -> shape = "messages"
      [] w = "openai_responses" -> shape = "responses"
      [] w = "chat_completions" -> shape \in {"messages", "responses", "chat"}
      [] w = "systemone" -> TRUE

wires_for(r, p) ==
    {w \in ALL_WIRES :
        /\ resolve_target_uri(r, p, w) # NoTarget
        /\ p = NoRow => Serves(r.uri, w)}

\* Codex would send a Claude model to an endpoint that refuses it.
offerable_to(r, p, w, h) ==
    ~(w = "chat_completions" /\ h = "codex" /\ resolve_target_uri(r, p, w).shape = "messages")

Readable(r, c) == r # NoRow /\ r.enabled /\ (r.adminOnly => c.admin)

\* Mutant: a harness is judged by its own name, declared or not.
OfferedByName(r, p, c) ==
    IF ~Readable(r, c) \/ ~r.measured THEN {}
    ELSE {w \in wires_for(r, p) \cap HARNESS_WIRES(c.harness) :
            \/ c.harness = Unnamed
            \/ visible_to(r, c.harness) /\ offerable_to(r, p, w, c.harness)}

\* The wires on which listing_for offers the row.
Offered(r, p, c) ==
    IF ~Readable(r, c) \/ ~r.measured THEN {}
    ELSE {w \in wires_for(r, p) \cap HARNESS_WIRES(c.harness) :
            \/ c.harness = Unnamed
            \/ /\ visible_to(r, judged_harness(w, c.harness))
               /\ offerable_to(r, p, w, c.harness)}

Outcomes == [kind : {"none", "absent", "no_upstream", "no_credential", "wrong_protocol", "sent"},
             host : Providers \cup {NoProvider}]
Answer(kind) == [kind |-> kind, host |-> NoProvider]

Hidden(r, c, w) ==
    LET h == judged_harness(w, Declared(c)) IN
    ~Readable(r, c) \/ (h # Unnamed /\ ~visible_to(r, h))

\* resolve_deployment from its queries on, then reject_wrong_protocol.
Resolved(r, p, c, w) ==
    LET to == resolve_target_uri(r, p, w) IN
    IF Hidden(r, c, w) THEN {Answer("absent")}
    ELSE IF to = NoTarget THEN {Answer("no_upstream")}
    ELSE {Answer("no_credential"),
          IF Serves(to.shape, w) THEN [kind |-> "sent", host |-> to.host]
          ELSE Answer("wrong_protocol")}

-----------------------------------------------------------------------------
(* The caller *)

NoCaller == [harness |-> Unnamed, admin |-> FALSE]

Init ==
    /\ model \in [Models -> LegacyRows \cup {NoRow}]
    /\ provider \in [Providers -> SeededRows \cup {NoRow}]
    /\ task = [a \in Admins |-> [op |-> "none"]]
    /\ pc = "idle"
    /\ caller = NoCaller
    /\ asked \in Models
    /\ row = NoRow
    /\ listing = {}
    /\ wire = "systemone"
    /\ outcome = Answer("none")
    /\ calm = TRUE

\* The second query of a loader (selectinload): a provider deleted since the
\* first is not found, and the row then reads as one that has none.
ProviderOf(r) ==
    IF r = NoRow \/ r.provider = NoProvider THEN NoRow
    ELSE IF provider[r.provider] = Deleted THEN NoRow ELSE provider[r.provider]

\* /v1/models: the query of models.
List(c, m) ==
    /\ pc \in {"idle", "listed", "answered"}
    /\ pc' = "listing"
    /\ caller' = c
    /\ asked' = m
    /\ row' = model[m]
    /\ listing' = {}
    /\ wire' = "systemone"
    /\ outcome' = Answer("none")
    /\ calm' = TRUE
    /\ UNCHANGED <<tables, task>>

\* The query of their providers, and the answer.
ListReturns ==
    /\ pc = "listing"
    /\ pc' = "listed"
    /\ listing' = Offered(row, ProviderOf(row), caller)
    /\ row' = NoRow
    /\ UNCHANGED <<tables, task, caller, asked, wire, outcome, calm>>

\* A request on any wire, listed or not: the query of the model.
Request(w) ==
    /\ pc \in {"listed", "answered"}
    /\ pc' = "exact"
    /\ wire' = w
    /\ row' = model[asked]
    /\ outcome' = Answer("none")
    /\ UNCHANGED <<tables, task, caller, asked, listing, calm>>

Answered(o) ==
    /\ pc' = "answered"
    /\ outcome' = o
    /\ row' = NoRow

\* The query of its provider, and the decision.  On the Messages route an
\* alias that is not there may stand for another model.
Resolve ==
    /\ pc = "exact"
    /\ \E o \in Resolved(row, ProviderOf(row), caller, wire) :
        IF o.kind = "absent" /\ wire = "anthropic_messages" /\ AliasOf[asked] # NoModel
        THEN pc' = "missed" /\ row' = NoRow /\ UNCHANGED outcome
        ELSE Answered(o)
    /\ UNCHANGED <<tables, task, caller, asked, listing, wire, calm>>

\* Mutant: an alias stands for its base whatever row it has itself.
AliasRegardless ==
    /\ pc = "missed"
    /\ pc' = "base"
    /\ UNCHANGED <<tables, task, caller, asked, row, listing, wire, outcome, calm>>

\* The query for a row of that very name, which was hidden then.
CheckExact ==
    /\ pc = "missed"
    /\ \/ /\ model[asked] # NoRow
          /\ Answered(Answer("absent"))
       \/ /\ model[asked] = NoRow
          /\ pc' = "base"
          /\ UNCHANGED <<row, outcome>>
    /\ UNCHANGED <<tables, task, caller, asked, listing, wire, calm>>

LoadBase ==
    /\ pc = "base"
    /\ pc' = "alias"
    /\ row' = model[AliasOf[asked]]
    /\ UNCHANGED <<tables, task, caller, asked, listing, wire, outcome, calm>>

ResolveBase ==
    /\ pc = "alias"
    /\ \E o \in Resolved(row, ProviderOf(row), caller, wire) : Answered(o)
    /\ UNCHANGED <<tables, task, caller, asked, listing, wire, calm>>

Call ==
    \/ \E c \in Callers, m \in Models : List(c, m)
    \/ \E w \in Wires : Request(w)
    \/ ListReturns \/ Resolve \/ CheckExact \/ LoadBase \/ ResolveBase

-----------------------------------------------------------------------------
(* The console.  A handler that uses after an await what it read before it  *)
(* has a task; the others' checks are repeated by the constraints of the    *)
(* tables when they commit.                                                 *)

NoTask == [op |-> "none"]
Start(a, t) ==
    /\ task[a] = NoTask
    /\ task' = [task EXCEPT ![a] = t]
    /\ UNCHANGED <<tables, request, calm>>

\* The request ends in an error: nothing is written.
Refuse(a) ==
    /\ task' = [task EXCEPT ![a] = NoTask]
    /\ UNCHANGED <<tables, calm>>

Exists(p) == p # NoProvider => provider[p] \notin {NoRow, Deleted}

\* A model needs somewhere to go: a provider, or its own URI.
_upstream_required(form) == form.provider # NoProvider \/ form.uri # "none"

\* At least one shape, or the provider can serve nobody.
_paths(form) == \E w \in ALL_WIRES : form.paths[w] # "none"

\* Only the columns that the form changed are written.
Flushed(now, seen, form) == IF form = seen THEN now ELSE form

FlushedModel(now, seen, form) ==
    [provider |-> Flushed(now.provider, seen.provider, form.provider),
     uri |-> Flushed(now.uri, seen.uri, form.uri),
     harnesses |-> Flushed(now.harnesses, seen.harnesses, form.harnesses),
     enabled |-> Flushed(now.enabled, seen.enabled, form.enabled),
     adminOnly |-> Flushed(now.adminOnly, seen.adminOnly, form.adminOnly),
     measured |-> Flushed(now.measured, seen.measured, form.measured)]

\* The form has no field for the systemone path.
FlushedProvider(now, seen, form) ==
    [paths |-> [w \in Wires |->
        IF w = "systemone" THEN now.paths[w]
        ELSE Flushed(now.paths[w], seen.paths[w], form.paths[w])],
     enabled |-> Flushed(now.enabled, seen.enabled, form.enabled)]

add_model(a, m, form) ==
    /\ task[a] = NoTask
    /\ model[m] = NoRow
    /\ _upstream_required(form)
    /\ Exists(form.provider)
    /\ model' = [model EXCEPT ![m] = form]
    /\ calm' = FALSE
    /\ UNCHANGED <<provider, task, request>>

update_model(a, m, form) ==
    /\ model[m] # NoRow
    /\ _upstream_required(form)
    /\ Exists(form.provider)
    /\ Start(a, [op |-> "update_model", of |-> m, seen |-> model[m], form |-> form])

\* The foreign key is checked of a provider that is written.
CommitModel(a) ==
    LET t == task[a] IN
    /\ t.op = "update_model"
    /\ \/ /\ t.form.provider = t.seen.provider \/ Exists(t.form.provider)
          /\ model' = [model EXCEPT ![t.of] = FlushedModel(@, t.seen, t.form)]
          /\ calm' = FALSE
          /\ task' = [task EXCEPT ![a] = NoTask]
          /\ UNCHANGED provider
       \/ /\ t.form.provider # t.seen.provider /\ ~Exists(t.form.provider)
          /\ Refuse(a)
    /\ UNCHANGED request

\* Whoever loaded the row finds nothing to update.
delete_model(a, m) ==
    /\ task[a] = NoTask
    /\ model[m] # NoRow
    /\ model' = [model EXCEPT ![m] = NoRow]
    /\ task' = [b \in Admins |->
                    IF task[b].op = "update_model" /\ task[b].of = m THEN NoTask ELSE task[b]]
    /\ calm' = FALSE
    /\ UNCHANGED <<provider, request>>

add_provider(a, p, form) ==
    /\ task[a] = NoTask
    /\ provider[p] = NoRow
    /\ _paths(form)
    /\ provider' = [provider EXCEPT ![p] = form]
    /\ calm' = FALSE
    /\ UNCHANGED <<model, task, request>>

update_provider(a, p, form) ==
    /\ provider[p] \notin {NoRow, Deleted}
    /\ _paths(form)
    /\ Start(a, [op |-> "update_provider", of |-> p, seen |-> provider[p], form |-> form])

CommitProvider(a) ==
    LET t == task[a] IN
    /\ t.op = "update_provider"
    /\ \/ /\ provider[t.of] # Deleted
          /\ provider' = [provider EXCEPT ![t.of] = FlushedProvider(@, t.seen, t.form)]
          /\ calm' = FALSE
          /\ task' = [task EXCEPT ![a] = NoTask]
          /\ UNCHANGED model
       \/ /\ provider[t.of] = Deleted
          /\ Refuse(a)
    /\ UNCHANGED request

\* Mutant: nobody asks which models are attached.
DeleteAttached(a, p) ==
    /\ provider[p] \notin {NoRow, Deleted}
    /\ Start(a, [op |-> "delete_provider", of |-> p])

\* The query of the attached models refuses while there are any.
delete_provider(a, p) ==
    /\ provider[p] \notin {NoRow, Deleted}
    /\ \A m \in Models : model[m] # NoRow => model[m].provider # p
    /\ Start(a, [op |-> "delete_provider", of |-> p])

\* ON DELETE SET NULL is for the rows attached since.
CommitDelete(a) ==
    LET t == task[a] IN
    /\ t.op = "delete_provider"
    /\ provider' = [provider EXCEPT ![t.of] = Deleted]
    /\ model' = [m \in Models |->
                    IF model[m] # NoRow /\ model[m].provider = t.of
                    THEN [model[m] EXCEPT !.provider = NoProvider] ELSE model[m]]
    /\ task' = [task EXCEPT ![a] = NoTask]
    /\ calm' = FALSE
    /\ UNCHANGED request

Console(a) ==
    \/ \E m \in Models, form \in ModelForms : add_model(a, m, form) \/ update_model(a, m, form)
    \/ \E m \in Models : delete_model(a, m)
    \/ \E p \in Providers, form \in ProviderForms :
           add_provider(a, p, form) \/ update_provider(a, p, form)
    \/ \E p \in Providers : delete_provider(a, p)
    \/ CommitModel(a) \/ CommitProvider(a) \/ CommitDelete(a)

Next == Call \/ \E a \in Admins : Console(a)

Spec == Init /\ [][Next]_vars

-----------------------------------------------------------------------------
(* Properties *)

Task ==
    {NoTask}
    \cup [op : {"update_model"}, of : Models, seen : ModelRow, form : ModelForms]
    \cup [op : {"update_provider"}, of : Providers, seen : ProviderRow, form : ProviderForms]
    \cup [op : {"delete_provider"}, of : Providers]

\* Every variable keeps its type.
TypeOK ==
    /\ model \in [Models -> ModelRow \cup {NoRow}]
    /\ provider \in [Providers -> ProviderRow \cup {NoRow, Deleted}]
    /\ task \in [Admins -> Task]
    /\ pc \in {"idle", "listing", "listed", "exact", "missed", "base", "alias", "answered"}
    /\ caller \in Callers \cup {NoCaller}
    /\ asked \in Models
    /\ row \in ModelRow \cup {NoRow}
    /\ listing \subseteq Wires \ {"systemone"}
    /\ wire \in Wires
    /\ outcome \in Outcomes
    /\ calm \in BOOLEAN

Settled == pc = "answered" /\ calm

\* A model is refused on no wire on which it is listed for the harness that
\* asks, save for the path its provider was given: "offered on exactly the
\* shapes the request path will accept it on" (deployments.py:420-422).
ListedIsAccepted ==
    Settled /\ caller.harness # Unnamed /\ wire \in listing =>
        \/ outcome.kind \in {"sent", "no_credential"}
        \/ outcome.kind = "wrong_protocol" /\ model[asked].provider # NoProvider

\* What a harness reaches it was listed, on the shapes that it sends: no model
\* is hidden from the picker of a harness "that its requests still reach"
\* (deployments.py:201-207), but one that declares no context window and the
\* stand-in for Codex.
ReachedIsListed ==
    Settled /\ outcome.kind = "sent" /\ model[asked] # NoRow =>
        LET r == model[asked]
            served == r.measured /\ wire \in HARNESS_WIRES(caller.harness)
        IN served => \/ wire \in listing
                     \/ ~offerable_to(r, ProviderOf(r), wire, caller.harness)

\* A model that is disabled, kept for administrators or withheld from the
\* harness is answered as one that is not there, whatever its upstream, and
\* not by the model its name is an alias of (deployments.py:374-385,
\* proxy/anthropic.py:217-226).
HiddenIsAbsent ==
    Settled /\ model[asked] # NoRow /\ Hidden(model[asked], caller, wire) =>
        /\ outcome.kind = "absent"
        /\ wire \in listing => Readable(model[asked], caller) /\ caller.harness = Unnamed

\* A request reaches the provider its model is attached to, while that is
\* enabled, and nobody else: "Disabling a provider takes its models with it"
\* (deployments.py:305-309).
SwitchedOffIsSilent ==
    Settled /\ outcome.kind = "sent" =>
        LET name == IF model[asked] = NoRow THEN AliasOf[asked] ELSE asked IN
        /\ name # NoModel /\ model[name] # NoRow
        /\ outcome.host = model[name].provider
        /\ outcome.host # NoProvider => ProviderOf(model[name]).enabled

\* "A model needs somewhere to go: a provider, or its own full URI", and a
\* provider serves "at least one shape, or the provider can serve nobody"
\* (admin/models.py:231, admin/providers.py:84).
RowsStayUsable ==
    /\ \A m \in Models : model[m] # NoRow => _upstream_required(model[m])
    /\ \A p \in Providers : provider[p] \notin {NoRow, Deleted} => _paths(provider[p])

\* What a handler read before its await and commits after it has been changed
\* by another one, or the provider it deletes has been attached since.
Overtaken(t) ==
    \/ t.op = "update_model" /\ t.seen # model[t.of]
    \/ t.op = "update_provider" /\ t.seen # provider[t.of]
    \/ t.op = "delete_provider"
       /\ \E m \in Models : model[m] # NoRow /\ model[m].provider = t.of

\* A model is left with nowhere to go, or a provider with nobody to serve, by
\* nothing but a commit that another administrator's has overtaken: no form
\* does it, and no handler that goes on is overtaken already
\* (admin/models.py:229-231, admin/providers.py:207-215).
OnlyRacesBreakRows ==
    [][/\ RowsStayUsable =>
              RowsStayUsable' \/ \E a \in Admins : task'[a] # task[a] /\ Overtaken(task[a])
       /\ \A a \in Admins : task[a] = NoTask => ~Overtaken(task[a])']_vars

=============================================================================
