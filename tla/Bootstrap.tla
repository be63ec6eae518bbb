----------------------------- MODULE Bootstrap ------------------------------
(***************************************************************************)
(* bootstrap_schema (entrypoint.py): what a start does to the Postgres     *)
(* schema it is given.  A revision is in `has` when what its migration     *)
(* makes is there, whoever made it: a schema loaded out of band has no     *)
(* bookkeeping row.  Stamp and upgrade are two transactions, each of them  *)
(* whole or not at all, and the process may die between any two steps.     *)
(***************************************************************************)
EXTENDS Integers

CONSTANTS
    HeadRevision,       \* the newest revision; the oldest is 1
    Unmarked,   \* revisions that add no column and look before they create
    LastTable   \* the revision that makes the last of APP_TABLES

ASSUME RevisionAssumption ==
    /\ HeadRevision \in Nat \ {0}
    /\ LastTable \in 1..HeadRevision
    /\ Unmarked \subseteq (LastTable + 1)..HeadRevision

VARIABLES
    schema,     \* the schema exists
    has,        \* revisions whose effect is in the schema
    partial,    \* some of the proxy's tables were dropped
    version,    \* the revision in alembic_version, 0 with no such table
    allow,      \* PROXY_ALLOW_SCHEMA_CREATE
    boot,       \* where a bootstrap is
    stamped     \* the revision it has recognised

database == <<schema, has, partial, version>>
vars == <<database, allow, boot, stamped>>

\* What columns were loaded: all up to one, and any effect that has no column.
Loadable ==
    {h \in SUBSET (1..HeadRevision) :
        /\ \A r \in h \ Unmarked : 1..r \subseteq h
        /\ h \cap Unmarked # {} => 1..LastTable \subseteq h}

Init ==
    /\ allow \in BOOLEAN
    /\ boot = "off"
    /\ stamped = 0
    /\ schema \in BOOLEAN
    /\ partial \in BOOLEAN
    /\ has \in Loadable
    /\ version \in 0..HeadRevision
    /\ version # 0 => has = 1..version
    /\ partial => has # {} /\ version = 0
    /\ ~schema => has = {} /\ version = 0

Idle == boot \in {"off", "ready", "refused"}

Begin ==
    /\ Idle
    /\ boot' = IF allow THEN "create" ELSE "inspect"
    /\ stamped' = 0
    /\ UNCHANGED <<database, allow>>

_create_schema ==
    /\ boot = "create"
    /\ schema' = TRUE
    /\ boot' = "inspect"
    /\ UNCHANGED <<has, partial, version, allow, stamped>>

\* The newest revision whose column is present.
_revision_of(r) == r \in has \ Unmarked /\ \A q \in has \ Unmarked : q <= r

NoTables == has = {}
AllTables == LastTable \in has /\ ~partial

Decide(next) ==
    /\ boot = "inspect"
    /\ boot' = next
    /\ UNCHANGED <<database, allow>>

\* A schema that is not there, or holds some of the tables only, and an empty
\* one where nobody said that this is an install.
Refuse ==
    /\ Decide("refused")
    /\ \/ ~schema
       \/ version = 0 /\ ~NoTables /\ ~AllTables
       \/ version = 0 /\ NoTables /\ ~allow
    /\ UNCHANGED stamped

\* Mutant: a fresh install is never asked for.
InstallAnyway ==
    /\ Decide("upgrade")
    /\ schema
    /\ version # 0 \/ NoTables
    /\ UNCHANGED stamped

\* Bookkeeping is there, or a fresh install is what this is.
UpgradeAsIs ==
    /\ Decide("upgrade")
    /\ schema
    /\ version # 0 \/ (NoTables /\ allow)
    /\ UNCHANGED stamped

\* Mutant: whatever is there is stamped at head.
RecogniseHead ==
    /\ Decide("stamp")
    /\ schema /\ version = 0 /\ AllTables
    /\ stamped' = HeadRevision

Recognise ==
    /\ Decide("stamp")
    /\ schema /\ version = 0 /\ AllTables
    /\ \E r \in 1..HeadRevision : _revision_of(r) /\ stamped' = r

Stamp ==
    /\ boot = "stamp"
    /\ version' = stamped
    /\ boot' = "upgrade"
    /\ UNCHANGED <<schema, has, partial, allow, stamped>>

\* Every migration above the recorded revision, in one transaction: one that
\* finds its column there already fails, and nothing has changed.
Upgrade ==
    LET todo == (version + 1)..HeadRevision IN
    /\ boot = "upgrade"
    /\ IF todo \cap has \subseteq Unmarked
       THEN has' = has \cup todo /\ version' = HeadRevision /\ boot' = "ready"
       ELSE UNCHANGED <<has, version>> /\ boot' = "refused"
    /\ UNCHANGED <<schema, partial, allow, stamped>>

Crash ==
    /\ ~Idle
    /\ boot' = "off"
    /\ UNCHANGED <<database, allow, stamped>>

Advance == _create_schema \/ Refuse \/ UpgradeAsIs \/ Recognise \/ Stamp \/ Upgrade

Next == Begin \/ Advance \/ Crash

Spec == Init /\ [][Next]_vars

-----------------------------------------------------------------------------
(* Properties *)

\* Every variable keeps its type.
TypeOK ==
    /\ schema \in BOOLEAN
    /\ has \subseteq 1..HeadRevision
    /\ partial \in BOOLEAN
    /\ version \in 0..HeadRevision
    /\ allow \in BOOLEAN
    /\ boot \in {"off", "create", "inspect", "stamp", "upgrade", "ready", "refused"}
    /\ stamped \in 0..HeadRevision

\* "It must stamp the revision the schema actually matches": no migration is
\* recorded that has not run, none is left to run that would fail on what is
\* there, and a partial schema gets no bookkeeping row (entrypoint.py:15-18,
\* 159-166).
StampMatches ==
    version # 0 =>
        /\ 1..version \subseteq has
        /\ has \ (1..version) \subseteq Unmarked
        /\ ~partial

\* A start that was not told to install builds no empty copy beside the data
\* (entrypoint.py:181-187).
NoEmptyCopy == [][has = {} /\ has' # {} => allow]_vars

=============================================================================
