---------------------------- MODULE CutoverProofs ----------------------------
(***************************************************************************)
(* What a start of the proxy does to the schema it finds, for any number   *)
(* of revisions: the bookkeeping row never says more or less than what is  *)
(* there, however often a start is cut off, and nothing is installed that  *)
(* was not asked for.  Then the cutover around it: which processes may     *)
(* write which store at every step of the two scripts, for any number of   *)
(* rows, runs and restarts of the host.                                    *)
(***************************************************************************)
EXTENDS Cutover, FiniteSetTheorems, TLAPS

\* Revisions that add a column are there without gaps; tables are only
\* missing where there were tables.
Closed ==
    /\ \A r \in has \ Unmarked : 1..r \subseteq has
    /\ partial => has # {}

\* What a bootstrap has found out holds until it acts on it.
Recognised ==
    boot = "stamp" =>
        /\ stamped # 0
        /\ 1..stamped \subseteq has
        /\ has \ (1..stamped) \subseteq Unmarked
        /\ ~partial

Decided == boot = "upgrade" => version # 0 \/ (has = {} /\ allow)

IInv == TypeOK /\ Closed /\ StampMatches /\ Recognised /\ Decided

-----------------------------------------------------------------------------

\* The newest column that is there bounds everything but the revisions that
\* add none: this is why stamping there is neither too far nor too short
\* (_revision_of, entrypoint.py:129-134).
LEMMA NewestIsWhole ==
    ASSUME TypeOK, Closed, NEW r \in 1..HeadRevision, _revision_of(r)
    PROVE  1..r \subseteq has /\ has \ (1..r) \subseteq Unmarked
<1>1. 1..r \subseteq has
    BY DEF Closed, _revision_of
<1>2. ASSUME NEW q \in has \ (1..r) PROVE q \in Unmarked
    <2>1. q \in 1..HeadRevision
        BY <1>2 DEF TypeOK
    <2>2. ~(q <= r)
        BY <1>2, <2>1, RevisionAssumption
    <2> QED
        BY <1>2, <2>2 DEF _revision_of
<1> QED
    BY <1>1, <1>2

\* An upgrade that succeeds leaves every revision in place.
LEMMA UpgradeIsWhole ==
    ASSUME TypeOK, StampMatches
    PROVE  has \cup ((version + 1)..HeadRevision) = 1..HeadRevision
<1>1. \A r \in 1..HeadRevision : r \in has \/ r \in (version + 1)..HeadRevision
    BY RevisionAssumption DEF TypeOK, StampMatches
<1>2. has \subseteq 1..HeadRevision /\ (version + 1)..HeadRevision \subseteq 1..HeadRevision
    BY RevisionAssumption DEF TypeOK
<1> QED
    BY <1>1, <1>2

LEMMA InitInvariant == Init => IInv
<1> SUFFICES ASSUME Init PROVE IInv
    OBVIOUS
<1>1. TypeOK
    BY RevisionAssumption DEF Init, TypeOK, Loadable
<1>2. Closed
    BY DEF Init, Closed, Loadable
<1>3. StampMatches
    BY DEF Init, StampMatches
<1>4. Recognised /\ Decided
    BY DEF Init, Recognised, Decided
<1> QED
    BY <1>1, <1>2, <1>3, <1>4 DEF IInv

LEMMA StepInvariant == IInv /\ [Next]_vars => IInv'
<1> SUFFICES ASSUME IInv, [Next]_vars PROVE IInv'
    OBVIOUS
<1> USE DEF IInv
<1>1. CASE Begin
    <2>1. boot' \in {"create", "inspect"} /\ stamped' = 0
          /\ UNCHANGED <<schema, has, partial, version, allow>>
        BY <1>1 DEF Begin, database
    <2>2. TypeOK'
        BY <2>1, RevisionAssumption DEF TypeOK
    <2>3. Closed' /\ StampMatches' /\ Recognised' /\ Decided'
        BY <2>1 DEF Closed, StampMatches, Recognised, Decided
    <2> QED
        BY <2>2, <2>3
<1>2. CASE _create_schema
    BY <1>2 DEF _create_schema, TypeOK, Closed, StampMatches, Recognised, Decided
<1>3. CASE Refuse
    BY <1>3 DEF Refuse, Decide, database, TypeOK, Closed, StampMatches, Recognised, Decided
<1>4. CASE UpgradeAsIs
    BY <1>4 DEF UpgradeAsIs, Decide, NoTables, database, TypeOK, Closed, StampMatches,
                Recognised, Decided
<1>5. CASE Recognise
    <2>1. PICK r \in 1..HeadRevision : _revision_of(r) /\ stamped' = r
        BY <1>5 DEF Recognise
    <2>2. 1..r \subseteq has /\ has \ (1..r) \subseteq Unmarked
        BY <2>1, NewestIsWhole
    <2>3. boot' = "stamp" /\ ~partial /\ UNCHANGED <<schema, has, partial, version, allow>>
        BY <1>5 DEF Recognise, Decide, AllTables, database
    <2>4. TypeOK'
        BY <2>1, <2>3, RevisionAssumption DEF TypeOK
    <2>5. Recognised'
        BY <2>1, <2>2, <2>3 DEF Recognised
    <2>6. Closed' /\ StampMatches' /\ Decided'
        BY <2>3 DEF Closed, StampMatches, Decided
    <2> QED
        BY <2>4, <2>5, <2>6
<1>6. CASE Stamp
    <2>1. TypeOK' /\ Closed'
        BY <1>6 DEF Stamp, TypeOK, Closed
    <2>2. StampMatches'
        BY <1>6 DEF Stamp, StampMatches, Recognised
    <2>3. Recognised' /\ Decided'
        BY <1>6 DEF Stamp, Recognised, Decided
    <2> QED
        BY <2>1, <2>2, <2>3
<1>7. CASE Upgrade
    <2>1. CASE has' = has /\ version' = version /\ boot' = "refused"
        BY <1>7, <2>1 DEF Upgrade, TypeOK, Closed, StampMatches, Recognised, Decided
    <2>2. CASE /\ has' = has \cup ((version + 1)..HeadRevision)
               /\ version' = HeadRevision /\ boot' = "ready"
        <3>1. has' = 1..HeadRevision
            BY <2>2, UpgradeIsWhole
        <3>2. ~partial /\ UNCHANGED <<schema, partial, allow, stamped>>
            BY <1>7 DEF Upgrade, Closed, StampMatches, Decided
        <3>3. TypeOK'
            BY <2>2, <3>1, <3>2, RevisionAssumption DEF TypeOK
        <3>4. Closed'
            BY <3>1, <3>2, RevisionAssumption DEF Closed
        <3>5. StampMatches' /\ Recognised' /\ Decided'
            BY <2>2, <3>1, <3>2 DEF StampMatches, Recognised, Decided
        <3> QED
            BY <3>3, <3>4, <3>5
    <2> QED
        BY <1>7, <2>1, <2>2 DEF Upgrade
<1>8. CASE Crash
    BY <1>8 DEF Crash, database, TypeOK, Closed, StampMatches, Recognised, Decided
<1>9. CASE UNCHANGED vars
    BY <1>9 DEF vars, database, TypeOK, Closed, StampMatches, Recognised, Decided
<1> QED
    BY <1>1, <1>2, <1>3, <1>4, <1>5, <1>6, <1>7, <1>8, <1>9 DEF Next, Advance

LEMMA Invariant == Spec => []IInv
<1> QED
    BY InitInvariant, StepInvariant, PTL DEF Spec

-----------------------------------------------------------------------------

\* Every variable of a bootstrap keeps its type.
THEOREM TypeCorrect == Spec => []TypeOK
<1>1. IInv => TypeOK
    BY DEF IInv
<1> QED
    BY Invariant, <1>1, PTL

\* A recorded revision is the revision the schema matches, after any number
\* of starts and crashes between their steps.
THEOREM StampIsRight == Spec => []StampMatches
<1>1. IInv => StampMatches
    BY DEF IInv
<1> QED
    BY Invariant, <1>1, PTL

LEMMA InstallIsAsked == IInv /\ [Next]_vars => (has = {} /\ has' # {} => allow)
<1> SUFFICES ASSUME IInv, [Next]_vars, has = {}, has' # {} PROVE allow
    OBVIOUS
<1>1. Upgrade
    BY DEF Next, Advance, Begin, _create_schema, Refuse, UpgradeAsIs, Recognise, Stamp, Crash,
           Decide, vars, database
<1>2. version = 0
    <2> SUFFICES ASSUME version # 0 PROVE FALSE
        OBVIOUS
    <2>1. 1 \in 1..version
        BY DEF IInv, TypeOK
    <2> QED
        BY <2>1 DEF IInv, StampMatches
<1> QED
    BY <1>1, <1>2 DEF Upgrade, IInv, Decided

\* The tables of an empty schema are made only by a start that was told to.
THEOREM NothingUnasked == Spec => NoEmptyCopy
<1>1. IInv /\ [Next]_vars => [has = {} /\ has' # {} => allow]_vars
    BY InstallIsAsked
<1> QED
    BY <1>1, Invariant, PTL DEF Spec, NoEmptyCopy

-----------------------------------------------------------------------------
(* The cutover: types *)

RunSteps ==
    {"stop", "stopping", "bootstrap", "booting", "load", "loading", "env", "start",
     "health", "verify", "rollback", "restart", "restarted"}
SwitchSteps ==
    {"sw_stop", "sw_kill", "sw_start", "sw_health", "sw_count", "sw_request", "sw_verify",
     "sw_rollback", "sw_term", "sw_killed", "sw_restart", "sw_restarted"}
Lines == {"none", "complete", "aborted", "switched", "switch_aborted"}
Listeners == Ours \cup {"other"}

HostType ==
    /\ env \in Ours
    /\ port \in Listeners \cup {"none"}
    /\ starting \subseteq Ours
    /\ finishing \subseteq Listeners
    /\ stray \in BOOLEAN
    /\ made \in Nat
    /\ lite \subseteq 0..made
    /\ step \in RunSteps \cup SwitchSteps \cup {"idle", "rebooted"}
    /\ told \in Lines

\* What the scripts have written to .env where it decides who starts.
Pointed ==
    /\ step \in {"start", "health", "verify"} => env = "pg"
    /\ step \in {"restart", "restarted", "sw_term", "sw_killed", "sw_restart"} => env = "lite"

LiteGone == port # "lite" /\ "lite" \notin starting \cup finishing

\* With no stray listener nobody writes the file from the stop to the end of
\* the load, and nobody does for as long as .env names Postgres.
Moved ==
    ~stray =>
        /\ port # "other" /\ "other" \notin finishing
        /\ step = "stopping" => port # "lite" /\ "lite" \notin starting
        /\ step \in {"bootstrap", "booting", "load", "loading", "env"} => LiteGone
        /\ step = "loading" => snap = lite
        /\ step = "env" => lite \subseteq pg
        /\ env = "pg" => LiteGone /\ lite \subseteq pg

\* The last line of a script stays true until the next one, or a restart.
Said ==
    /\ told # "none" => step = "idle"
    /\ step = "restarted" => port # "pg" /\ "pg" \notin starting
    /\ CompleteIsPostgres /\ SwitchProvesStore /\ AbortIsLite

\* A request that was answered from SQLite is counted there.
Counted ==
    /\ step \in {"sw_request", "sw_verify"} => counts[2] \in Nat /\ counts[2] <= Cardinality(lite)
    /\ step = "sw_verify" => port = "pg" \/ counts[2] < Cardinality(lite)

HInv == HostType /\ Pointed /\ Moved /\ Said /\ Counted

-----------------------------------------------------------------------------
(* The cutover: one step *)

LEMMA HostInitially == HostInit => HInv
<1> SUFFICES ASSUME HostInit PROVE HInv
    OBVIOUS
<1>1. HostType
    BY DEF HostInit, HostType, Ours, Listeners, Lines
<1>2. Pointed /\ Moved
    BY DEF HostInit, Pointed, Moved
<1>3. Said /\ Counted
    BY DEF HostInit, Said, Counted, CompleteIsPostgres, SwitchProvesStore, AbortIsLite
<1> QED
    BY <1>1, <1>2, <1>3 DEF HInv

\* A row that is written is one row more.
LEMMA RowCounts ==
    ASSUME HostType
    PROVE  /\ Cardinality(lite) \in Nat
           /\ Cardinality(lite \cup {made + 1}) = Cardinality(lite) + 1
<1>1. IsFiniteSet(lite)
    <2>1. IsFiniteSet(0..made)
        BY FS_Interval DEF HostType
    <2> QED
        BY <2>1, FS_Subset DEF HostType
<1>2. made + 1 \notin lite
    BY DEF HostType
<1> QED
    BY <1>1, <1>2, FS_CardinalityType, FS_AddElement

LEMMA HostStep == HInv /\ [HostNext]_hostVars => HInv'
<1> SUFFICES ASSUME HInv, [HostNext]_hostVars PROVE HInv'
    OBVIOUS
<1>0. /\ Cardinality(lite) \in Nat
      /\ Cardinality(lite \cup {made + 1}) = Cardinality(lite) + 1
    BY RowCounts DEF HInv
<1> USE DEF HInv, HostType, Pointed, Moved, Said, Counted, LiteGone, Ours, Listeners, Lines,
            RunSteps, SwitchSteps, CompleteIsPostgres, SwitchProvesStore, AbortIsLite,
            processes, rows, script
<1>1. CASE Environment
    <2>1. CASE Write
        <3>1. PICK p \in finishing \cup {port} : p # "none" /\ Row(p)
            BY <2>1 DEF Write
        <3>2. UNCHANGED <<env, port, starting, finishing, stray, snap, counts, told, step>>
            BY <2>1 DEF Write
        <3>3. CASE p = "pg"
            <4>1. pg' = pg \cup {made + 1} /\ made' = made + 1 /\ lite' = lite
                BY <3>1, <3>3 DEF Row
            <4> QED
                BY <1>0, <3>2, <4>1
        <3>4. CASE p # "pg"
            <4>1. lite' = lite \cup {made + 1} /\ made' = made + 1 /\ pg' = pg
                BY <3>1, <3>4 DEF Row
            <4>2. HostType' /\ Pointed' /\ Said'
                BY <3>2, <4>1
            <4>3. Moved'
                BY <3>1, <3>2, <3>4, <4>1
            <4>4. Counted'
                BY <1>0, <3>2, <4>1
            <4> QED
                BY <4>2, <4>3, <4>4
        <3> QED
            BY <3>3, <3>4
    <2>2. CASE Gone
        BY <2>2 DEF Gone
    <2>3. CASE BootstrapDies
        BY <2>3 DEF BootstrapDies
    <2>4. CASE Reboot
        BY <2>4 DEF Reboot
    <2> QED
        BY <1>1, <2>1, <2>2, <2>3, <2>4 DEF Environment
<1>2. CASE Bootstraps
    BY <1>2 DEF Bootstraps
<1>3. CASE Bind
    BY <1>3 DEF Bind
<1>4. CASE ServiceStarts
    BY <1>4 DEF ServiceStarts, StartOn
<1>5. CASE RunBaseline
    BY <1>5 DEF RunBaseline, Started, Go
<1>6. CASE SwitchBegins
    BY <1>6 DEF SwitchBegins, Started, Go
<1>7. CASE RunNext
    <2>1. CASE StopProxy
        BY <2>1 DEF StopProxy, Terminate, Go
    <2>2. CASE WaitStopped
        BY <2>2 DEF WaitStopped, Go
    <2>3. CASE RunBootstrap
        BY <2>3 DEF RunBootstrap, Go
    <2>4. CASE Settle
        BY <2>4 DEF Settle, Go
    <2>5. CASE LoadSnapshot
        BY <2>5 DEF LoadSnapshot, Go
    <2>6. CASE LoadReturns
        BY <2>6 DEF LoadReturns, Go
    <2>7. CASE SwitchEnv
        BY <2>7 DEF SwitchEnv, PointAt, Go
    <2>8. CASE StartProxy
        BY <2>8 DEF StartProxy, StartOn, Go
    <2>9. CASE RunHealthy
        BY <2>9 DEF RunHealthy, wait_healthy, Go
    <2>10. CASE Verify
        BY <2>10 DEF Verify, Finish, Go
    <2>11. CASE VerifyFails
        BY <2>11 DEF VerifyFails, Go
    <2>12. CASE Rollback
        BY <2>12 DEF Rollback, PointAt, Go
    <2>13. CASE Restart
        BY <2>13 DEF Restart, Terminate, Go
    <2>14. CASE Restarted
        BY <2>14 DEF Restarted, Finish, Go
    <2> QED
        BY <1>7, <2>1, <2>2, <2>3, <2>4, <2>5, <2>6, <2>7, <2>8, <2>9, <2>10, <2>11,
           <2>12, <2>13, <2>14 DEF RunNext
<1>8. CASE SwitchNext
    <2>1. CASE SwitchStop
        BY <2>1 DEF SwitchStop, stop_all, Terminate, Go
    <2>2. CASE SwitchStart
        BY <2>2 DEF SwitchStart, StartOn, Go
    <2>3. CASE SwitchHealthy
        BY <2>3 DEF SwitchHealthy, wait_healthy, Go
    <2>4. CASE Count
        BY <1>0, <2>4 DEF Count, Go
    <2>5. CASE Request
        <3>1. port # "none" /\ Row(port) /\ step = "sw_request" /\ step' = "sw_verify"
              /\ UNCHANGED <<env, port, starting, finishing, stray, snap, counts, told>>
            BY <2>5 DEF Request, Go
        <3>2. CASE port = "pg"
            <4>1. pg' = pg \cup {made + 1} /\ made' = made + 1 /\ lite' = lite
                BY <3>1, <3>2 DEF Row
            <4> QED
                BY <1>0, <3>1, <3>2, <4>1
        <3>3. CASE port # "pg"
            <4>1. lite' = lite \cup {made + 1} /\ made' = made + 1 /\ pg' = pg
                BY <3>1, <3>3 DEF Row
            <4>2. HostType' /\ Pointed' /\ Said'
                BY <3>1, <4>1
            <4>3. Moved'
                BY <3>1, <3>3, <4>1
            <4>4. Counted'
                BY <1>0, <3>1, <4>1
            <4> QED
                BY <4>2, <4>3, <4>4
        <3> QED
            BY <3>2, <3>3
    <2>6. CASE RequestRefused
        BY <2>6 DEF RequestRefused, Go
    <2>7. CASE Proved
        BY <2>7 DEF Proved, Finish, Go
    <2>8. CASE NotProved
        BY <2>8 DEF NotProved, Go
    <2>9. CASE SwitchRollback
        BY <2>9 DEF SwitchRollback, PointAt, Go
    <2>10. CASE SwitchStopAgain
        BY <2>10 DEF SwitchStopAgain, stop_all, Terminate, Go
    <2>11. CASE SwitchRestart
        BY <2>11 DEF SwitchRestart, StartOn, Go
    <2>12. CASE SwitchRestarted
        BY <2>12 DEF SwitchRestarted, Finish, Go
    <2> QED
        BY <1>8, <2>1, <2>2, <2>3, <2>4, <2>5, <2>6, <2>7, <2>8, <2>9, <2>10, <2>11, <2>12
        DEF SwitchNext
<1>9. CASE UNCHANGED hostVars
    BY <1>9 DEF hostVars
<1> QED
    BY <1>1, <1>2, <1>3, <1>4, <1>5, <1>6, <1>7, <1>8, <1>9 DEF HostNext, ScriptStep

LEMMA HostInvariant == HostSpec => []HInv
<1> QED
    BY HostInitially, HostStep, PTL DEF HostSpec

-----------------------------------------------------------------------------
(* The cutover: what the scripts promise *)

\* Every variable of the host keeps its type.
THEOREM HostTypeCorrect == HostSpec => []HostType
<1>1. HInv => HostType
    BY DEF HInv
<1> QED
    BY HostInvariant, <1>1, PTL

\* Wherever run.sh is cut off, and whatever the clients, the processes and
\* the host do between its steps: while .env names Postgres no row of the
\* file is missing there.
THEOREM NothingIsLost == HostSpec => []NothingLeftBehind
<1>1. HInv => NothingLeftBehind
    BY DEF HInv, Moved, NothingLeftBehind
<1> QED
    BY HostInvariant, <1>1, PTL

\* "cutover COMPLETE" stays true until the next script or restart.
THEOREM CompletionIsTrue == HostSpec => []CompleteIsPostgres
<1>1. HInv => CompleteIsPostgres
    BY DEF HInv, Said
<1> QED
    BY HostInvariant, <1>1, PTL

\* The row that proves the switch was written by the process on the port,
\* and it is still there.
THEOREM ProofIsPostgres == HostSpec => []SwitchProvesStore
<1>1. HInv => SwitchProvesStore
    BY DEF HInv, Said
<1> QED
    BY HostInvariant, <1>1, PTL

\* A rollback of run.sh leaves no way back to Postgres.
THEOREM AbortReturns == HostSpec => []AbortIsLite
<1>1. HInv => AbortIsLite
    BY DEF HInv, Said
<1> QED
    BY HostInvariant, <1>1, PTL

-----------------------------------------------------------------------------
(* The cutover implements the bootstrap *)

\* The only steps of the host that touch the schema are the bootstrap's.
LEMMA HostStepIsBootstrap == [HostNext]_hostVars => [Next]_vars
<1> SUFFICES ASSUME [HostNext]_hostVars PROVE [Next]_vars
    OBVIOUS
<1> USE DEF bootstrap
<1>1. CASE UNCHANGED hostVars
    BY <1>1 DEF hostVars
<1>2. CASE Environment
    BY <1>2 DEF Environment, Write, Gone, BootstrapDies, Reboot, Next
<1>3. CASE Bootstraps \/ Bind \/ ServiceStarts
    BY <1>3 DEF Bootstraps, Bind, ServiceStarts, StartOn, Next
<1>4. CASE RunBaseline \/ SwitchBegins
    BY <1>4 DEF RunBaseline, SwitchBegins, Started
<1>5. CASE RunNext
    BY <1>5 DEF RunNext, StopProxy, WaitStopped, RunBootstrap, Settle, LoadSnapshot, LoadReturns,
                SwitchEnv, StartProxy, RunHealthy, Verify, VerifyFails, Rollback, Restart,
                Restarted, PointAt, Finish, wait_healthy, StartOn, BootstrapKilled, Next
<1>6. CASE SwitchNext
    BY <1>6 DEF SwitchNext, SwitchStop, SwitchStart, SwitchHealthy, Count, Request,
                RequestRefused, Proved, NotProved, SwitchRollback, SwitchStopAgain,
                SwitchRestart, SwitchRestarted, PointAt, Finish, wait_healthy, stop_all,
                StartOn, Next
<1> QED
    BY <1>1, <1>2, <1>3, <1>4, <1>5, <1>6 DEF HostNext, ScriptStep

\* What the scripts, the processes and the host do to the schema is a
\* behaviour of the bootstrap alone, so all that holds of it holds here.
THEOREM CutoverBootstraps == HostSpec => Spec
<1>1. HostInit => Init
    BY DEF HostInit
<1> QED
    BY <1>1, HostStepIsBootstrap, PTL DEF HostSpec, Spec

\* Through the whole cutover, with its kills and restarts, the recorded
\* revision is the one the schema matches.
THEOREM CutoverStamp == HostSpec => []StampMatches
<1> QED
    BY CutoverBootstraps, StampIsRight, PTL

\* Through the whole cutover no start builds an empty copy unasked.
THEOREM CutoverNoEmptyCopy == HostSpec => NoEmptyCopy
<1> QED
    BY CutoverBootstraps, NothingUnasked

=============================================================================
