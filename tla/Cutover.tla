------------------------------- MODULE Cutover -------------------------------
(***************************************************************************)
(* .cutover/run.sh and .cutover/switch.sh: the proxy moves from its SQLite *)
(* file ("lite") to Postgres ("pg").  The scripts, the clients, the proxy  *)
(* processes and the host take turns.  A process is named by the store it  *)
(* writes; "other" is a listener on SQLite that pkill does not recognise.  *)
(* A process that starts on Postgres runs the bootstrap of Bootstrap       *)
(* before it binds the port; so does run.sh, in a process of its own.      *)
(* The loader, SQLite, the port and the host are modelled from their use.  *)
(***************************************************************************)
EXTENDS Bootstrap, FiniteSets

CONSTANTS
    MaxWrites,      \* bound on the usage rows that clients cause
    MaxRuns         \* bound on scripts begun and host restarts

VARIABLES
    env,        \* the store that .env names
    port,       \* who holds 8899
    starting,   \* processes that have not bound yet
    finishing,  \* processes told to stop that may still write
    stray,      \* the proxy first found on the port is not ours
    lite, pg,   \* the usage rows of the two stores
    made,       \* rows written so far: the last row's number
    snap,       \* the file as the loader read it
    pass,       \* passes of the loader
    counts,     \* PG0 and SQ0
    step,       \* the script's next step, named sw_ in switch.sh
    told,       \* the last line of the script that ran last
    runs

bootstrap == vars       \* of Bootstrap
processes == <<port, starting, finishing>>
rows == <<lite, pg, made>>
script == <<snap, pass, counts, told, runs>>
hostVars == <<bootstrap, env, processes, stray, rows, script, step>>

Ours == {"lite", "pg"}

HostInit ==
    /\ Init
    /\ env = "lite"
    /\ port \in {"lite", "other"}
    /\ stray = (port = "other")
    /\ starting = {} /\ finishing = {}
    /\ lite = {0} /\ pg = {} /\ made = 0 /\ snap = {}
    /\ pass = 0 /\ counts = <<0, 0>>
    /\ step = "idle" /\ told = "none" /\ runs = 0

-----------------------------------------------------------------------------
(* Processes *)

\* A process answers a request and meters it.
Row(p) ==
    /\ made' = made + 1
    /\ IF p = "pg" THEN pg' = pg \cup {made + 1} /\ UNCHANGED lite
                   ELSE lite' = lite \cup {made + 1} /\ UNCHANGED pg

Write ==
    /\ made < MaxWrites
    /\ \E p \in finishing \cup {port} : p # "none" /\ Row(p)
    /\ UNCHANGED <<bootstrap, env, processes, stray, script, step>>

Gone ==
    /\ \E p \in finishing : finishing' = finishing \ {p}
    /\ UNCHANGED <<bootstrap, env, port, starting, stray, rows, script, step>>

\* The bootstrap a starting process, or run.sh, is in.
Bootstraps ==
    /\ Advance
    /\ UNCHANGED <<env, processes, stray, rows, script, step>>

BootstrapDies ==
    /\ step \notin {"idle", "rebooted"}
    /\ Crash
    /\ starting' = starting \ {"pg"}
    /\ UNCHANGED <<env, port, finishing, stray, rows, script, step>>

\* A start ends on the port, or with an exit: the bootstrap refused, or
\* somebody else holds the port.
Bind ==
    /\ \E p \in starting :
         /\ p = "pg" => boot \in {"ready", "refused"}
         /\ starting' = starting \ {p}
         /\ port' = IF port = "none" /\ (p = "pg" => boot = "ready") THEN p ELSE port
    /\ UNCHANGED <<bootstrap, env, finishing, stray, rows, script, step>>

\* SIGTERM to everyone in `who`: a listener finishes what it has begun, a
\* process still starting dies in its bootstrap.
Terminate(who) ==
    /\ port' = IF port \in who THEN "none" ELSE port
    /\ finishing' = finishing \cup ({port} \cap who)

BootstrapKilled ==
    IF "pg" \in starting /\ ~Idle THEN Crash ELSE UNCHANGED bootstrap

\* A process begins on `p`: two that start on one store count as one.
StartOn(p) ==
    /\ starting' = starting \cup {p}
    /\ IF p = "pg" /\ "pg" \notin starting THEN Begin ELSE UNCHANGED bootstrap
    /\ UNCHANGED <<port, finishing>>

\* The host goes down, with any script, and comes back to what .env says.
Reboot ==
    /\ runs < MaxRuns
    /\ runs' = runs + 1
    /\ step' = "rebooted"
    /\ port' = "none" /\ starting' = {} /\ finishing' = {}
    /\ IF Idle THEN UNCHANGED bootstrap ELSE Crash
    /\ told' = "none"
    /\ UNCHANGED <<env, stray, rows, snap, pass, counts>>

\* After a restart someone starts the service again: for the container that is
\* docker's restart policy, for the host process that run.sh starts with nohup
\* (run.sh:23-28) it is an assumption.
ServiceStarts ==
    /\ step = "rebooted"
    /\ step' = "idle"
    /\ StartOn(env)
    /\ UNCHANGED <<env, stray, rows, script>>

Environment == Write \/ Gone \/ BootstrapDies \/ Reboot

-----------------------------------------------------------------------------
(* The steps the two scripts share *)

Go(from, to) == step = from /\ step' \in to

\* /health is answered by whoever holds the port.
wait_healthy(from, yes, no) ==
    /\ Go(from, {IF port # "none" THEN yes ELSE no})
    /\ UNCHANGED <<bootstrap, env, processes, stray, rows, script>>

\* A script that ends says how.
Finish(from, line) ==
    /\ Go(from, {"idle"})
    /\ told' = line
    /\ UNCHANGED <<bootstrap, env, processes, stray, rows, snap, pass, counts, runs>>

Started(first) ==
    /\ Go("idle", {first})
    /\ runs < MaxRuns
    /\ runs' = runs + 1
    /\ told' = "none"
    /\ UNCHANGED <<bootstrap, env, processes, stray, rows, snap, counts>>

\* sed on .env.
PointAt(p, from, to) ==
    /\ Go(from, {to})
    /\ env' = p
    /\ UNCHANGED <<bootstrap, processes, stray, rows, script>>

-----------------------------------------------------------------------------
(* run.sh *)

\* No baseline, no cutover.
RunBaseline ==
    /\ port # "none"
    /\ Started("stop")
    /\ pass' = 1

\* Mutant: only the process on the port is told to stop.
StopListener ==
    /\ Go("stop", {"stopping"})
    /\ Terminate(Ours)
    /\ UNCHANGED <<bootstrap, env, starting, stray, rows, script>>

\* pkill by command line.
StopProxy ==
    /\ Go("stop", {"stopping"})
    /\ Terminate(Ours)
    /\ starting' = {}
    /\ BootstrapKilled
    /\ UNCHANGED <<env, stray, rows, script>>

\* Mutant: the load does not wait for the old process to be gone.
NoWait ==
    /\ Go("stopping", {"bootstrap"})
    /\ UNCHANGED <<bootstrap, env, processes, stray, rows, script>>

\* pgrep until it is gone, pkill -9 after twenty seconds.
WaitStopped ==
    /\ Go("stopping", {"bootstrap"})
    /\ finishing' = finishing \ Ours
    /\ UNCHANGED <<bootstrap, env, port, starting, stray, rows, script>>

RunBootstrap ==
    /\ Go("bootstrap", {"booting"})
    /\ Begin
    /\ UNCHANGED <<env, processes, stray, rows, script>>

\* Mutant: a bootstrap that fails ends the script.
ExitOnFailure ==
    /\ Go("booting", IF boot = "ready" THEN {"load", "rollback"} ELSE {"idle"})
    /\ Idle
    /\ UNCHANGED <<bootstrap, env, processes, stray, rows, script>>

\* The schema is at head, or there is no load; wal_checkpoint may fail.
Settle ==
    /\ Go("booting", IF boot = "ready" THEN {"load", "rollback"} ELSE {"rollback"})
    /\ Idle
    /\ UNCHANGED <<bootstrap, env, processes, stray, rows, script>>

LoadSnapshot ==
    /\ Go("load", {"loading"})
    /\ snap' = lite
    /\ UNCHANGED <<bootstrap, env, processes, stray, rows, pass, counts, told, runs>>

\* The loader exits 0 when the file has not moved since it was read.
LoadReturns ==
    /\ pg' = snap
    /\ \/ lite = snap /\ Go("loading", {"env"}) /\ UNCHANGED pass
       \/ pass < 2 /\ Go("loading", {"load"}) /\ pass' = pass + 1
       \/ pass = 2 /\ Go("loading", {"rollback"}) /\ UNCHANGED pass
    /\ UNCHANGED <<bootstrap, env, processes, stray, lite, made, snap, counts, told, runs>>

SwitchEnv == PointAt("pg", "env", "start")

StartProxy ==
    /\ Go("start", {"health"})
    /\ StartOn(env)
    /\ UNCHANGED <<env, stray, rows, script>>

RunHealthy == wait_healthy("health", "verify", "rollback")

\* The listing with the real key is what it was before, or it is not.
Verify == port # "none" /\ Finish("verify", "complete")

VerifyFails ==
    /\ Go("verify", {"rollback"})
    /\ UNCHANGED <<bootstrap, env, processes, stray, rows, script>>

Rollback == PointAt("lite", "rollback", "restart")

\* Mutant: the rollback starts SQLite and stops nobody.
StartBeside ==
    /\ Go("restart", {"restarted"})
    /\ StartOn(env)
    /\ UNCHANGED <<env, stray, rows, script>>

\* pkill, and a start on what .env says now.
Restart ==
    /\ Go("restart", {"restarted"})
    /\ Terminate(Ours)
    /\ starting' = {env}
    /\ IF env = "pg" THEN Begin ELSE BootstrapKilled
    /\ UNCHANGED <<env, stray, rows, script>>

Restarted == Finish("restarted", "aborted")

RunNext ==
    \/ StopProxy \/ WaitStopped \/ RunBootstrap \/ Settle \/ LoadSnapshot
    \/ LoadReturns \/ SwitchEnv \/ StartProxy \/ RunHealthy \/ Verify
    \/ VerifyFails \/ Rollback \/ Restart \/ Restarted

-----------------------------------------------------------------------------
(* switch.sh *)

SwitchBegins == Started("sw_stop") /\ UNCHANGED pass

\* fuser -k -TERM on the port, then -KILL on whoever holds it by then.
stop_all(term, kill, to) ==
    /\ \/ Go(term, {kill}) /\ Terminate({"lite", "pg", "other"})
       \/ Go(kill, {to}) /\ port' = "none" /\ UNCHANGED finishing
    /\ UNCHANGED <<bootstrap, env, starting, stray, rows, script>>

SwitchStop == stop_all("sw_stop", "sw_kill", "sw_start")

\* The location is stated in the environment; .env stays what it was.
SwitchStart ==
    /\ Go("sw_start", {"sw_health"})
    /\ StartOn("pg")
    /\ UNCHANGED <<env, stray, rows, script>>

SwitchHealthy == wait_healthy("sw_health", "sw_count", "sw_rollback")

Count ==
    /\ Go("sw_count", {"sw_request"})
    /\ counts' = <<Cardinality(pg), Cardinality(lite)>>
    /\ UNCHANGED <<bootstrap, env, processes, stray, rows, snap, pass, told, runs>>

\* The real request, answered and metered by whoever holds the port.
Request ==
    /\ port # "none"
    /\ Go("sw_request", {"sw_verify"})
    /\ Row(port)
    /\ UNCHANGED <<bootstrap, env, processes, stray, script>>

RequestRefused ==
    /\ Go("sw_request", {"sw_rollback"})
    /\ UNCHANGED <<bootstrap, env, processes, stray, rows, script>>

\* Mutant: an answer is proof enough.
AnswerIsProof == Finish("sw_verify", "switched")

\* The usage row landed in Postgres and no row landed in SQLite.
Proved ==
    /\ Cardinality(pg) > counts[1]
    /\ Cardinality(lite) = counts[2]
    /\ Finish("sw_verify", "switched")

NotProved ==
    /\ ~(Cardinality(pg) > counts[1] /\ Cardinality(lite) = counts[2])
    /\ Go("sw_verify", {"sw_rollback"})
    /\ UNCHANGED <<bootstrap, env, processes, stray, rows, script>>

SwitchRollback == PointAt("lite", "sw_rollback", "sw_term")

SwitchStopAgain == stop_all("sw_term", "sw_killed", "sw_restart")

SwitchRestart ==
    /\ Go("sw_restart", {"sw_restarted"})
    /\ StartOn("lite")
    /\ UNCHANGED <<env, stray, rows, script>>

SwitchRestarted == Finish("sw_restarted", "switch_aborted")

SwitchNext ==
    \/ SwitchStop \/ SwitchStart \/ SwitchHealthy \/ Count \/ Request
    \/ RequestRefused \/ Proved \/ NotProved \/ SwitchRollback
    \/ SwitchStopAgain \/ SwitchRestart \/ SwitchRestarted

-----------------------------------------------------------------------------

ScriptStep == RunNext \/ SwitchNext

HostNext ==
    \/ Environment \/ Bootstraps \/ Bind \/ ServiceStarts
    \/ RunBaseline \/ SwitchBegins \/ ScriptStep

HostSpec == HostInit /\ [][HostNext]_hostVars

\* A script and a start go on, and after a restart of the host the service is
\* started again (assumed); nobody has to write, to begin a script or to fail.
FairSpec ==
    /\ HostSpec
    /\ WF_hostVars(ScriptStep)
    /\ WF_hostVars(Bootstraps)
    /\ WF_hostVars(Bind)
    /\ WF_hostVars(ServiceStarts)

-----------------------------------------------------------------------------
(* Properties *)

\* At whatever point run.sh is cut off: once .env names Postgres, every row
\* of the file is there (run.sh:76-83, 103-118), when no other process has
\* been writing the file.
NothingLeftBehind == env = "pg" /\ ~stray => lite \subseteq pg

\* "cutover COMPLETE" is said of a proxy that answers from Postgres, and will
\* after a restart, when the process found was the proxy's own.
CompleteIsPostgres == told = "complete" /\ ~stray => env = "pg" /\ port = "pg"

\* "switch COMPLETE: proxy is on Postgres and proved it by a write", whoever
\* was on the port before (switch.sh:4-8, 81-110).
SwitchProvesStore == told = "switched" => port = "pg"

\* "Every failure path ends with the proxy back on its SQLite file": after a
\* rollback of run.sh neither a process nor a restart reaches Postgres.
AbortIsLite ==
    told = "aborted" => env = "lite" /\ port # "pg" /\ "pg" \notin starting

\* A script, or a restart in the middle of one, never leaves the host without
\* a proxy for good (run.sh:4-8).
ServiceReturns == step # "idle" ~> port # "none"

=============================================================================
