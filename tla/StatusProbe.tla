---------------------------- MODULE StatusProbe -----------------------------
(***************************************************************************)
(* The status page (app/status.py): a background loop probes the database  *)
(* and every upstream origin, publishes the snapshot _HEALTH, and the      *)
(* public routes derive one of three levels from it.  A cycle is cut at    *)
(* its awaits: the database probe, the query for the origins, each origin  *)
(* of the gather, the sleep.  The database and the upstreams come and go   *)
(* between them, the admin console changes the models, and the process may *)
(* be restarted.                                                           *)
(***************************************************************************)
EXTENDS Naturals, FiniteSets

CONSTANTS
    Origins,                 \* what the models' target URIs can name
    OUTAGE_FAIL_THRESHOLD,
    WARMUP_PROBES,
    MaxCount,                \* bound: counters stay there once they reach it
    MaxRestarts              \* bound: restarts of the process

ASSUME ThresholdAssumption ==
    /\ OUTAGE_FAIL_THRESHOLD \in Nat \ {0, 1}
    /\ WARMUP_PROBES \in Nat
    /\ WARMUP_PROBES <= OUTAGE_FAIL_THRESHOLD
    /\ MaxCount \in Nat
    /\ MaxCount >= OUTAGE_FAIL_THRESHOLD
ASSUME MaxRestartsAssumption == MaxRestarts \in Nat
ASSUME OriginsAssumption == IsFiniteSet(Origins)

VARIABLES
    database,       \* is it up?
    reachable,      \* origins that answer HTTP at all
    configured,     \* origins of the enabled models' target URIs
    restarts,
    pc, found, origins, pending, up,   \* connectivity_probe_loop
    _consec_fail, _probe_count, _HEALTH

environment == <<database, reachable, configured, restarts>>
cycle == <<found, origins, pending, up>>
published == <<_consec_fail, _probe_count, _HEALTH>>
vars == <<environment, pc, cycle, published>>

-----------------------------------------------------------------------------
(* The snapshot and the level derived from it *)

Health == [database : {"unknown", "up", "down"},
           upstreams_total : Nat, upstreams_up : Nat,
           consec_fail : 0..MaxCount, probe_count : 0..MaxCount]
NoHealth == [database |-> "unknown", upstreams_total |-> 0, upstreams_up |-> 0,
             consec_fail |-> 0, probe_count |-> 0]

HardDown(h) ==
    h.database = "down" \/ (h.upstreams_total > 0 /\ h.upstreams_up = 0)

Partial(h) == h.upstreams_total > 0 /\ h.upstreams_up < h.upstreams_total

IsOutage(h) ==
    /\ HardDown(h)
    /\ h.probe_count >= WARMUP_PROBES
    /\ h.consec_fail >= OUTAGE_FAIL_THRESHOLD

\* The level the public routes show; errors: fewer than 95% of the metered
\* requests succeeded.
_overall_status(h, errors) ==
    IF IsOutage(h) THEN "outage"
    ELSE IF HardDown(h) \/ Partial(h) \/ errors THEN "degraded" ELSE "ok"

-----------------------------------------------------------------------------

Init ==
    /\ database = "up"
    /\ reachable \in SUBSET Origins
    /\ configured \in SUBSET Origins
    /\ restarts = 0
    /\ pc = "database"
    /\ found = "unknown"
    /\ origins = {} /\ pending = {} /\ up = {}
    /\ _consec_fail = 0
    /\ _probe_count = 0
    /\ _HEALTH = NoHealth

(* One cycle of the loop *)

ProbeDatabase ==
    /\ pc = "database"
    /\ found' = database
    /\ pc' = "origins"
    /\ UNCHANGED <<environment, origins, pending, up, published>>

ReadOrigins ==
    /\ pc = "origins"
    /\ database = "up"
    /\ origins' = configured
    /\ pending' = configured
    /\ up' = {}
    /\ pc' = "gather"
    /\ UNCHANGED <<environment, found, published>>

\* Mutant: an exception ends the loop.
CycleFailsForGood ==
    /\ pc = "origins"
    /\ database = "down"
    /\ found' = "unknown"
    /\ pc' = "dead"
    /\ UNCHANGED <<environment, origins, pending, up, published>>

\* The query raises: the loop logs it, and the cycle is neither counted nor
\* published.
CycleFails ==
    /\ pc = "origins"
    /\ database = "down"
    /\ found' = "unknown"
    /\ pc' = "sleep"
    /\ UNCHANGED <<environment, origins, pending, up, published>>

ProbeOrigin(o) ==
    /\ pc = "gather"
    /\ o \in pending
    /\ pending' = pending \ {o}
    /\ up' = IF o \in reachable THEN up \cup {o} ELSE up
    /\ UNCHANGED <<environment, pc, found, origins, published>>

Bump(n) == IF n < MaxCount THEN n + 1 ELSE n

Measured ==
    [database |-> found, upstreams_total |-> Cardinality(origins),
     upstreams_up |-> Cardinality(up)]

\* Mutant: only the database counts.
StreakOfDatabase(n, hard_down) == IF hard_down /\ found = "down" THEN Bump(n) ELSE 0

Streak(n, hard_down) == IF hard_down THEN Bump(n) ELSE 0

\* Mutant: only good cycles end the warm-up.
CountedWhenGood(n, hard_down) == IF hard_down THEN n ELSE Bump(n)

Counted(n, hard_down) == Bump(n)

Publish ==
    LET hard_down == HardDown(Measured) IN
    /\ pc = "gather"
    /\ pending = {}
    /\ _consec_fail' = Streak(_consec_fail, hard_down)
    /\ _probe_count' = Counted(_probe_count, hard_down)
    /\ _HEALTH' = [database |-> found,
                   upstreams_total |-> Cardinality(origins),
                   upstreams_up |-> Cardinality(up),
                   consec_fail |-> _consec_fail',
                   probe_count |-> _probe_count']
    /\ found' = "unknown" /\ origins' = {} /\ up' = {}
    /\ pc' = "sleep"
    /\ UNCHANGED <<environment, pending>>

Wake ==
    /\ pc = "sleep"
    /\ pc' = "database"
    /\ UNCHANGED <<environment, cycle, published>>

Probe ==
    \/ ProbeDatabase \/ ReadOrigins \/ CycleFails \/ Publish \/ Wake
    \/ \E o \in Origins : ProbeOrigin(o)

-----------------------------------------------------------------------------
(* The environment *)

DatabaseChanges ==
    /\ database' = IF database = "up" THEN "down" ELSE "up"
    /\ UNCHANGED <<reachable, configured, restarts, pc, cycle, published>>

OriginChanges(o) ==
    /\ reachable' = IF o \in reachable THEN reachable \ {o} ELSE reachable \cup {o}
    /\ UNCHANGED <<database, configured, restarts, pc, cycle, published>>

\* The admin console adds, edits, enables or removes a model.
ModelsChange(o) ==
    /\ database = "up"
    /\ configured' = IF o \in configured THEN configured \ {o} ELSE configured \cup {o}
    /\ UNCHANGED <<database, reachable, restarts, pc, cycle, published>>

\* Startup loads the key cache from the database before it starts the loop.
Restart ==
    /\ restarts < MaxRestarts
    /\ restarts' = restarts + 1
    /\ database = "up"
    /\ pc' = "database"
    /\ found' = "unknown" /\ origins' = {} /\ pending' = {} /\ up' = {}
    /\ _consec_fail' = 0 /\ _probe_count' = 0 /\ _HEALTH' = NoHealth
    /\ UNCHANGED <<database, reachable, configured>>

Next ==
    \/ Probe
    \/ DatabaseChanges
    \/ \E o \in Origins : OriginChanges(o) \/ ModelsChange(o)
    \/ Restart

Spec == Init /\ [][Next]_vars

\* The loop never ends: every await of it returns, by a timeout at the latest.
FairSpec == Spec /\ WF_vars(Probe)

-----------------------------------------------------------------------------
(* Properties *)

\* Every variable keeps its type; only answers to this cycle's probes count.
TypeOK ==
    /\ database \in {"up", "down"}
    /\ reachable \in SUBSET Origins
    /\ configured \in SUBSET Origins
    /\ restarts \in Nat
    /\ pc \in {"database", "origins", "gather", "sleep"}
    /\ found \in {"unknown", "up", "down"}
    /\ origins \in SUBSET Origins
    /\ pending \in SUBSET origins
    /\ up \in SUBSET (origins \ pending)
    /\ _consec_fail \in 0..MaxCount
    /\ _probe_count \in 0..MaxCount
    /\ _HEALTH \in Health

\* No published snapshot turns a page that is operational into a major outage:
\* "a single transient blip ... surfaces as degraded for one cycle"
\* (status.py:36-39).
StepIsGradual ==
    _overall_status(_HEALTH, FALSE) = "ok"
        => _overall_status(_HEALTH', FALSE) # "outage"
NeverJumpsToOutage == [][StepIsGradual]_vars

\* The failing streak never outruns the cycles completed since the process
\* started, so a restart cannot publish an outage it has not measured; the
\* warm-up gate of _overall_status is implied by the debounce
\* (status.py:44, 261).
OutageIsMeasured ==
    /\ _HEALTH.consec_fail <= _HEALTH.probe_count
    /\ _HEALTH.consec_fail >= OUTAGE_FAIL_THRESHOLD => IsOutage(_HEALTH)

\* The admin console is done with the models.
ModelsSettle == <>[][FALSE]_configured

AllDown == database = "up" /\ configured # {} /\ reachable \cap configured = {}
AllUp == database = "up" /\ configured \subseteq reachable

\* Upstreams that stay down are published as an outage, whatever the database,
\* the models, restarts and unfinished cycles did before (status.py:122-126).
OutageIsPublished ==
    ModelsSettle /\ <>[]AllDown => <>[](_overall_status(_HEALTH, FALSE) = "outage")

\* Once everything is reachable again the page returns to operational
\* (status.py:128, the streak is reset).
RecoveryIsPublished ==
    ModelsSettle /\ <>[]AllUp => <>[](_overall_status(_HEALTH, FALSE) = "ok")

=============================================================================
