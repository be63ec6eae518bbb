------------------------- MODULE StatusProbeProofs --------------------------
(***************************************************************************)
(* Proofs about StatusProbe, for any set of origins and any thresholds     *)
(* with WARMUP_PROBES <= OUTAGE_FAIL_THRESHOLD and a threshold above one.  *)
(* The published snapshot is coupled to the two counters beside it; type   *)
(* correctness alone is inductive, the coupling is not without it.         *)
(***************************************************************************)
EXTENDS StatusProbe, FiniteSetTheorems, TLAPS

\* The snapshot and the counters are replaced together, the streak counts only
\* completed cycles, and it is positive exactly while the snapshot is hard down.
Coupled ==
    /\ _HEALTH.consec_fail = _consec_fail
    /\ _HEALTH.probe_count = _probe_count
    /\ _consec_fail <= _probe_count
    /\ _consec_fail > 0 <=> HardDown(_HEALTH)

IInv == TypeOK /\ Coupled

-----------------------------------------------------------------------------

\* A saturating count stays in range and, below a bound that is not zero,
\* never falls back to zero.
LEMMA BumpInRange ==
    ASSUME NEW n \in 0..MaxCount
    PROVE  /\ Bump(n) \in 0..MaxCount
           /\ Bump(n) > 0
           /\ Bump(n) <= n + 1
           /\ \A m \in 0..MaxCount : n <= m => Bump(n) <= Bump(m)
  BY ThresholdAssumption DEF Bump

\* A snapshot counts origins, so its counts are natural numbers.
LEMMA MeasuredCounts ==
    ASSUME TypeOK
    PROVE  Cardinality(origins) \in Nat /\ Cardinality(up) \in Nat
<1>1. origins \subseteq Origins /\ up \subseteq Origins
  BY DEF TypeOK
<1>2. IsFiniteSet(origins) /\ IsFiniteSet(up)
  BY <1>1, OriginsAssumption, FS_Subset
<1> QED
  BY <1>2, FS_CardinalityType

\* The model starts well typed.
LEMMA TypeInit == Init => TypeOK
  BY ThresholdAssumption DEF Init, TypeOK, Health, NoHealth

\* Publishing keeps the types: the counters saturate.
LEMMA TypePublish ==
    ASSUME TypeOK, Publish
    PROVE  TypeOK'
<1>1. _consec_fail \in 0..MaxCount /\ _probe_count \in 0..MaxCount
  BY DEF TypeOK
<1>2. _consec_fail' \in 0..MaxCount
  BY <1>1, BumpInRange, ThresholdAssumption DEF Publish, Streak
<1>3. _probe_count' \in 0..MaxCount
  BY <1>1, BumpInRange DEF Publish, Counted
<1>4. _HEALTH' \in Health
  BY <1>2, <1>3, MeasuredCounts DEF Publish, Health, TypeOK
<1> QED
  BY <1>2, <1>3, <1>4 DEF Publish, TypeOK, environment

\* Every other step of the loop keeps the types.
LEMMA TypeProbe ==
    ASSUME TypeOK, Probe
    PROVE  TypeOK'
<1>1. CASE ProbeDatabase
  BY <1>1 DEF ProbeDatabase, TypeOK, environment, published
<1>2. CASE ReadOrigins
  BY <1>2 DEF ReadOrigins, TypeOK, environment, published
<1>3. CASE CycleFails
  BY <1>3 DEF CycleFails, TypeOK, environment, published
<1>4. CASE Publish
  BY <1>4, TypePublish
<1>5. CASE Wake
  BY <1>5 DEF Wake, TypeOK, environment, published, cycle
<1>6. ASSUME NEW o \in Origins, ProbeOrigin(o)
      PROVE  TypeOK'
  BY <1>6 DEF ProbeOrigin, TypeOK, environment, published
<1> QED
  BY <1>1, <1>2, <1>3, <1>4, <1>5, <1>6 DEF Probe

\* Every step keeps the types.
LEMMA TypeStep == TypeOK /\ [Next]_vars => TypeOK'
<1> SUFFICES ASSUME TypeOK, [Next]_vars
             PROVE  TypeOK'
  OBVIOUS
<1>1. CASE Probe
  BY <1>1, TypeProbe
<1>2. CASE DatabaseChanges
  BY <1>2 DEF DatabaseChanges, TypeOK, published, cycle
<1>3. ASSUME NEW o \in Origins, OriginChanges(o)
      PROVE  TypeOK'
  BY <1>3 DEF OriginChanges, TypeOK, published, cycle
<1>4. ASSUME NEW o \in Origins, ModelsChange(o)
      PROVE  TypeOK'
  BY <1>4 DEF ModelsChange, TypeOK, published, cycle
<1>5. CASE Restart
  BY <1>5, ThresholdAssumption DEF Restart, TypeOK, Health, NoHealth
<1>6. CASE UNCHANGED vars
  BY <1>6 DEF vars, environment, cycle, published, TypeOK
<1> QED
  BY <1>1, <1>2, <1>3, <1>4, <1>5, <1>6 DEF Next

\* Every reachable state of the probe has the shape the code gives it: only
\* origins of this cycle are waited for, and only they are counted.
THEOREM TypeCorrect == Spec => []TypeOK
  BY TypeInit, TypeStep, PTL DEF Spec

-----------------------------------------------------------------------------

\* Nothing is published when the process starts.
LEMMA CoupledInit == Init => Coupled
  BY DEF Init, Coupled, HardDown, NoHealth

\* Publishing moves the snapshot and the counters together.
LEMMA CoupledPublish ==
    ASSUME IInv, Publish
    PROVE  Coupled' /\ _consec_fail' <= _consec_fail + 1
<1> DEFINE hard == HardDown(Measured)
<1>1. _consec_fail \in 0..MaxCount /\ _probe_count \in 0..MaxCount
      /\ _consec_fail <= _probe_count
  BY DEF IInv, TypeOK, Coupled
<1>2. _HEALTH' = [database |-> found,
                  upstreams_total |-> Cardinality(origins),
                  upstreams_up |-> Cardinality(up),
                  consec_fail |-> _consec_fail',
                  probe_count |-> _probe_count']
  BY DEF Publish
<1>3. HardDown(_HEALTH)' <=> hard
  BY <1>2 DEF HardDown, Measured
<1>4. _consec_fail' = IF hard THEN Bump(_consec_fail) ELSE 0
  BY DEF Publish, Streak
<1>5. _probe_count' = Bump(_probe_count)
  BY DEF Publish, Counted
<1>6. _consec_fail' <= _probe_count' /\ _consec_fail' <= _consec_fail + 1
      /\ (_consec_fail' > 0 <=> hard)
  <2> HIDE DEF hard
  <2>1. CASE hard
    BY <2>1, <1>1, <1>4, <1>5, BumpInRange
  <2>2. CASE ~hard
    BY <2>2, <1>1, <1>4, <1>5, BumpInRange
  <2> QED
    BY <2>1, <2>2
<1> QED
  BY <1>2, <1>3, <1>6 DEF Coupled

\* Every other step leaves both alone, or starts from nothing.
LEMMA CoupledStep == IInv /\ [Next]_vars => Coupled'
<1> SUFFICES ASSUME IInv, [Next]_vars
             PROVE  Coupled'
  OBVIOUS
<1>1. CASE Publish
  BY <1>1, CoupledPublish
<1>2. CASE Restart
  BY <1>2 DEF Restart, Coupled, HardDown, NoHealth
<1>3. CASE UNCHANGED published
  BY <1>3 DEF published, IInv, Coupled, HardDown
<1>4. Publish \/ Restart \/ UNCHANGED published
  BY DEF Next, Probe, ProbeDatabase, ReadOrigins, CycleFails, ProbeOrigin, Wake,
         DatabaseChanges, OriginChanges, ModelsChange, vars
<1> QED
  BY <1>1, <1>2, <1>3, <1>4

\* The coupling, with the types, is an invariant.
LEMMA Invariance == Spec => []IInv
<1>1. Init => IInv
  BY TypeInit, CoupledInit DEF IInv
<1>2. IInv /\ [Next]_vars => IInv'
  BY TypeStep, CoupledStep DEF IInv
<1> QED
  BY <1>1, <1>2, PTL DEF Spec

\* A streak at the threshold was measured by cycles of this process and the
\* snapshot is hard down now: the warm-up gate decides nothing the debounce
\* does not.
THEOREM OutageMeasured == Spec => []OutageIsMeasured
<1>1. IInv => OutageIsMeasured
  BY ThresholdAssumption DEF IInv, TypeOK, Coupled, OutageIsMeasured, IsOutage
<1> QED
  BY <1>1, Invariance, PTL

\* One published cycle never takes the page from operational to a major outage.
THEOREM GradualEscalation == Spec => NeverJumpsToOutage
<1>1. IInv /\ IInv' /\ [Next]_vars => [StepIsGradual]_vars
  <2> SUFFICES ASSUME IInv, IInv', Next, _overall_status(_HEALTH, FALSE) = "ok"
               PROVE  ~IsOutage(_HEALTH')
    BY DEF StepIsGradual, _overall_status
  <2>1. ~HardDown(_HEALTH) /\ _consec_fail = 0
    <3>1. ~HardDown(_HEALTH)
      BY DEF _overall_status
    <3> QED
      BY <3>1 DEF IInv, Coupled, TypeOK
  <2>2. CASE Publish
    BY <2>1, <2>2, CoupledPublish, ThresholdAssumption
       DEF IsOutage, Coupled, IInv, TypeOK
  <2>3. CASE Restart
    BY <2>3 DEF Restart, NoHealth, IsOutage, HardDown
  <2>4. CASE UNCHANGED published
    BY <2>1, <2>4 DEF published, IsOutage, HardDown
  <2>5. Publish \/ Restart \/ UNCHANGED published
    BY DEF Next, Probe, ProbeDatabase, ReadOrigins, CycleFails, ProbeOrigin, Wake,
           DatabaseChanges, OriginChanges, ModelsChange
  <2> QED
    BY <2>2, <2>3, <2>4, <2>5
<1> QED
  BY <1>1, Invariance, PTL DEF Spec, NeverJumpsToOutage

=============================================================================
