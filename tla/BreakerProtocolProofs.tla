------------------------ MODULE BreakerProtocolProofs ------------------------
(***************************************************************************)
(* Theorems about BreakerProtocol, for every set of callers, every         *)
(* threshold and every way a call can end.                                 *)
(***************************************************************************)
EXTENDS BreakerProtocol, TLAPS

-----------------------------------------------------------------------------
(* What the methods of the breaker preserve. *)

\* The threshold, as a property of the breaker value.
ThresholdExact(b) == b.state = "closed" <=> b.failures < MaxFailures

\* Every method of the breaker, and time, keep it well formed and keep the
\* threshold exact: the circuit is closed iff the count is below it.
LEMMA BreakerMethods ==
    ASSUME MaxFailuresAssumption, NEW b \in Breaker, ThresholdExact(b)
    PROVE  /\ AfterAllow(b) \in Breaker /\ ThresholdExact(AfterAllow(b))
           /\ AfterState(b) \in Breaker /\ ThresholdExact(AfterState(b))
           /\ AfterRecordSuccess(b) \in Breaker /\ ThresholdExact(AfterRecordSuccess(b))
           /\ AfterRecordFailure(b) \in Breaker /\ ThresholdExact(AfterRecordFailure(b))
           /\ AfterCooldown(b) \in Breaker /\ ThresholdExact(AfterCooldown(b))
<1> USE DEF MaxFailuresAssumption, Breaker, CBState, ThresholdExact
<1>1. AfterAllow(b) \in Breaker /\ ThresholdExact(AfterAllow(b))
  BY DEF AfterAllow, CooledDown
<1>2. AfterState(b) \in Breaker /\ ThresholdExact(AfterState(b))
  BY DEF AfterState, CooledDown
<1>3. AfterRecordSuccess(b) \in Breaker /\ ThresholdExact(AfterRecordSuccess(b))
  BY DEF AfterRecordSuccess
<1>4. AfterRecordFailure(b) \in Breaker /\ ThresholdExact(AfterRecordFailure(b))
  BY DEF AfterRecordFailure, Trips
<1>5. AfterCooldown(b) \in Breaker /\ ThresholdExact(AfterCooldown(b))
  BY DEF AfterCooldown
<1> QED BY <1>1, <1>2, <1>3, <1>4, <1>5

-----------------------------------------------------------------------------
(* Types and the threshold. *)

\* The state stays well typed, and the circuit is closed exactly while fewer
\* than MaxFailures failures are on record (circuitbreaker.go:21), whatever
\* calls were in flight when it opened, closed or was polled.
THEOREM TypeAndThreshold ==
    ASSUME MaxFailuresAssumption
    PROVE  Spec => [](TypeOK /\ ThresholdInv)
<1> DEFINE Inv == TypeOK /\ ThresholdExact(breaker)
<1>1. Init => Inv
  BY DEF MaxFailuresAssumption, Init, TypeOK, ThresholdExact, NewCircuitBreaker, Breaker,
         CBState
<1>2. Inv /\ [Next]_vars => Inv'
  <2> SUFFICES ASSUME Inv, [Next]_vars PROVE Inv'
    OBVIOUS
  <2> USE DEF TypeOK
  <2>1. ASSUME NEW c \in Callers, Enter(c) PROVE Inv'
    BY <2>1, BreakerMethods DEF Enter, ThresholdExact
  <2>2. ASSUME NEW c \in Callers, ReturnSuccess(c) PROVE Inv'
    BY <2>2, BreakerMethods DEF ReturnSuccess, ThresholdExact
  <2>3. ASSUME NEW c \in Callers, ReturnFailure(c) PROVE Inv'
    BY <2>3, BreakerMethods DEF ReturnFailure, ThresholdExact
  <2>4. ASSUME NEW c \in Callers, ReturnSilently(c) PROVE Inv'
    BY <2>4 DEF ReturnSilently, ThresholdExact
  <2>5. CASE Health
    BY <2>5, BreakerMethods DEF Health, ThresholdExact
  <2>6. CASE Elapse
    BY <2>6, BreakerMethods DEF Elapse, ThresholdExact
  <2>7. CASE UNCHANGED vars
    BY <2>7 DEF vars, ThresholdExact
  <2> QED BY <2>1, <2>2, <2>3, <2>4, <2>5, <2>6, <2>7 DEF Next, Return
<1>3. Inv => TypeOK /\ ThresholdInv
  BY DEF ThresholdInv, ThresholdExact
<1> QED BY <1>1, <1>2, <1>3, PTL DEF Spec

-----------------------------------------------------------------------------
(* Probes. *)

\* OneProbePerCooldown is not inductive: an open breaker is about to admit a
\* probe, so it must not have admitted one since it opened.
ProbesInv == probes <= (IF breaker.state = "open" THEN 0 ELSE 1)

\* Between two openings of the circuit at most one call gets through while it
\* is not closed (circuitbreaker.go:59-62), with stragglers, lost reports and
\* health polls in between.
THEOREM ProbePerCooldown ==
    ASSUME MaxFailuresAssumption
    PROVE  Spec => []OneProbePerCooldown
<1>1. Init => ProbesInv
  BY DEF Init, ProbesInv, NewCircuitBreaker
<1>2. TypeOK /\ ProbesInv /\ [Next]_vars => ProbesInv'
  <2> SUFFICES ASSUME TypeOK, ProbesInv, [Next]_vars PROVE ProbesInv'
    OBVIOUS
  <2> USE DEF ProbesInv, TypeOK, Breaker, CBState
  <2>1. ASSUME NEW c \in Callers, Enter(c) PROVE ProbesInv'
    BY <2>1 DEF Enter, Allows, AfterAllow, CooledDown
  <2>2. ASSUME NEW c \in Callers, ReturnSuccess(c) PROVE ProbesInv'
    BY <2>2 DEF ReturnSuccess, AfterRecordSuccess
  <2>3. ASSUME NEW c \in Callers, ReturnFailure(c) PROVE ProbesInv'
    BY <2>3 DEF ReturnFailure, AfterRecordFailure, Trips
  <2>4. ASSUME NEW c \in Callers, ReturnSilently(c) PROVE ProbesInv'
    BY <2>4 DEF ReturnSilently
  <2>5. CASE Health
    BY <2>5 DEF Health, AfterState, CooledDown
  <2>6. CASE Elapse
    BY <2>6 DEF Elapse, AfterCooldown
  <2>7. CASE UNCHANGED vars
    BY <2>7 DEF vars
  <2> QED BY <2>1, <2>2, <2>3, <2>4, <2>5, <2>6, <2>7 DEF Next, Return
<1>3. TypeOK /\ ProbesInv => OneProbePerCooldown
  BY DEF TypeOK, ProbesInv, OneProbePerCooldown
<1> QED BY <1>1, <1>2, <1>3, TypeAndThreshold, PTL DEF Spec

\* If every call reports and nobody polls the health endpoint, a half-open
\* breaker always has its probe in flight, so it cannot be stuck there.  The
\* hypotheses are the two leaks: each one alone breaks the invariant.
THEOREM ProbePresent ==
    ASSUME MaxFailuresAssumption, "none" \notin Reports, ~HealthPolled
    PROVE  Spec => []HalfOpenHasProbe
<1>1. Init => HalfOpenHasProbe
  BY DEF Init, HalfOpenHasProbe, NewCircuitBreaker
<1>2. TypeOK /\ HalfOpenHasProbe /\ [Next]_vars => HalfOpenHasProbe'
  <2> SUFFICES ASSUME TypeOK, HalfOpenHasProbe, [Next]_vars PROVE HalfOpenHasProbe'
    OBVIOUS
  <2> USE DEF HalfOpenHasProbe, TypeOK, Breaker, CBState
  <2>1. ASSUME NEW c \in Callers, Enter(c) PROVE HalfOpenHasProbe'
    BY <2>1 DEF Enter, Allows, AfterAllow, CooledDown
  <2>2. ASSUME NEW c \in Callers, ReturnSuccess(c) PROVE HalfOpenHasProbe'
    BY <2>2 DEF ReturnSuccess, AfterRecordSuccess
  <2>3. ASSUME NEW c \in Callers, ReturnFailure(c) PROVE HalfOpenHasProbe'
    <3>1. breaker'.state # "half-open"
      BY <2>3 DEF ReturnFailure, AfterRecordFailure, Trips
    <3> QED BY <3>1
  <2>4. CASE Elapse
    BY <2>4 DEF Elapse, AfterCooldown
  <2>5. CASE UNCHANGED vars
    BY <2>5 DEF vars
  <2> QED BY <2>1, <2>2, <2>3, <2>4, <2>5
          DEF Next, Return, ReturnSilently, Health
<1> QED BY <1>1, <1>2, TypeAndThreshold, PTL DEF Spec
=============================================================================
