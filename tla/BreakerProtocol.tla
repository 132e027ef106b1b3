--------------------------- MODULE BreakerProtocol ---------------------------
(***************************************************************************)
(* One circuit breaker and the calls that share it: the source workers of  *)
(* every lookup that runs (process_property.go, process_court.go,          *)
(* process_scra.go) and the health handler.  A worker asks Allow() before  *)
(* it calls the service and reports the outcome when it comes back, any    *)
(* number of steps later, so the breaker may have changed state meanwhile. *)
(***************************************************************************)
EXTENDS CircuitBreaker

CONSTANTS
    Callers,        \* the workers that can be in flight at the same time
    Reports,        \* how an admitted call can end: "success" and "failure"
                    \* report to the breaker, "none" returns without a report
    HealthPolled,   \* whether GET /api/health is called
    FailureCap      \* bound: no call enters at FailureCap recorded failures

VARIABLES
    breaker,        \* the shared CircuitBreaker
    call,           \* "idle", or in flight as a "normal" call or a "probe"
    probes          \* history: probes admitted since the breaker last opened

vars == <<breaker, call, probes>>

Init == /\ breaker = NewCircuitBreaker
        /\ call = [c \in Callers |-> "idle"]
        /\ probes = 0

\* if !o.xCB.Allow() { ... return }: a refused call leaves everything as it
\* is (its row is the business of module Lookup), so only admission is a step.
Enter(c) ==
    /\ call[c] = "idle"
    /\ breaker.failures < FailureCap
    /\ Allows(breaker)
    /\ breaker' = AfterAllow(breaker)
    /\ call' = [call EXCEPT ![c] = IF breaker.state = "closed" THEN "normal" ELSE "probe"]
    /\ probes' = IF breaker.state = "closed" THEN probes ELSE probes + 1

\* The service answered: o.xCB.RecordSuccess().
ReturnSuccess(c) ==
    /\ "success" \in Reports
    /\ call[c] # "idle"
    /\ breaker' = AfterRecordSuccess(breaker)
    /\ call' = [call EXCEPT ![c] = "idle"]
    /\ UNCHANGED probes

\* The call failed for good (retries exhausted, a permanent error, an SCRA
\* search in error): o.xCB.RecordFailure().
ReturnFailure(c) ==
    /\ "failure" \in Reports
    /\ call[c] # "idle"
    /\ breaker' = AfterRecordFailure(breaker)
    /\ call' = [call EXCEPT ![c] = "idle"]
    /\ probes' = IF Trips(breaker) THEN 0 ELSE probes

\* The SCRA poll timed out: the worker returns and the breaker never hears.
ReturnSilently(c) ==
    /\ "none" \in Reports
    /\ call[c] # "idle"
    /\ call' = [call EXCEPT ![c] = "idle"]
    /\ UNCHANGED <<breaker, probes>>

\* GET /api/health reads State() of every breaker.
Health ==
    /\ HealthPolled
    /\ breaker' = AfterState(breaker)
    /\ UNCHANGED <<call, probes>>

Elapse ==
    /\ breaker.state = "open"
    /\ ~breaker.cooled
    /\ breaker' = AfterCooldown(breaker)
    /\ UNCHANGED <<call, probes>>

Return(c) == ReturnSuccess(c) \/ ReturnFailure(c) \/ ReturnSilently(c)

Next == \/ \E c \in Callers : Enter(c) \/ Return(c)
        \/ Health
        \/ Elapse

Spec == Init /\ [][Next]_vars

-----------------------------------------------------------------------------

TypeOK == /\ breaker \in Breaker
          /\ call \in [Callers -> {"idle", "normal", "probe"}]
          /\ probes \in Nat

\* "Consecutive failures required to trip" (circuitbreaker.go:21): the circuit
\* is closed exactly while fewer than MaxFailures failures are on record,
\* whatever calls were in flight when it opened, closed or was polled.
ThresholdInv == breaker.state = "closed" <=> breaker.failures < MaxFailures

\* Between two openings of the circuit at most one call is let through as a
\* probe (circuitbreaker.go:59-62), even if that probe is lost or late.
OneProbePerCooldown == probes <= 1

\* A half-open breaker refuses everyone, so only the report of a call in
\* flight can move it on: there must be one, and it must be a probe.
HalfOpenHasProbe ==
    breaker.state = "half-open" => \E c \in Callers : call[c] = "probe"

\* The breaker never stays half-open: the probe's outcome decides.
HalfOpenResolves == breaker.state = "half-open" ~> breaker.state # "half-open"
=============================================================================
