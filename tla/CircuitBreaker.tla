--------------------------- MODULE CircuitBreaker ---------------------------
(***************************************************************************)
(* The circuit breaker of internal/resilience/circuitbreaker.go, as a      *)
(* value and one operator per method.  Each method holds the mutex from    *)
(* its first to its last statement, so each is one atomic function of the  *)
(* breaker; a module that uses a breaker keeps it in a variable and primes *)
(* it with these operators.                                                *)
(*                                                                         *)
(* Time is abstracted to one bit: `cooled' says whether                    *)
(* time.Since(openedAt) >= cooldown, which is false at the instant the     *)
(* breaker opens and becomes true once, as time passes.  The name and      *)
(* lastFailure fields are read by nobody and are left out.                 *)
(***************************************************************************)
EXTENDS Naturals

CONSTANT MaxFailures        \* cb.maxFailures

\* main.go builds the three breakers with 5.  Modules that use a breaker, and
\* theorems about one, assume this of theirs.
MaxFailuresAssumption == MaxFailures \in Nat \ {0}

CBState == {"closed", "open", "half-open"}

Breaker == [state : CBState, failures : Nat, cooled : BOOLEAN]

NewCircuitBreaker == [state |-> "closed", failures |-> 0, cooled |-> FALSE]

\* The open breaker whose cooldown has elapsed.
CooledDown(b) == b.state = "open" /\ b.cooled

\* Mutant: a half-open breaker lets everyone through.
Allows_HalfOpenLeaks(b) == b.state # "open" \/ b.cooled

\* What Allow() returns ...
Allows(b) == b.state = "closed" \/ CooledDown(b)

\* ... and the breaker it leaves behind.
AfterAllow(b) == IF CooledDown(b) THEN [b EXCEPT !.state = "half-open"] ELSE b

AfterRecordSuccess(b) ==
    [state |-> "closed", failures |-> 0, cooled |-> b.cooled]

\* Mutant: the threshold is passed, not reached.
Trips_PastThreshold(b) == \/ b.state = "half-open"
                          \/ b.state = "closed" /\ b.failures >= MaxFailures

\* Mutant: a failed probe does not re-open the circuit.
Trips_ProbeIgnored(b) == b.state = "closed" /\ b.failures + 1 >= MaxFailures

\* The failures that open the circuit: one in half-open, the last of
\* MaxFailures in closed.
Trips(b) == \/ b.state = "half-open"
            \/ b.state = "closed" /\ b.failures + 1 >= MaxFailures

AfterRecordFailure(b) ==
    [state    |-> IF Trips(b) THEN "open" ELSE b.state,
     failures |-> b.failures + 1,
     cooled   |-> b.cooled /\ ~Trips(b)]

\* State() is a reader in name only: it makes Allow's transition too.
AfterState(b) == IF CooledDown(b) THEN [b EXCEPT !.state = "half-open"] ELSE b

\* Time passing for an open breaker.
AfterCooldown(b) == [b EXCEPT !.cooled = TRUE]
=============================================================================
