----------------------------- MODULE SourceFetch -----------------------------
(***************************************************************************)
(* The workers that fetch from one external service, each for another      *)
(* case: processProperty, processCourt or processSCRA, from Allow() to     *)
(* SetSourceResult, with the retry loop of resilience.Do.  They share the  *)
(* service's breaker, whose steps are those of BreakerProtocol, and        *)
(* nothing with the workers of another service: one service at a time.     *)
(*                                                                         *)
(* The worker's context is never cancelled: it comes from an errgroup      *)
(* whose functions all return nil.  So Do ends by its own rules, and the   *)
(* rate limiter only delays (RateLimiter shows that it serves everybody).  *)
(***************************************************************************)
EXTENDS Clients, Naturals, FiniteSets

CONSTANTS
    Workers,
    Kinds,          \* the services to look at
    MaxAttempts,    \* cfg.MaxAttempts of the retry loop
    MaxPolls,       \* bound: SCRA polls that fit into the 30 seconds
    MaxFailures,    \* of the breaker
    HealthPolled,   \* whether GET /api/health is called
    FailureCap      \* bound: no fetch starts at FailureCap recorded failures

ASSUME WorkersAssumption == IsFiniteSet(Workers) /\ Workers # {}
ASSUME KindsAssumption == Kinds \subseteq {"property_records", "court_records", "scra"}
ASSUME LimitsAssumption == MaxAttempts \in Nat \ {0} /\ MaxPolls \in Nat
ASSUME BreakerAssumption == MaxFailures \in Nat \ {0} /\ FailureCap \in Nat

VARIABLES
    kind,           \* the service whose workers these are
    breaker, call, probes,      \* BreakerProtocol
    pc,             \* where each worker is
    attempts,       \* worker: requests sent for this source
    openCalls       \* history: requests sent while the breaker is open,
                    \* since it last opened

Breaker == INSTANCE BreakerProtocol
    WITH Callers <- Workers, Reports <- {"success", "failure", "none"}

circuit == <<breaker, call, probes>>
vars == <<kind, circuit, pc, attempts, openCalls>>

\* Between Allow() and the report, or the poll timeout that omits it.
InFlight == {"wait", "attempt", "backoff", "poll", "failed", "succeeded"}

\* The requests one worker can send for one source.
JobCalls == MaxAttempts + (IF kind = "scra" THEN MaxPolls ELSE 0)

TypeOK ==
    /\ kind \in Kinds
    /\ Breaker!TypeOK
    /\ pc \in [Workers -> {"idle", "write"} \cup InFlight]
    /\ attempts \in [Workers -> 0..JobCalls]
    /\ openCalls \in Nat

Init ==
    /\ kind \in Kinds
    /\ Breaker!Init
    /\ pc = [w \in Workers |-> "idle"]
    /\ attempts = [w \in Workers |-> 0]
    /\ openCalls = 0

\* Mutant: a fetch that the breaker refuses goes on all the same.
Allow_Unheeded(w) ==
    /\ pc[w] = "idle"
    /\ attempts' = [attempts EXCEPT ![w] = 0]
    /\ pc' = [pc EXCEPT ![w] = IF kind = "court_records" THEN "wait" ELSE "attempt"]
    /\ \/ Breaker!Enter(w)
       \/ ~Breaker!Allows(breaker) /\ UNCHANGED circuit
    /\ UNCHANGED <<kind, openCalls>>

\* if !o.xCB.Allow(): without a call the source is written as failed.
Allow(w) ==
    /\ pc[w] = "idle"
    /\ attempts' = [attempts EXCEPT ![w] = 0]
    /\ \/ /\ Breaker!Enter(w)
          /\ pc' = [pc EXCEPT ![w] = IF kind = "court_records" THEN "wait" ELSE "attempt"]
       \/ /\ ~Breaker!Allows(breaker)
          /\ pc' = [pc EXCEPT ![w] = "write"]
          /\ UNCHANGED circuit
    /\ UNCHANGED <<kind, openCalls>>

\* o.courtLimiter.Wait(ctx), once per source.
Wait(w) ==
    /\ pc[w] = "wait"
    /\ pc' = [pc EXCEPT ![w] = "attempt"]
    /\ UNCHANGED <<kind, circuit, attempts, openCalls>>

\* One request goes out.
Send(w) ==
    /\ attempts' = [attempts EXCEPT ![w] = attempts[w] + 1]
    /\ openCalls' = IF breaker.state = "open" THEN openCalls + 1 ELSE openCalls

\* What the function given to Do can return.
Outcomes == CASE kind = "property_records" -> {Fetch(reply) : reply \in PropertyReplies}
              [] kind = "court_records" -> {Search(reply) : reply \in CourtReplies}
              [] kind = "scra" -> {SubmitSearch(reply) : reply \in SubmitReplies}

\* The end of the loop body in Do after the n-th attempt.
AfterAttempt(outcome, n) ==
    CASE outcome = "value" -> IF kind = "scra" THEN "poll" ELSE "succeeded"
      [] outcome = "permanent" \/ n = MaxAttempts -> "failed"
      [] OTHER -> "backoff"

\* Mutant: the loop counts its attempts from 0.
Attempt_FromZero(w) ==
    /\ pc[w] = "attempt"
    /\ attempts[w] <= MaxAttempts
    /\ Send(w)
    /\ \E outcome \in Outcomes :
          pc' = [pc EXCEPT ![w] = AfterAttempt(outcome, attempts[w])]
    /\ UNCHANGED <<kind, circuit>>

\* for attempt := 1; attempt <= cfg.MaxAttempts; attempt++
Attempt(w) ==
    /\ pc[w] = "attempt"
    /\ attempts[w] < MaxAttempts
    /\ Send(w)
    /\ \E outcome \in Outcomes :
          pc' = [pc EXCEPT ![w] = AfterAttempt(outcome, attempts[w] + 1)]
    /\ UNCHANGED <<kind, circuit>>

\* case <-time.After(delay)
Backoff(w) ==
    /\ pc[w] = "backoff"
    /\ pc' = [pc EXCEPT ![w] = "attempt"]
    /\ UNCHANGED <<kind, circuit, attempts, openCalls>>

\* The end of the poll loop's body.
AfterPoll(reply) ==
    CASE PollResult(reply) = "value" -> "succeeded"
      [] PollResult(reply) = "permanent" -> "failed"
      [] OTHER -> "poll"

\* case <-ticker.C of the poll loop.
Poll(w) ==
    /\ pc[w] = "poll"
    /\ attempts[w] < JobCalls
    /\ Send(w)
    /\ \E reply \in PollReplies : pc' = [pc EXCEPT ![w] = AfterPoll(reply)]
    /\ UNCHANGED <<kind, circuit>>

\* Mutant: a `break' that leaves the select and not the loop.
PollTimeout_LoopsOn(w) ==
    /\ pc[w] = "poll"
    /\ UNCHANGED vars

\* case <-pollCtx.Done(): no report.
PollTimeout(w) ==
    /\ pc[w] = "poll"
    /\ Breaker!ReturnSilently(w)
    /\ pc' = [pc EXCEPT ![w] = "write"]
    /\ UNCHANGED <<kind, attempts, openCalls>>

\* Mutant: a success is kept from the breaker.
RecordSuccess_Silent(w) ==
    /\ pc[w] = "succeeded"
    /\ Breaker!ReturnSilently(w)
    /\ pc' = [pc EXCEPT ![w] = "write"]
    /\ UNCHANGED <<kind, attempts, openCalls>>

RecordSuccess(w) ==
    /\ pc[w] = "succeeded"
    /\ Breaker!ReturnSuccess(w)
    /\ pc' = [pc EXCEPT ![w] = "write"]
    /\ UNCHANGED <<kind, attempts, openCalls>>

\* Mutant: a failure is written down but not reported.
RecordFailure_Skipped(w) ==
    /\ pc[w] = "failed"
    /\ pc' = [pc EXCEPT ![w] = "write"]
    /\ UNCHANGED <<kind, circuit, attempts, openCalls>>

RecordFailure(w) ==
    /\ pc[w] = "failed"
    /\ Breaker!ReturnFailure(w)
    /\ pc' = [pc EXCEPT ![w] = "write"]
    /\ openCalls' = IF Breaker!Trips(breaker) THEN 0 ELSE openCalls
    /\ UNCHANGED <<kind, attempts>>

\* o.store.SetSourceResult(ctx, ...): the worker is done, and free for the
\* next case.
Write(w) ==
    /\ pc[w] = "write"
    /\ pc' = [pc EXCEPT ![w] = "idle"]
    /\ UNCHANGED <<kind, circuit, attempts, openCalls>>

Process(w) == \/ Wait(w) \/ Attempt(w) \/ Backoff(w)
              \/ Poll(w) \/ PollTimeout(w)
              \/ RecordSuccess(w) \/ RecordFailure(w) \/ Write(w)

Environment == /\ Breaker!Health \/ Breaker!Elapse
               /\ UNCHANGED <<kind, pc, attempts, openCalls>>

Next == \/ \E w \in Workers : Allow(w) \/ Process(w)
        \/ Environment

Spec == Init /\ [][Next]_vars

\* A worker that has started keeps going: the limiter serves it, requests and
\* delays end, and so does the poll loop.
FairSpec == Spec /\ \A w \in Workers : WF_vars(Process(w))

-----------------------------------------------------------------------------

\* A call is in flight for the breaker exactly while its worker is between
\* Allow() and the report: nobody reports twice, or a call it was refused, and
\* no worker leaves without a report or a poll timeout.
ReportedOnce == \A w \in Workers : call[w] # "idle" <=> pc[w] \in InFlight

\* "stopping calls to a service that has repeatedly failed"
\* (circuitbreaker.go:17-18): once the circuit is open, only workers that had
\* been admitted before go on calling, up to the end of their retries.
OpenLoadBounded == openCalls <= (Cardinality(Workers) - 1) * JobCalls

\* "Consecutive failures required to trip" (circuitbreaker.go:21): the circuit
\* is closed exactly while fewer than MaxFailures failures are on record,
\* whatever workers were on their way when it opened, closed or was polled.
ThresholdInv == Breaker!ThresholdInv

\* "Only one probe at a time" (circuitbreaker.go:60): between two openings of
\* the circuit at most one worker is let through, even if its outcome is late
\* or never reported.
OneProbePerCooldown == Breaker!OneProbePerCooldown

\* A half-open breaker has its probe in flight, whatever the pipeline of the
\* service does with it.
ProbeInPipeline == Breaker!HalfOpenHasProbe

\* "When a service comes back, the half-open probe lets one request through,
\* and success closes the circuit" (APPROACH.md:39): the outcome of the probe
\* always decides, so the service is not cut off for ever.
CircuitRecovers == Breaker!HalfOpenResolves

\* Both hold at least of the services whose workers always report: only an
\* SCRA worker can leave in silence (process_scra.go:79).
ReportedProbeInPipeline == kind # "scra" => ProbeInPipeline
ReportedCircuitRecovers == kind # "scra" => CircuitRecovers

\* A worker that has started writes its source's result: Lookup's fairness of
\* SetSourceResult.
JobEnds == \A w \in Workers : pc[w] # "idle" ~> pc[w] = "idle"
=============================================================================
