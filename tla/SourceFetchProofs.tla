-------------------------- MODULE SourceFetchProofs --------------------------
(***************************************************************************)
(* Theorems about SourceFetch, for every number of workers, every kind of  *)
(* service and every retry limit.                                          *)
(***************************************************************************)
EXTENDS SourceFetch, FiniteSetTheorems, TLAPS

Protocol == INSTANCE BreakerProtocolProofs
    WITH Callers <- Workers, Reports <- {"success", "failure", "none"}

\* The same without the report that is missing after an SCRA poll timeout.
Reporting == INSTANCE BreakerProtocolProofs
    WITH Callers <- Workers, Reports <- {"success", "failure"}

-----------------------------------------------------------------------------

\* Where an attempt leads.
LEMMA AfterAttemptType ==
    ASSUME NEW outcome, NEW n
    PROVE  AfterAttempt(outcome, n) \in {"poll", "succeeded", "failed", "backoff"}
BY DEF AfterAttempt

\* ReportedOnce with the types it takes to keep it.
ReportInv ==
    /\ pc \in [Workers -> {"idle", "write"} \cup InFlight]
    /\ call \in [Workers -> {"idle", "normal", "probe"}]
    /\ ReportedOnce

\* Allow() puts a call in flight, a report or the poll timeout ends it, and
\* the worker's place in its function tells which comes next.
LEMMA ReportInvariant == Spec => []ReportInv
<1> USE DEF ReportInv, ReportedOnce, InFlight
<1>1. Init => ReportInv
  BY DEF Init, Breaker!Init
<1>2. ReportInv /\ [Next]_vars => ReportInv'
  <2> SUFFICES ASSUME ReportInv, [Next]_vars PROVE ReportInv'
    OBVIOUS
  <2> USE DEF circuit
  <2>1. ASSUME NEW w \in Workers, Allow(w) PROVE ReportInv'
    BY <2>1 DEF Allow, Breaker!Enter
  <2>2. ASSUME NEW w \in Workers, Wait(w) PROVE ReportInv'
    BY <2>2 DEF Wait
  <2>3. ASSUME NEW w \in Workers, Attempt(w) PROVE ReportInv'
    <3>1. PICK p \in {"poll", "succeeded", "failed", "backoff"} :
             pc' = [pc EXCEPT ![w] = p]
      BY <2>3, AfterAttemptType DEF Attempt
    <3> QED BY <2>3, <3>1 DEF Attempt
  <2>4. ASSUME NEW w \in Workers, Backoff(w) PROVE ReportInv'
    BY <2>4 DEF Backoff
  <2>5. ASSUME NEW w \in Workers, Poll(w) PROVE ReportInv'
    <3>1. PICK p \in {"succeeded", "failed", "poll"} : pc' = [pc EXCEPT ![w] = p]
      BY <2>5 DEF Poll, AfterPoll
    <3> QED BY <2>5, <3>1 DEF Poll
  <2>6. ASSUME NEW w \in Workers, PollTimeout(w) PROVE ReportInv'
    BY <2>6 DEF PollTimeout, Breaker!ReturnSilently
  <2>7. ASSUME NEW w \in Workers, RecordSuccess(w) PROVE ReportInv'
    BY <2>7 DEF RecordSuccess, Breaker!ReturnSuccess
  <2>8. ASSUME NEW w \in Workers, RecordFailure(w) PROVE ReportInv'
    BY <2>8 DEF RecordFailure, Breaker!ReturnFailure
  <2>9. ASSUME NEW w \in Workers, Write(w) PROVE ReportInv'
    BY <2>9 DEF Write
  <2>10. CASE Environment
    BY <2>10 DEF Environment, Breaker!Health, Breaker!Elapse
  <2>11. CASE UNCHANGED vars
    BY <2>11 DEF vars
  <2> QED BY <2>1, <2>2, <2>3, <2>4, <2>5, <2>6, <2>7, <2>8, <2>9, <2>10, <2>11
          DEF Next, Process
<1> QED BY <1>1, <1>2, PTL DEF Spec

\* A call is in flight for the breaker exactly while its worker is between
\* Allow() and the report (process_property.go:16-57, process_court.go:16-69,
\* process_scra.go:17-121): no double report, no report of a refused call, no
\* worker that leaves unreported except by the poll timeout.
THEOREM ReportsOnce == Spec => []ReportedOnce
<1>1. ReportInv => ReportedOnce
  BY DEF ReportInv
<1> QED BY <1>1, ReportInvariant, PTL

\* The workers of a service use its breaker as BreakerProtocol describes: every
\* step of theirs is a step of the protocol or leaves the breaker alone.
THEOREM UsesProtocol == Spec => Protocol!Spec
<1>1. Init => Protocol!Init
  BY DEF Init, Breaker!Init, Protocol!Init, Breaker!NewCircuitBreaker, Protocol!NewCircuitBreaker
<1>2. [Next]_vars => [Protocol!Next]_(Protocol!vars)
  <2> SUFFICES ASSUME [Next]_vars PROVE Protocol!Next \/ UNCHANGED Protocol!vars
    OBVIOUS
  <2> USE DEF circuit, Protocol!vars
  <2>1. CASE UNCHANGED circuit
    BY <2>1
  <2>2. ASSUME NEW w \in Workers, Breaker!Enter(w) PROVE Protocol!Enter(w)
    BY <2>2 DEF Breaker!Enter, Protocol!Enter, Breaker!Allows, Protocol!Allows,
                Breaker!AfterAllow, Protocol!AfterAllow,
                Breaker!CooledDown, Protocol!CooledDown
  <2>3. ASSUME NEW w \in Workers, Breaker!ReturnSuccess(w) PROVE Protocol!ReturnSuccess(w)
    BY <2>3 DEF Breaker!ReturnSuccess, Protocol!ReturnSuccess,
                Breaker!AfterRecordSuccess, Protocol!AfterRecordSuccess
  <2>4. ASSUME NEW w \in Workers, Breaker!ReturnFailure(w) PROVE Protocol!ReturnFailure(w)
    BY <2>4 DEF Breaker!ReturnFailure, Protocol!ReturnFailure, Breaker!AfterRecordFailure,
                Protocol!AfterRecordFailure, Breaker!Trips, Protocol!Trips
  <2>5. ASSUME NEW w \in Workers, Breaker!ReturnSilently(w) PROVE Protocol!ReturnSilently(w)
    BY <2>5 DEF Breaker!ReturnSilently, Protocol!ReturnSilently
  <2>6. ASSUME Breaker!Health PROVE Protocol!Health
    BY <2>6 DEF Breaker!Health, Protocol!Health, Breaker!AfterState, Protocol!AfterState,
                Breaker!CooledDown, Protocol!CooledDown
  <2>7. ASSUME Breaker!Elapse PROVE Protocol!Elapse
    BY <2>7 DEF Breaker!Elapse, Protocol!Elapse, Breaker!AfterCooldown, Protocol!AfterCooldown
  <2> QED BY <2>1, <2>2, <2>3, <2>4, <2>5, <2>6, <2>7
          DEF Next, Process, Environment, Allow, Wait, Attempt, Backoff, Poll, PollTimeout,
              RecordSuccess, RecordFailure, Write, vars, Protocol!Next, Protocol!Return
<1> QED BY <1>1, <1>2, PTL DEF Spec, Protocol!Spec

\* So what holds of the protocol holds of the workers.  The circuit is closed
\* exactly while fewer than MaxFailures failures are on record
\* (circuitbreaker.go:21).
THEOREM FetchThreshold == Spec => []ThresholdInv
<1>1. Protocol!Spec => [](Protocol!TypeOK /\ Protocol!ThresholdInv)
  BY Protocol!TypeAndThreshold, BreakerAssumption DEF Protocol!MaxFailuresAssumption
<1>2. Protocol!ThresholdInv => ThresholdInv
  BY DEF Protocol!ThresholdInv, ThresholdInv, Breaker!ThresholdInv
<1> QED BY <1>1, <1>2, UsesProtocol, PTL

\* At most one worker per cooldown gets through a breaker that is not closed
\* (circuitbreaker.go:59-62).
THEOREM FetchOneProbe == Spec => []OneProbePerCooldown
<1>1. Protocol!Spec => []Protocol!OneProbePerCooldown
  BY Protocol!ProbePerCooldown, BreakerAssumption DEF Protocol!MaxFailuresAssumption
<1>2. Protocol!OneProbePerCooldown => OneProbePerCooldown
  BY DEF Protocol!OneProbePerCooldown, OneProbePerCooldown, Breaker!OneProbePerCooldown
<1> QED BY <1>1, <1>2, UsesProtocol, PTL

-----------------------------------------------------------------------------

\* Only SCRA workers poll, and the service never changes.
IsScra == kind = "scra"
NoPolls == kind # "scra" /\ \A w \in Workers : pc[w] # "poll"

\* The workers of any other service never get into the poll loop.
LEMMA NeverPolls == Spec /\ ~IsScra => []NoPolls
<1>1. Init /\ ~IsScra => NoPolls
  BY DEF Init, NoPolls, IsScra
<1>2. ReportInv /\ NoPolls /\ [Next]_vars => NoPolls'
  <2> SUFFICES ASSUME ReportInv, NoPolls, [Next]_vars PROVE NoPolls'
    OBVIOUS
  <2> USE DEF NoPolls, ReportInv
  <2>1. ASSUME NEW w \in Workers, Attempt(w) PROVE NoPolls'
    <3>1. \A outcome, n : AfterAttempt(outcome, n) # "poll"
      BY DEF AfterAttempt
    <3> QED BY <2>1, <3>1 DEF Attempt
  <2>2. ASSUME NEW w \in Workers, Poll(w) PROVE FALSE
    BY <2>2 DEF Poll
  <2> QED BY <2>1, <2>2
          DEF Next, Process, Environment, Allow, Wait, Backoff, PollTimeout,
              RecordSuccess, RecordFailure, Write, vars
<1> QED BY <1>1, <1>2, ReportInvariant, PTL DEF Spec

\* Then the workers use the breaker as if every call reported: the poll timeout
\* is the only way out without a report.
LEMMA UsesReporting == Spec /\ ~IsScra => Reporting!Spec
<1>1. Init => Reporting!Init
  BY DEF Init, Breaker!Init, Reporting!Init, Breaker!NewCircuitBreaker, Reporting!NewCircuitBreaker
<1>2. NoPolls /\ [Next]_vars => [Reporting!Next]_(Reporting!vars)
  <2> SUFFICES ASSUME NoPolls, [Next]_vars PROVE Reporting!Next \/ UNCHANGED Reporting!vars
    OBVIOUS
  <2> USE DEF circuit, Reporting!vars
  <2>1. CASE UNCHANGED circuit
    BY <2>1
  <2>2. ASSUME NEW w \in Workers, Breaker!Enter(w) PROVE Reporting!Enter(w)
    BY <2>2 DEF Breaker!Enter, Reporting!Enter, Breaker!Allows, Reporting!Allows,
                Breaker!AfterAllow, Reporting!AfterAllow,
                Breaker!CooledDown, Reporting!CooledDown
  <2>3. ASSUME NEW w \in Workers, Breaker!ReturnSuccess(w) PROVE Reporting!ReturnSuccess(w)
    BY <2>3 DEF Breaker!ReturnSuccess, Reporting!ReturnSuccess,
                Breaker!AfterRecordSuccess, Reporting!AfterRecordSuccess
  <2>4. ASSUME NEW w \in Workers, Breaker!ReturnFailure(w) PROVE Reporting!ReturnFailure(w)
    BY <2>4 DEF Breaker!ReturnFailure, Reporting!ReturnFailure, Breaker!AfterRecordFailure,
                Reporting!AfterRecordFailure, Breaker!Trips, Reporting!Trips
  <2>5. ASSUME NEW w \in Workers, PollTimeout(w) PROVE FALSE
    BY <2>5 DEF PollTimeout, NoPolls
  <2>6. ASSUME Breaker!Health PROVE Reporting!Health
    BY <2>6 DEF Breaker!Health, Reporting!Health, Breaker!AfterState, Reporting!AfterState,
                Breaker!CooledDown, Reporting!CooledDown
  <2>7. ASSUME Breaker!Elapse PROVE Reporting!Elapse
    BY <2>7 DEF Breaker!Elapse, Reporting!Elapse, Breaker!AfterCooldown, Reporting!AfterCooldown
  <2> QED BY <2>1, <2>2, <2>3, <2>4, <2>5, <2>6, <2>7
          DEF Next, Process, Environment, Allow, Wait, Attempt, Backoff, Poll,
              RecordSuccess, RecordFailure, Write, vars, Reporting!Next, Reporting!Return
<1> QED BY <1>1, <1>2, NeverPolls, PTL DEF Spec, Reporting!Spec

\* If nobody polls the health endpoint, a half-open breaker of property or
\* court records has its probe in the pipeline (circuitbreaker.go:52-62).
THEOREM ProbeNeverLost == ASSUME ~HealthPolled PROVE Spec => []ReportedProbeInPipeline
<1>1. Reporting!Spec => []Reporting!HalfOpenHasProbe
  <2>1. "none" \notin {"success", "failure"}
    OBVIOUS
  <2> QED BY <2>1, Reporting!ProbePresent, BreakerAssumption DEF Reporting!MaxFailuresAssumption
<1>2. Reporting!HalfOpenHasProbe => ReportedProbeInPipeline
  BY DEF Reporting!HalfOpenHasProbe, ReportedProbeInPipeline, ProbeInPipeline,
         Breaker!HalfOpenHasProbe
<1>3. IsScra /\ [Next]_vars => IsScra'
  BY DEF IsScra, Next, Process, Environment, Allow, Wait, Attempt, Backoff, Poll, PollTimeout,
         RecordSuccess, RecordFailure, Write, vars
<1>4. IsScra => ReportedProbeInPipeline
  BY DEF IsScra, ReportedProbeInPipeline
<1> QED BY <1>1, <1>2, <1>3, <1>4, UsesReporting, PTL DEF Spec

-----------------------------------------------------------------------------

\* What the types need beside the protocol's and ReportInv: no loop sends more
\* than its requests (retry.go:39, process_scra.go:72).
CountInv ==
    /\ kind \in Kinds
    /\ attempts \in [Workers -> 0..JobCalls]
    /\ openCalls \in Nat

LEMMA CountInvariant == Spec => []CountInv
<1> USE LimitsAssumption DEF CountInv, JobCalls, Send
<1>1. Init => CountInv
  BY DEF Init
<1>2. CountInv /\ [Next]_vars => CountInv'
  <2> SUFFICES ASSUME CountInv, [Next]_vars PROVE CountInv'
    OBVIOUS
  <2>1. ASSUME NEW w \in Workers, Allow(w) PROVE CountInv'
    BY <2>1 DEF Allow
  <2>2. ASSUME NEW w \in Workers, Attempt(w) PROVE CountInv'
    BY <2>2 DEF Attempt
  <2>3. ASSUME NEW w \in Workers, Poll(w) PROVE CountInv'
    BY <2>3 DEF Poll
  <2>4. ASSUME NEW w \in Workers, RecordFailure(w) PROVE CountInv'
    BY <2>4 DEF RecordFailure
  <2>5. CASE UNCHANGED <<kind, attempts, openCalls>>
    BY <2>5
  <2> QED BY <2>1, <2>2, <2>3, <2>4, <2>5
          DEF Next, Process, Environment, Wait, Backoff, PollTimeout, RecordSuccess,
              Write, vars
<1> QED BY <1>1, <1>2, PTL DEF Spec

\* The types, of which the bound on attempts is more than a type: a worker
\* sends at most MaxAttempts requests, and MaxPolls polls
\* (retry.go:39, process_scra.go:68-90).
THEOREM FetchTypes == Spec => []TypeOK
<1>1. Protocol!Spec => []Protocol!TypeOK
  BY Protocol!TypeAndThreshold, BreakerAssumption, PTL DEF Protocol!MaxFailuresAssumption
<1>2. Protocol!TypeOK /\ ReportInv /\ CountInv => TypeOK
  BY DEF Protocol!TypeOK, Breaker!TypeOK, Protocol!Breaker, Breaker!Breaker,
         Protocol!CBState, Breaker!CBState, ReportInv, CountInv, TypeOK
<1> QED BY <1>1, <1>2, UsesProtocol, ReportInvariant, CountInvariant, PTL

-----------------------------------------------------------------------------

\* The requests that the workers which were let through may still send: of each
\* of them, the numbers after its last.
Remaining == {x \in Workers \X (1..JobCalls) :
                 pc[x[1]] \in InFlight /\ attempts[x[1]] < x[2]}

LoadCap == (Cardinality(Workers) - 1) * JobCalls

\* OpenLoadBounded is not inductive: what an open circuit has seen must leave
\* room for what is still to come.
LoadInv ==
    /\ openCalls <= LoadCap
    /\ breaker.state = "open" => openCalls + Cardinality(Remaining) <= LoadCap

\* All workers but one can send so many requests.
LEMMA OthersLoad ==
    ASSUME CountInv, NEW w \in Workers
    PROVE  LET others == (Workers \ {w}) \X (1..JobCalls)
           IN  IsFiniteSet(others) /\ Cardinality(others) = LoadCap /\ LoadCap \in Nat
<1>1. JobCalls \in Nat
  BY LimitsAssumption DEF JobCalls
<1>2. IsFiniteSet(1..JobCalls) /\ Cardinality(1..JobCalls) = JobCalls
  BY <1>1, FS_Interval
<1>3. IsFiniteSet(Workers \ {w}) /\ Cardinality(Workers \ {w}) = Cardinality(Workers) - 1
  BY WorkersAssumption, FS_RemoveElement
<1>4. Cardinality(Workers \ {w}) \in Nat
  BY <1>3, FS_CardinalityType
<1>5. LoadCap \in Nat
  BY <1>1, <1>3, <1>4 DEF LoadCap
<1> QED BY <1>2, <1>3, <1>5, FS_Product DEF LoadCap

LEMMA RemainingFinite ==
    ASSUME CountInv
    PROVE  IsFiniteSet(Remaining) /\ Cardinality(Remaining) \in Nat
<1>1. IsFiniteSet(Workers \X (1..JobCalls))
  <2>1. IsFiniteSet(1..JobCalls)
    BY LimitsAssumption, FS_Interval DEF JobCalls
  <2> QED BY <2>1, WorkersAssumption, FS_Product
<1> QED BY <1>1, FS_Subset, FS_CardinalityType DEF Remaining

\* A step after which an open circuit was open before, has seen as much, and
\* leaves no more to come, keeps the bound.
LEMMA LoadShrinks ==
    ASSUME CountInv, LoadInv, UNCHANGED <<kind, openCalls>>,
           breaker'.state = "open" => breaker.state = "open" /\ Remaining' \subseteq Remaining
    PROVE  LoadInv'
<1>1. LoadCap' = LoadCap
  BY DEF LoadCap, JobCalls
<1>2. CASE breaker'.state # "open"
  BY <1>1, <1>2 DEF LoadInv
<1>3. CASE breaker'.state = "open"
  <2>1. IsFiniteSet(Remaining') /\ Cardinality(Remaining') <= Cardinality(Remaining)
    BY <1>3, RemainingFinite, FS_Subset
  <2>2. Cardinality(Remaining') \in Nat /\ Cardinality(Remaining) \in Nat /\ LoadCap \in Nat
    BY <2>1, RemainingFinite, FS_CardinalityType, WorkersAssumption, OthersLoad
  <2> QED BY <1>1, <1>3, <2>1, <2>2 DEF LoadInv, CountInv
<1> QED BY <1>2, <1>3

\* A request that goes out is one of those that remained.
LEMMA LoadSend ==
    ASSUME TypeOK, LoadInv, CountInv, NEW w \in Workers,
           pc[w] \in InFlight, attempts[w] < JobCalls, Send(w),
           \E p : pc' = [pc EXCEPT ![w] = p], UNCHANGED <<kind, breaker>>
    PROVE  LoadInv'
<1> DEFINE sent == <<w, attempts[w] + 1>>
<1>1. LoadCap' = LoadCap /\ JobCalls' = JobCalls /\ LoadCap \in Nat
  BY WorkersAssumption, OthersLoad DEF LoadCap, JobCalls
<1>2. CASE breaker.state # "open"
  BY <1>1, <1>2 DEF LoadInv, Send
<1>3. CASE breaker.state = "open"
  <2>1. sent \in Remaining
    BY LimitsAssumption DEF Remaining, CountInv, JobCalls
  <2>2. Remaining' \subseteq Remaining \ {sent}
    BY <1>1 DEF Remaining, Send, TypeOK, JobCalls
  <2>3. /\ IsFiniteSet(Remaining \ {sent})
        /\ Cardinality(Remaining \ {sent}) = Cardinality(Remaining) - 1
    BY <2>1, RemainingFinite, FS_RemoveElement
  <2>4. IsFiniteSet(Remaining') /\ Cardinality(Remaining') <= Cardinality(Remaining) - 1
    BY <2>2, <2>3, FS_Subset
  <2>5. Cardinality(Remaining') \in Nat /\ Cardinality(Remaining) \in Nat
    BY <2>4, RemainingFinite, FS_CardinalityType
  <2> QED BY <1>1, <1>3, <2>4, <2>5 DEF LoadInv, Send, CountInv
<1> QED BY <1>2, <1>3

\* The failure that opens the circuit is the last word of its worker, so the
\* others' requests are all that may follow.
LEMMA LoadFailure ==
    ASSUME TypeOK, LoadInv, CountInv, NEW w \in Workers, RecordFailure(w)
    PROVE  LoadInv'
<1>1. CASE Breaker!Trips(breaker)
  <2> DEFINE others == (Workers \ {w}) \X (1..JobCalls)
  <2>1. openCalls' = 0 /\ JobCalls' = JobCalls /\ LoadCap' = LoadCap
    BY <1>1 DEF RecordFailure, JobCalls, LoadCap
  <2>2. Remaining' \subseteq others
    BY <2>1 DEF Remaining, RecordFailure, InFlight, TypeOK
  <2>3. IsFiniteSet(others) /\ Cardinality(others) = LoadCap /\ LoadCap \in Nat
    BY OthersLoad
  <2>4. IsFiniteSet(Remaining') /\ Cardinality(Remaining') <= LoadCap
    BY <2>2, <2>3, FS_Subset
  <2>5. Cardinality(Remaining') \in Nat
    BY <2>4, FS_CardinalityType
  <2> QED BY <2>1, <2>3, <2>4, <2>5 DEF LoadInv
<1>2. CASE ~Breaker!Trips(breaker)
  <2>1. UNCHANGED <<kind, openCalls>> /\ breaker'.state = breaker.state
    BY <1>2 DEF RecordFailure, Breaker!ReturnFailure, Breaker!AfterRecordFailure
  <2>2. Remaining' \subseteq Remaining
    BY DEF Remaining, RecordFailure, JobCalls, InFlight, TypeOK
  <2> QED BY <2>1, <2>2, LoadShrinks
<1> QED BY <1>1, <1>2

\* "stopping calls to a service that has repeatedly failed"
\* (circuitbreaker.go:17-18): after the circuit has opened the service gets at
\* most the requests that the other workers had still to send.
THEOREM OpenLoad == Spec => []OpenLoadBounded
<1>1. Init => LoadInv
  <2> SUFFICES ASSUME Init PROVE LoadInv
    OBVIOUS
  <2>1. CountInv
    BY LimitsAssumption DEF Init, CountInv, JobCalls
  <2>2. LoadCap \in Nat
    BY <2>1, WorkersAssumption, OthersLoad
  <2> QED BY <2>2 DEF Init, Breaker!Init, Breaker!NewCircuitBreaker, LoadInv
<1>2. TypeOK /\ CountInv /\ LoadInv /\ [Next]_vars => LoadInv'
  <2> SUFFICES ASSUME TypeOK, CountInv, LoadInv, [Next]_vars PROVE LoadInv'
    OBVIOUS
  <2> USE DEF circuit
  <2>1. ASSUME NEW w \in Workers, Allow(w) PROVE LoadInv'
    <3>1. CASE breaker'.state = "open"
      <4>1. ~Breaker!Enter(w)
        BY <3>1 DEF TypeOK, Breaker!TypeOK, Breaker!Breaker, Breaker!Enter, Breaker!Allows,
                    Breaker!AfterAllow, Breaker!CooledDown
      <4>2. breaker' = breaker /\ pc' = [pc EXCEPT ![w] = "write"]
        BY <2>1, <4>1 DEF Allow
      <4>3. Remaining' \subseteq Remaining
        BY <2>1, <4>2 DEF Allow, Remaining, JobCalls, InFlight, TypeOK
      <4> QED BY <2>1, <4>2, <4>3, LoadShrinks DEF Allow
    <3>2. CASE breaker'.state # "open"
      BY <2>1, <3>2, LoadShrinks DEF Allow
    <3> QED BY <3>1, <3>2
  <2>2. ASSUME NEW w \in Workers, Wait(w) \/ Backoff(w) PROVE LoadInv'
    <3>1. Remaining' \subseteq Remaining
      BY <2>2 DEF Wait, Backoff, Remaining, JobCalls, InFlight, TypeOK
    <3> QED BY <2>2, <3>1, LoadShrinks DEF Wait, Backoff
  <2>3. ASSUME NEW w \in Workers, Attempt(w) PROVE LoadInv'
    <3>1. attempts[w] < JobCalls
      BY <2>3, LimitsAssumption DEF Attempt, JobCalls, TypeOK
    <3> QED BY <2>3, <3>1, LoadSend DEF Attempt, InFlight
  <2>4. ASSUME NEW w \in Workers, Poll(w) PROVE LoadInv'
    BY <2>4, LoadSend DEF Poll, InFlight
  <2>5. ASSUME NEW w \in Workers, PollTimeout(w) \/ Write(w) PROVE LoadInv'
    <3>1. Remaining' \subseteq Remaining
      BY <2>5 DEF PollTimeout, Write, Remaining, JobCalls, InFlight, TypeOK
    <3> QED BY <2>5, <3>1, LoadShrinks DEF PollTimeout, Write, Breaker!ReturnSilently
  <2>6. ASSUME NEW w \in Workers, RecordSuccess(w) PROVE LoadInv'
    <3>1. breaker'.state = "closed"
      BY <2>6 DEF RecordSuccess, Breaker!ReturnSuccess, Breaker!AfterRecordSuccess
    <3> QED BY <2>6, <3>1, LoadShrinks DEF RecordSuccess
  <2>7. ASSUME NEW w \in Workers, RecordFailure(w) PROVE LoadInv'
    BY <2>7, LoadFailure
  <2>8. CASE Environment
    <3>1. Remaining' = Remaining
      BY <2>8 DEF Environment, Remaining, JobCalls
    <3>2. breaker'.state = "open" => breaker.state = "open"
      BY <2>8 DEF Environment, Breaker!Health, Breaker!AfterState, Breaker!Elapse,
                  TypeOK, Breaker!TypeOK, Breaker!Breaker
    <3> QED BY <2>8, <3>1, <3>2, LoadShrinks DEF Environment
  <2>9. CASE UNCHANGED vars
    BY <2>9, LoadShrinks DEF vars, Remaining, JobCalls
  <2> QED BY <2>1, <2>2, <2>3, <2>4, <2>5, <2>6, <2>7, <2>8, <2>9 DEF Next, Process
<1>3. LoadInv => OpenLoadBounded
  BY DEF LoadInv, LoadCap, OpenLoadBounded
<1> QED BY <1>1, <1>2, <1>3, FetchTypes, CountInvariant, PTL DEF Spec

-----------------------------------------------------------------------------
(* What Lookup takes for granted of the workers it abstracts from.         *)

\* Lookup abstracts a worker to its calls and its verdict (Call and Outcomes
\* there), and lets none succeed that has not made a call.
SuccessHasCall == \A w \in Workers : pc[w] = "succeeded" => attempts[w] > 0

\* A worker succeeds only with an answer it has asked for in this fetch, never
\* with what is left of an earlier one (process_property.go:20-51,
\* process_court.go:20-64, process_scra.go:20-116).
THEOREM SuccessNeedsCall == Spec => []SuccessHasCall
<1>1. Init => SuccessHasCall
  BY DEF Init, SuccessHasCall
<1>2. SuccessHasCall /\ ReportInv /\ CountInv /\ [Next]_vars => SuccessHasCall'
  <2> SUFFICES ASSUME SuccessHasCall, ReportInv, CountInv, [Next]_vars
               PROVE  SuccessHasCall'
    OBVIOUS
  <2> USE LimitsAssumption DEF SuccessHasCall, ReportInv, CountInv, JobCalls
  <2>1. ASSUME NEW w \in Workers, Attempt(w) \/ Poll(w) PROVE SuccessHasCall'
    <3>1. attempts' = [attempts EXCEPT ![w] = attempts[w] + 1]
      BY <2>1 DEF Attempt, Poll, Send
    <3>2. \A x \in Workers : x # w => pc'[x] = pc[x]
      BY <2>1 DEF Attempt, Poll
    <3> QED BY <3>1, <3>2
  <2>2. ASSUME NEW w \in Workers, Allow(w) PROVE SuccessHasCall'
    BY <2>2 DEF Allow
  <2>3. ASSUME NEW w \in Workers,
               Wait(w) \/ Backoff(w) \/ PollTimeout(w) \/ RecordSuccess(w)
                 \/ RecordFailure(w) \/ Write(w)
        PROVE  SuccessHasCall'
    BY <2>3 DEF Wait, Backoff, PollTimeout, RecordSuccess, RecordFailure, Write
  <2>4. CASE Environment \/ UNCHANGED vars
    BY <2>4 DEF Environment, vars
  <2> QED BY <2>1, <2>2, <2>3, <2>4 DEF Next, Process
<1> QED BY <1>1, <1>2, ReportInvariant, CountInvariant, PTL DEF Spec

\* Every request is that of a call which the breaker has let through and of
\* which it has not heard yet (circuitbreaker.go:45-72).
CallsAreAdmitted ==
    [][\A w \in Workers : attempts'[w] > attempts[w] => call[w] # "idle"]_vars

\* No worker sends a request that its breaker did not admit: none after a
\* refusal, and none, in a retry or a poll, after its report.
THEOREM NoCallUnadmitted == Spec => CallsAreAdmitted
<1>1. ReportInv /\ CountInv /\ [Next]_vars
      => [\A w \in Workers : attempts'[w] > attempts[w] => call[w] # "idle"]_vars
  <2> SUFFICES ASSUME ReportInv, CountInv, Next, NEW w \in Workers, attempts'[w] > attempts[w]
               PROVE  call[w] # "idle"
    OBVIOUS
  <2> USE LimitsAssumption DEF ReportInv, ReportedOnce, InFlight, CountInv, JobCalls
  <2>1. ASSUME NEW x \in Workers, Attempt(x) \/ Poll(x) PROVE call[w] # "idle"
    BY <2>1 DEF Attempt, Poll, Send
  <2>2. ASSUME NEW x \in Workers, Allow(x) PROVE FALSE
    BY <2>2 DEF Allow
  <2>3. ASSUME UNCHANGED attempts PROVE FALSE
    BY <2>3
  <2> QED BY <2>1, <2>2, <2>3
          DEF Next, Process, Environment, Wait, Backoff, PollTimeout, RecordSuccess,
              RecordFailure, Write
<1> QED BY <1>1, ReportInvariant, CountInvariant, PTL DEF Spec, CallsAreAdmitted
=============================================================================
