---------------------------- MODULE LookupProofs ----------------------------
(***************************************************************************)
(* Theorems about Lookup, for every set of sources and of requests and     *)
(* every bound.  A theorem that needs handlers to be served one at a time, *)
(* or a database or a process that does not fail, assumes so.              *)
(***************************************************************************)
EXTENDS Lookup, TLAPS

-----------------------------------------------------------------------------
(* Types. *)

\* computeOverallStatus answers one of the three verdicts.
LEMMA OverallType == ASSUME NEW S PROVE ComputeOverallStatus(S) \in Verdicts
BY DEF ComputeOverallStatus, Verdicts

\* A query returns some of the rows it selects.
LEMMA SelectSubset ==
    ASSUME NEW S, NEW T \in Select(S) PROVE T \subseteq S
BY DEF Select

\* A source's outcome is a status.
LEMMA OutcomeType ==
    ASSUME NEW r, NEW s, NEW v \in Outcomes(r, s)
    PROVE  v \in {"success", "failed", "not_applicable"}
BY DEF Outcomes

\* Every variable keeps its type.
THEOREM TypeCorrect == Spec => []TypeOK
<1>1. Init => TypeOK
  BY BoundsAssumption DEF Init, TypeOK, SourceStatus
<1>2. TypeOK /\ [Next]_vars => TypeOK'
  <2> SUFFICES ASSUME TypeOK, [Next]_vars PROVE TypeOK'
    OBVIOUS
  <2> USE DEF TypeOK, db, handlers, lookups
  <2>1. ASSUME NEW r \in Requests, GetLookupRun(r) PROVE TypeOK'
    <3>1. NextStep(run) \in {"create", "200", "retryable"}
      BY DEF NextStep, Verdicts
    <3>2. PICK next \in {"create", "200", "retryable", "error"} :
             pc' = [pc EXCEPT ![r] = next]
      BY <2>1, <3>1 DEF GetLookupRun
    <3> QED BY <2>1, <3>2 DEF GetLookupRun, Handling, Answers
  <2>2. ASSUME NEW r \in Requests, GetRetryableSources(r) PROVE TypeOK'
    BY <2>2, SelectSubset DEF GetRetryableSources, Retryable, Handling, Answers
  <2>3. ASSUME NEW r \in Requests, MarkComplete(r) PROVE TypeOK'
    BY <2>3 DEF MarkComplete, Dropped, Verdicts, Answers
  <2>4. ASSUME NEW r \in Requests, ResetSource(r) PROVE TypeOK'
    <3>1. PICK s \in Sources :
             /\ status' \in {status, [status EXCEPT ![s] = "pending"]}
             /\ ids' \in {ids, [ids EXCEPT ![r] = ids[r] \ {s}]}
             /\ \E p \in {"resetRun", "reset", "error"} : pc' = [pc EXCEPT ![r] = p]
      BY <2>4 DEF ResetSource
    <3>2. status' \in [Sources -> SourceStatus]
      BY <3>1 DEF SourceStatus
    <3>3. ids' \in [Requests -> SUBSET Sources]
      BY <3>1
    <3>4. pc' \in [Requests -> {"idle"} \cup Handling \cup Answers]
      BY <3>1 DEF Handling, Answers
    <3> QED BY <2>4, <3>2, <3>3, <3>4 DEF ResetSource
  <2>5. ASSUME NEW r \in Requests, ResetRunToPending(r) PROVE TypeOK'
    BY <2>5 DEF ResetRunToPending, Handling, Answers
  <2>6. ASSUME NEW r \in Requests, CreateLookupRun(r) PROVE TypeOK'
    BY <2>6 DEF CreateLookupRun, Handling, Answers
  <2>7. ASSUME NEW r \in Requests, Launch(r) PROVE TypeOK'
    BY <2>7 DEF Launch, Answers
  <2>8. ASSUME NEW r \in Requests, LoadSources(r) PROVE TypeOK'
    <3>1. CASE UNCHANGED <<busy, base, made>>
      BY <2>8, <3>1 DEF LoadSources
    <3>2. ASSUME NEW S \in Select(Sources),
                 look' = [look EXCEPT ![r] = "fetch"],
                 busy' = [busy EXCEPT ![r] = {s \in S : NeedsWork(s)}],
                 base' = [base EXCEPT ![r] = attempts],
                 made' = [made EXCEPT ![r] = [s \in Sources |-> 0]]
          PROVE  TypeOK'
      <4>1. busy' \in [Requests -> SUBSET Sources]
        BY <3>2, SelectSubset
      <4>2. look' \in [Requests -> {"off", "load", "fetch"} \cup Verdicts]
        BY <3>2
      <4>3. base' \in [Requests -> [Sources -> Nat]]
        BY <3>2
      <4>4. made' \in [Requests -> [Sources -> Nat]]
        BY <3>2
      <4> QED BY <2>8, <4>1, <4>2, <4>3, <4>4 DEF LoadSources
    <3> QED BY <2>8, <3>1, <3>2 DEF LoadSources
  <2>9. ASSUME NEW r \in Requests, NEW s \in Sources, Call(r, s) PROVE TypeOK'
    <3>1. made' \in [Requests -> [Sources -> Nat]]
      BY <2>9 DEF Call
    <3>2. calls' \in [Sources -> Nat]
      BY <2>9 DEF Call
    <3> QED BY <2>9, <3>1, <3>2 DEF Call
  <2>10. ASSUME NEW r \in Requests, NEW s \in Sources, SetSourceResult(r, s)
         PROVE  TypeOK'
    <3>1. RecordedAttempts(r, s) \in Nat
      BY DEF RecordedAttempts
    <3>2. status' \in [Sources -> SourceStatus]
      BY <2>10, OutcomeType DEF SetSourceResult, SourceStatus
    <3>3. attempts' \in [Sources -> Nat]
      BY <2>10, <3>1 DEF SetSourceResult
    <3>4. busy' \in [Requests -> SUBSET Sources]
      BY <2>10 DEF SetSourceResult
    <3> QED BY <2>10, <3>2, <3>3, <3>4 DEF SetSourceResult
  <2>11. ASSUME NEW r \in Requests, ReadBack(r) PROVE TypeOK'
    BY <2>11, OverallType DEF ReadBack
  <2>12. ASSUME NEW r \in Requests, CompleteRun(r) PROVE TypeOK'
    BY <2>12 DEF CompleteRun, Dropped
  <2>13. CASE Crash
    BY <2>13 DEF Crash, Answers
  <2>14. CASE UNCHANGED vars
    BY <2>14 DEF vars
  <2> QED BY <2>1, <2>2, <2>3, <2>4, <2>5, <2>6, <2>7, <2>8, <2>9, <2>10,
             <2>11, <2>12, <2>13, <2>14 DEF Next, Handle, Work
<1> QED BY <1>1, <1>2, PTL DEF Spec

-----------------------------------------------------------------------------
(* Attempts, with everything allowed. *)

\* Inductive strengthening: what a worker will record has been made as well.
AttemptsInv ==
    \A s \in Sources :
        /\ attempts[s] <= calls[s]
        /\ \A r \in Requests : s \in busy[r] => base[r][s] + made[r][s] <= calls[s]

\* Overlapping triggers, failing statements and crashes may lose attempts but
\* never invent one: a row's count is at most the calls made.
THEOREM NeverOvercount == Spec => []AttemptsNeverOvercount
<1>1. Init => AttemptsInv
  <2> SUFFICES ASSUME Init, NEW s \in Sources
               PROVE  /\ attempts[s] <= calls[s]
                      /\ \A r \in Requests : s \notin busy[r]
    BY DEF AttemptsInv
  <2> QED BY DEF Init
<1>2. TypeOK /\ AttemptsInv /\ [Next]_vars => AttemptsInv'
  <2> SUFFICES ASSUME TypeOK, AttemptsInv, [Next]_vars PROVE AttemptsInv'
    OBVIOUS
  <2> USE DEF AttemptsInv, TypeOK
  <2>1. ASSUME NEW r \in Requests, LoadSources(r) PROVE AttemptsInv'
    <3>1. UNCHANGED <<attempts, calls>>
      BY <2>1 DEF LoadSources, db
    <3>2. \A q \in Requests : q # r =>
             busy'[q] = busy[q] /\ base'[q] = base[q] /\ made'[q] = made[q]
      BY <2>1 DEF LoadSources
    <3>3. \/ UNCHANGED <<busy, base, made>>
          \/ base'[r] = attempts /\ \A s \in Sources : made'[r][s] = 0
      BY <2>1 DEF LoadSources
    <3>4. ASSUME NEW s \in Sources, s \in busy'[r]
          PROVE  base'[r][s] + made'[r][s] <= calls[s]
      <4>1. attempts[s] \in Nat
        OBVIOUS
      <4> QED BY <3>3, <3>4, <4>1
    <3> QED BY <3>1, <3>2, <3>4
  <2>2. ASSUME NEW r \in Requests, NEW s \in Sources, Call(r, s)
        PROVE  AttemptsInv'
    <3>1. \A t \in Sources : calls'[t] = IF t = s THEN calls[t] + 1 ELSE calls[t]
      BY <2>2 DEF Call
    <3>2. \A q \in Requests, t \in Sources :
             made'[q][t] = IF q = r /\ t = s THEN made[q][t] + 1 ELSE made[q][t]
      BY <2>2 DEF Call
    <3>3. UNCHANGED <<attempts, busy, base>>
      BY <2>2 DEF Call, db
    <3>4. \A q \in Requests, t \in Sources : base[q][t] + made[q][t] \in Nat
      OBVIOUS
    <3>5. ASSUME NEW t \in Sources PROVE attempts'[t] <= calls'[t]
      BY <3>1, <3>3
    <3>6. ASSUME NEW t \in Sources, NEW q \in Requests, t \in busy'[q]
          PROVE  base'[q][t] + made'[q][t] <= calls'[t]
      <4>1. base[q][t] + made[q][t] <= calls[t]
        BY <3>3, <3>6
      <4>2. base[q][t] \in Nat /\ made[q][t] \in Nat /\ calls[t] \in Nat
        OBVIOUS
      <4>3. base'[q][t] = base[q][t]
        BY <3>3
      <4>4. CASE q = r /\ t = s
        <5>1. made'[q][t] = made[q][t] + 1 /\ calls'[t] = calls[t] + 1
          BY <3>1, <3>2, <4>4
        <5> QED BY ONLY <4>1, <4>2, <4>3, <5>1, SMT
      <4>5. CASE ~(q = r /\ t = s)
        <5>1. made'[q][t] = made[q][t]
          BY <3>2, <4>5
        <5>2. calls'[t] = calls[t] \/ calls'[t] = calls[t] + 1
          BY <3>1
        <5> QED BY ONLY <4>1, <4>2, <4>3, <5>1, <5>2, SMT
      <4> QED BY <4>4, <4>5
    <3> QED BY <3>5, <3>6
  <2>3. ASSUME NEW r \in Requests, NEW s \in Sources, SetSourceResult(r, s)
        PROVE  AttemptsInv'
    <3>1. \/ attempts' = [attempts EXCEPT ![s] = base[r][s] + made[r][s]]
          \/ attempts' = attempts
      BY <2>3 DEF SetSourceResult, RecordedAttempts
    <3>2. \A q \in Requests : busy'[q] \subseteq busy[q]
      BY <2>3 DEF SetSourceResult
    <3> QED BY <2>3, <3>1, <3>2 DEF SetSourceResult
  <2>4. CASE UNCHANGED <<attempts, busy, base, made, calls>>
    BY <2>4
  <2>5. CASE Crash
    BY <2>5 DEF Crash, db
  <2> QED BY <2>1, <2>2, <2>3, <2>4, <2>5
          DEF Next, Handle, Work, vars, db, handlers, lookups,
              GetLookupRun, GetRetryableSources, MarkComplete, ResetSource,
              ResetRunToPending, CreateLookupRun, Launch, ReadBack, CompleteRun
<1>3. AttemptsInv => AttemptsNeverOvercount
  BY DEF AttemptsInv, AttemptsNeverOvercount
<1> QED BY <1>1, <1>2, <1>3, TypeCorrect, PTL DEF Spec
-----------------------------------------------------------------------------
(* One handler at a time: the program's own rules then suffice to keep one   *)
(* lookup at a time, whatever the database and the process do.               *)

\* At most one handler is between two of its statements.
OneHandler == \A q, r \in Requests :
    pc[q] \in Handling /\ pc[r] \in Handling => q = r

\* What a handler has concluded from the run's status still holds.
HandlerFresh == \A r \in Requests :
    /\ pc[r] \in {"retryable", "mark", "reset", "resetRun"} => run \in {"partial", "failed"}
    /\ pc[r] = "create" => run = "none"
    /\ pc[r] = "launch" => run = "pending"
    /\ pc[r] = "reset" => ids[r] \subseteq Retryable

\* While a lookup runs the run is pending, so handlers keep out; what its
\* workers process is still to be done.
LookupFresh == \A q \in Requests :
    /\ look[q] # "off" => run = "pending" /\ \A r \in Requests : pc[r] \notin Handling
    /\ busy[q] # {} => look[q] = "fetch"
    /\ \A s \in busy[q] : NeedsWork(s)

SerialInv == OneHandler /\ HandlerFresh /\ LookupFresh /\ OneLookup

\* When a handler is at work nothing else is.
LEMMA HandlerAlone ==
    ASSUME SerialInv, NEW r \in Requests, pc[r] \in Handling
    PROVE  \A q \in Requests : /\ look[q] = "off" /\ busy[q] = {}
                               /\ q # r => pc[q] \notin Handling
BY DEF SerialInv, OneHandler, LookupFresh

\* When a lookup is at work nothing else is.
LEMMA LookupAlone ==
    ASSUME SerialInv, NEW r \in Requests, look[r] # "off"
    PROVE  /\ run = "pending"
           /\ \A q \in Requests : /\ pc[q] \notin Handling
                                  /\ q # r => look[q] = "off" /\ busy[q] = {}
BY DEF SerialInv, OneLookup, LookupFresh

\* It holds before the first trigger.
LEMMA SerialInit == Init => SerialInv
BY DEF Init, SerialInv, OneHandler, HandlerFresh, LookupFresh, OneLookup, Handling

\* The steps of a handler keep the serial invariant.
LEMMA SerialHandle ==
    ASSUME ~Overlap, TypeOK, SerialInv, NEW r \in Requests,
           GetLookupRun(r) \/ Handle(r)
    PROVE  SerialInv'
<1> DEFINE Quiet == \A q \in Requests : /\ look[q] = "off" /\ busy[q] = {}
                                        /\ q # r => pc[q] \notin Handling
<1> USE DEF TypeOK, db, handlers, lookups
<1>1. CASE GetLookupRun(r)
  <2>1. PICK next \in {NextStep(run), "error"} : pc' = [pc EXCEPT ![r] = next]
    BY <1>1 DEF GetLookupRun
  <2>2. /\ next = "create" => run = "none"
        /\ next = "retryable" => run \in {"partial", "failed"}
        /\ next \in {"create", "retryable", "200", "error"}
    BY <2>1 DEF NextStep, Verdicts
  <2>3. \A q \in Requests : pc[q] \notin Handling
    BY <1>1 DEF GetLookupRun
  <2>4. UNCHANGED <<run, status, ids, look, busy>>
    BY <1>1 DEF GetLookupRun
  <2>5. \A q \in Requests : pc'[q] = IF q = r THEN next ELSE pc[q]
    BY <2>1
  <2>6. next \in Handling => \A q \in Requests : look[q] = "off"
    BY <2>2 DEF SerialInv, LookupFresh, Handling
  <2>7. OneHandler'
    BY <2>3, <2>5 DEF OneHandler
  <2>8. HandlerFresh'
    BY <2>2, <2>3, <2>4, <2>5 DEF HandlerFresh, Handling
  <2>9. LookupFresh'
    BY <2>4, <2>5, <2>6 DEF SerialInv, LookupFresh, NeedsWork
  <2> QED BY <2>4, <2>7, <2>8, <2>9 DEF SerialInv, OneLookup
<1>2. ASSUME pc[r] \in Handling, Quiet,
             \A q \in Requests : q # r => pc'[q] = pc[q],
             UNCHANGED <<look, busy>>,
             /\ pc'[r] \in {"retryable", "mark", "reset", "resetRun"} =>
                     run' \in {"partial", "failed"}
             /\ pc'[r] = "create" => run' = "none"
             /\ pc'[r] = "launch" => run' = "pending"
             /\ pc'[r] = "reset" => ids'[r] \subseteq Retryable'
      PROVE  SerialInv'
  <2>1. OneHandler'
    BY <1>2 DEF OneHandler
  <2>2. HandlerFresh'
    BY <1>2 DEF HandlerFresh, Handling
  <2>3. LookupFresh'
    BY <1>2 DEF LookupFresh
  <2>4. OneLookup'
    BY <1>2 DEF OneLookup
  <2> QED BY <2>1, <2>2, <2>3, <2>4 DEF SerialInv
<1>3. ASSUME pc[r] \in Handling PROVE Quiet
  BY <1>3, HandlerAlone
<1>4. CASE GetRetryableSources(r)
  <2>1. pc[r] = "retryable" /\ run \in {"partial", "failed"}
    BY <1>4 DEF GetRetryableSources, SerialInv, HandlerFresh
  <2>2. pc'[r] \in {"mark", "reset", "error"} /\ (pc'[r] = "reset" => ids'[r] \subseteq Retryable)
    BY <1>4, SelectSubset DEF GetRetryableSources
  <2> QED BY <1>2, <1>3, <1>4, <2>1, <2>2 DEF GetRetryableSources, Handling, Retryable
<1>5. CASE MarkComplete(r)
  BY <1>2, <1>3, <1>5 DEF MarkComplete, Handling
<1>6. CASE ResetSource(r)
  <2>1. pc[r] = "reset" /\ run \in {"partial", "failed"} /\ ids[r] \subseteq Retryable
    BY <1>6 DEF ResetSource, SerialInv, HandlerFresh
  <2>2. pc'[r] \in {"reset", "resetRun", "error"} /\ ids'[r] \subseteq ids[r]
    BY <1>6 DEF ResetSource
  <2>3. \A s \in Sources : status'[s] \in {status[s], "pending"}
    BY <1>6 DEF ResetSource
  <2>4. ids'[r] \subseteq Retryable'
    BY <2>1, <2>2, <2>3 DEF Retryable
  <2> QED BY <1>2, <1>3, <1>6, <2>1, <2>2, <2>4 DEF ResetSource, Handling
<1>7. CASE ResetRunToPending(r)
  BY <1>2, <1>3, <1>7 DEF ResetRunToPending, Handling
<1>8. CASE CreateLookupRun(r)
  BY <1>2, <1>3, <1>8 DEF CreateLookupRun, Handling
<1>9. CASE Launch(r)
  <2>1. Quiet /\ run = "pending"
    BY <1>3, <1>9 DEF Launch, Handling, SerialInv, HandlerFresh
  <2>2. \A q \in Requests : pc'[q] \notin Handling
    BY <1>9, <2>1 DEF Launch, Handling
  <2>3. \A q \in Requests : look'[q] = IF q = r THEN "load" ELSE "off"
    BY <1>9, <2>1 DEF Launch
  <2>4. UNCHANGED <<run, busy>>
    BY <1>9 DEF Launch
  <2>5. OneHandler' /\ OneLookup'
    BY <2>2, <2>3 DEF OneHandler, OneLookup
  <2>6. HandlerFresh'
    BY <2>2 DEF HandlerFresh, Handling
  <2>7. LookupFresh'
    BY <2>1, <2>2, <2>3, <2>4 DEF LookupFresh
  <2> QED BY <2>5, <2>6, <2>7 DEF SerialInv
<1> QED BY <1>1, <1>4, <1>5, <1>6, <1>7, <1>8, <1>9 DEF Handle

\* The steps of a lookup and of its workers keep the serial invariant.
LEMMA SerialWork ==
    ASSUME TypeOK, SerialInv, NEW r \in Requests, Work(r)
    PROVE  SerialInv'
<1> USE DEF TypeOK, db, handlers, lookups
<1>1. look[r] # "off"
  BY DEF Work, LoadSources, ReadBack, CompleteRun, Call, SetSourceResult,
         AllEnded, Verdicts, SerialInv, LookupFresh
<1>2. /\ run = "pending"
      /\ \A q \in Requests : /\ pc[q] \notin Handling
                             /\ q # r => look[q] = "off" /\ busy[q] = {}
  BY <1>1, LookupAlone
<1>3. UNCHANGED <<pc, ids>>
  BY DEF Work, LoadSources, ReadBack, CompleteRun, Call, SetSourceResult
<1>4. \A q \in Requests : q # r => look'[q] = look[q] /\ busy'[q] = busy[q]
  BY DEF Work, LoadSources, ReadBack, CompleteRun, Call, SetSourceResult
<1>5. OneHandler' /\ HandlerFresh' /\ OneLookup'
  BY <1>2, <1>3, <1>4 DEF OneHandler, HandlerFresh, OneLookup, Handling
<1>6. LookupFresh'
  <2>1. /\ look'[r] # "off" => run' = "pending"
        /\ busy'[r] # {} => look'[r] = "fetch"
        /\ \A s \in busy'[r] : NeedsWork(s)'
    <3>1. CASE LoadSources(r)
      BY <1>2, <3>1 DEF LoadSources, SerialInv, LookupFresh, NeedsWork
    <3>2. CASE ReadBack(r)
      BY <1>2, <3>2 DEF ReadBack, AllEnded
    <3>3. CASE CompleteRun(r)
      <4>1. busy[r] = {}
        BY <3>3 DEF CompleteRun, SerialInv, LookupFresh, Verdicts
      <4> QED BY <3>3, <4>1 DEF CompleteRun
    <3>4. ASSUME NEW s \in Sources, Call(r, s)
          PROVE  /\ look'[r] # "off" => run' = "pending"
                 /\ busy'[r] # {} => look'[r] = "fetch"
                 /\ \A t \in busy'[r] : NeedsWork(t)'
      BY <1>2, <3>4 DEF Call, SerialInv, LookupFresh, NeedsWork
    <3>5. ASSUME NEW s \in Sources, SetSourceResult(r, s)
          PROVE  /\ look'[r] # "off" => run' = "pending"
                 /\ busy'[r] # {} => look'[r] = "fetch"
                 /\ \A t \in busy'[r] : NeedsWork(t)'
      <4>1. busy'[r] = busy[r] \ {s}
        BY <3>5 DEF SetSourceResult
      <4>2. \A t \in Sources : t # s => status'[t] = status[t]
        BY <3>5 DEF SetSourceResult
      <4>3. UNCHANGED <<run, look>>
        BY <3>5 DEF SetSourceResult
      <4> QED BY <1>2, <4>1, <4>2, <4>3 DEF SerialInv, LookupFresh, NeedsWork
    <3> QED BY <3>1, <3>2, <3>3, <3>4, <3>5 DEF Work
  <2> QED BY <1>2, <1>3, <1>4, <2>1 DEF LookupFresh
<1> QED BY <1>5, <1>6 DEF SerialInv

\* A crash ends handlers and lookups and touches no row.
LEMMA SerialCrash == ASSUME TypeOK, SerialInv, Crash PROVE SerialInv'
<1>1. \A r \in Requests : /\ pc'[r] \notin Handling
                         /\ look'[r] = "off" /\ busy'[r] = {}
  BY DEF Crash, Handling
<1> QED BY <1>1 DEF SerialInv, OneHandler, HandlerFresh, LookupFresh, OneLookup, Handling

\* If handlers of the case are served one at a time, they and the lookups
\* exclude each other: what a handler read before it acts is still so when it
\* acts (orchestrator.go:88-143), and a lookup's busy sources are unsettled.
THEOREM SerialInvariant == ASSUME ~Overlap PROVE Spec => []SerialInv
<1>1. TypeOK /\ SerialInv /\ [Next]_vars => SerialInv'
  <2> SUFFICES ASSUME TypeOK, SerialInv, [Next]_vars PROVE SerialInv'
    OBVIOUS
  <2>1. CASE UNCHANGED vars
    BY <2>1 DEF vars, db, handlers, lookups, SerialInv, OneHandler, HandlerFresh,
                LookupFresh, OneLookup, Retryable, NeedsWork
  <2> QED BY <2>1, SerialHandle, SerialWork, SerialCrash DEF Next
<1> QED BY <1>1, SerialInit, TypeCorrect, PTL DEF Spec

\* If handlers of the case are served one at a time, at most one lookup of it
\* is in progress (orchestrator.go:74), even when statements fail and the
\* process crashes.
THEOREM AtMostOneLookup == ASSUME ~Overlap PROVE Spec => []OneLookup
<1>1. SerialInv => OneLookup
  BY DEF SerialInv
<1> QED BY <1>1, SerialInvariant, PTL

\* What has been found is kept.
Kept ==
    /\ run = "complete" => run' = "complete"
    /\ \A s \in Sources : status[s] = "success" => status'[s] = "success"

\* No step undoes a success or a completion: a handler resets and a worker
\* writes only what it has rightly taken for unsettled.
LEMMA StepKeeps == ASSUME TypeOK, SerialInv, [Next]_vars PROVE Kept
<1> USE DEF Kept, TypeOK
<1>1. ASSUME NEW r \in Requests, MarkComplete(r) PROVE Kept
  BY <1>1 DEF MarkComplete, Dropped
<1>2. ASSUME NEW r \in Requests, ResetSource(r) PROVE Kept
  <2>1. ids[r] \subseteq Retryable
    BY <1>2 DEF ResetSource, SerialInv, HandlerFresh
  <2>2. PICK s \in ids[r] : status' \in {status, [status EXCEPT ![s] = "pending"]}
    BY <1>2 DEF ResetSource
  <2> QED BY <1>2, <2>1, <2>2 DEF ResetSource, Retryable
<1>3. ASSUME NEW r \in Requests, ResetRunToPending(r) PROVE Kept
  BY <1>3 DEF ResetRunToPending, SerialInv, HandlerFresh
<1>4. ASSUME NEW r \in Requests, CreateLookupRun(r) PROVE Kept
  BY <1>4 DEF CreateLookupRun
<1>5. ASSUME NEW r \in Requests, NEW s \in Sources, SetSourceResult(r, s)
      PROVE  Kept
  <2>1. status[s] # "success"
    BY <1>5 DEF SetSourceResult, SerialInv, LookupFresh, NeedsWork
  <2> QED BY <1>5, <2>1 DEF SetSourceResult
<1>6. ASSUME NEW r \in Requests, CompleteRun(r) PROVE Kept
  BY <1>6, LookupAlone DEF CompleteRun, Verdicts
<1>7. CASE UNCHANGED <<run, status>>
  BY <1>7
<1> QED BY <1>1, <1>2, <1>3, <1>4, <1>5, <1>6, <1>7
        DEF Next, Handle, Work, db, GetLookupRun, GetRetryableSources,
            Launch, LoadSources, Call, ReadBack, Crash, vars

\* Under the same assumption no success is undone and no completed case is
\* reopened, even when statements fail and the process crashes.
THEOREM SuccessStays == ASSUME ~Overlap PROVE Spec => SuccessIsFinal
<1>1. TypeOK /\ SerialInv /\ [Next]_vars => Kept
  BY StepKeeps
<1> QED BY <1>1, SerialInvariant, TypeCorrect, PTL DEF Spec, SuccessIsFinal, Kept

\* Under the same assumption a retry resets nothing but failed and pending
\* rows (APPROACH.md, orchestrator.go:111-127).  If handlers overlap it may.
THEOREM ResetsRetryable == ASSUME ~Overlap PROVE Spec => ResetsOnlyRetryable
<1> DEFINE Spared == \A s \in Sources : status[s] = "success" => status'[s] # "pending"
<1>1. TypeOK /\ SerialInv /\ [Next]_vars => Spared
  BY StepKeeps DEF Kept
<1> QED BY <1>1, SerialInvariant, TypeCorrect, PTL DEF Spec, ResetsOnlyRetryable

\* Under the same assumption a service is only called for a source that is
\* not settled yet (README.md: "retries only failed sources").
THEOREM NoNeedlessCall == ASSUME ~Overlap PROVE Spec => CallsOnlyUnresolved
<1> DEFINE Needed == \A s \in Sources :
                 calls'[s] # calls[s] => status[s] \notin {"success", "not_applicable"}
<1>1. TypeOK /\ SerialInv /\ [Next]_vars => [Needed]_vars
  <2> SUFFICES ASSUME TypeOK, SerialInv, Next PROVE Needed
    OBVIOUS
  <2>1. ASSUME NEW r \in Requests, NEW s \in Sources, Call(r, s) PROVE Needed
    <3>1. NeedsWork(s)
      BY <2>1 DEF Call, SerialInv, LookupFresh
    <3> QED BY <2>1, <3>1 DEF Call, TypeOK, NeedsWork
  <2>2. CASE UNCHANGED calls
    BY <2>2
  <2> QED BY <2>1, <2>2
          DEF Next, Handle, Work, GetLookupRun, GetRetryableSources, MarkComplete,
              ResetSource, ResetRunToPending, CreateLookupRun, Launch, LoadSources,
              SetSourceResult, ReadBack, CompleteRun, Crash
<1> QED BY <1>1, SerialInvariant, TypeCorrect, PTL DEF Spec, CallsOnlyUnresolved
-----------------------------------------------------------------------------
(* Pending runs. *)

\* With a database and a process that do not fail, a pending run always has a
\* lookup in progress or about to start (orchestrator.go:74), however many
\* triggers overlap.  A crash or a failing statement breaks it.
THEOREM PendingOwned ==
    ASSUME ~Faults, MaxCrashes = 0 PROVE Spec => []PendingHasOwner
<1>1. Init => PendingHasOwner
  BY DEF Init, PendingHasOwner
<1>2. TypeOK /\ PendingHasOwner /\ [Next]_vars => PendingHasOwner'
  <2> SUFFICES ASSUME TypeOK, PendingHasOwner, [Next]_vars PROVE PendingHasOwner'
    OBVIOUS
  <2> USE DEF PendingHasOwner, TypeOK, db, handlers, lookups
  <2>1. ASSUME NEW r \in Requests, GetLookupRun(r) PROVE PendingHasOwner'
    BY <2>1 DEF GetLookupRun
  <2>2. ASSUME NEW r \in Requests, GetRetryableSources(r) PROVE PendingHasOwner'
    BY <2>2 DEF GetRetryableSources
  <2>3. ASSUME NEW r \in Requests, MarkComplete(r) PROVE PendingHasOwner'
    BY <2>3 DEF MarkComplete, Dropped
  <2>4. ASSUME NEW r \in Requests, ResetSource(r) PROVE PendingHasOwner'
    BY <2>4 DEF ResetSource
  <2>5. ASSUME NEW r \in Requests, ResetRunToPending(r) PROVE PendingHasOwner'
    BY <2>5 DEF ResetRunToPending
  <2>6. ASSUME NEW r \in Requests, CreateLookupRun(r) PROVE PendingHasOwner'
    BY <2>6 DEF CreateLookupRun
  <2>7. ASSUME NEW r \in Requests, Launch(r) PROVE PendingHasOwner'
    BY <2>7 DEF Launch
  <2>8. ASSUME NEW r \in Requests, LoadSources(r) PROVE PendingHasOwner'
    BY <2>8 DEF LoadSources
  <2>9. ASSUME NEW r \in Requests, ReadBack(r) PROVE PendingHasOwner'
    <3>1. look'[r] # "off" /\ UNCHANGED <<run, pc>>
      BY <2>9, OverallType DEF ReadBack, Verdicts
    <3>2. \A q \in Requests : q # r => look'[q] = look[q]
      BY <2>9 DEF ReadBack
    <3> QED BY <3>1, <3>2
  <2>10. ASSUME NEW r \in Requests, CompleteRun(r) PROVE PendingHasOwner'
    BY <2>10 DEF CompleteRun, Dropped, Verdicts
  <2>11. CASE UNCHANGED <<run, pc, look>>
    BY <2>11
  <2>12. ~Crash
    BY DEF Crash
  <2> QED BY <2>1, <2>2, <2>3, <2>4, <2>5, <2>6, <2>7, <2>8, <2>9, <2>10, <2>11,
             <2>12 DEF Next, Handle, Work, Call, SetSourceResult, vars
<1> QED BY <1>1, <1>2, TypeCorrect, PTL DEF Spec
=============================================================================
