-------------------------- MODULE LookupRefinement --------------------------
(***************************************************************************)
(* With a database that does not fail and one handler at a time, and       *)
(* however often the process crashes, Lookup implements Enrichment.        *)
(***************************************************************************)
EXTENDS LookupProofs

-----------------------------------------------------------------------------
(* What the rows say when the statements that read them do not fail. *)

Outstanding == {s \in Sources : status[s] = "pending"}
FailedRows == {s \in Sources : status[s] = "failed"}

\* The run's status and its rows agree.
RunInv ==
    /\ run = "none" => Outstanding = Sources
    /\ run \in {"partial", "failed"} => Retryable # {}
    /\ run = "complete" => Retryable = {}

\* A handler that re-triggers misses no failed row.
TriggerInv == \A r \in Requests :
    /\ pc[r] # "mark"
    /\ pc[r] = "reset" => FailedRows \subseteq ids[r]
    /\ pc[r] \in {"resetRun", "launch"} => FailedRows = {}

\* A lookup processes exactly the rows that are pending, and what it writes is
\* what they have become.
ProgressInv == \A r \in Requests :
    /\ look[r] = "load" => FailedRows = {}
    /\ look[r] = "fetch" => Outstanding = busy[r]
    /\ look[r] \in Verdicts =>
          Outstanding = {} /\ look[r] = ComputeOverallStatus(Sources)

ResultInv == RunInv /\ TriggerInv /\ ProgressInv

\* Without faults a query returns the rows it selects.
LEMMA SelectExact == ASSUME ~Faults, NEW S PROVE Select(S) = {S}
BY DEF Select

\* It holds before the first trigger.
LEMMA ResultInit == Init => ResultInv
BY DEF Init, ResultInv, RunInv, TriggerInv, ProgressInv, Outstanding, Verdicts

\* The steps of a handler keep it.
LEMMA ResultHandle ==
    ASSUME ~Overlap, ~Faults, TypeOK, SerialInv, ResultInv,
           NEW r \in Requests, GetLookupRun(r) \/ Handle(r)
    PROVE  ResultInv'
<1> USE DEF TypeOK, db, handlers, lookups
<1>1. CASE GetLookupRun(r)
  <2>1. PICK next \in {"create", "200", "retryable"} : pc' = [pc EXCEPT ![r] = next]
    BY <1>1 DEF GetLookupRun, NextStep, Verdicts
  <2>2. UNCHANGED <<run, status, ids, look, busy>>
    BY <1>1 DEF GetLookupRun
  <2>3. TriggerInv'
    BY <2>1, <2>2 DEF ResultInv, TriggerInv, FailedRows
  <2> QED BY <2>2, <2>3 DEF ResultInv, RunInv, ProgressInv, Outstanding, FailedRows,
                            Retryable, ComputeOverallStatus
<1>2. CASE GetRetryableSources(r)
  <2>1. run \in {"partial", "failed"}
    BY <1>2 DEF GetRetryableSources, SerialInv, HandlerFresh
  <2>2. Retryable # {}
    BY <2>1 DEF ResultInv, RunInv
  <2>3. ids' = [ids EXCEPT ![r] = Retryable] /\ pc' = [pc EXCEPT ![r] = "reset"]
    BY <1>2, <2>2, SelectExact DEF GetRetryableSources
  <2>4. UNCHANGED <<run, status, look, busy>>
    BY <1>2 DEF GetRetryableSources
  <2>5. TriggerInv'
    BY <2>3, <2>4 DEF ResultInv, TriggerInv, FailedRows, Retryable
  <2> QED BY <2>4, <2>5 DEF ResultInv, RunInv, ProgressInv, Outstanding, FailedRows,
                            Retryable, ComputeOverallStatus
<1>3. CASE MarkComplete(r)
  BY <1>3 DEF MarkComplete, ResultInv, TriggerInv
<1>4. CASE ResetSource(r)
  <2>1. PICK s \in ids[r] :
           /\ status' = [status EXCEPT ![s] = "pending"]
           /\ ids' = [ids EXCEPT ![r] = ids[r] \ {s}]
           /\ pc' = [pc EXCEPT ![r] = IF ids[r] = {s} THEN "resetRun" ELSE "reset"]
    BY <1>4 DEF ResetSource
  <2>2. run \in {"partial", "failed"} /\ run' = run /\ UNCHANGED <<look, busy>>
    BY <1>4 DEF ResetSource, SerialInv, HandlerFresh
  <2>3. FailedRows \subseteq ids[r]
    BY <1>4 DEF ResetSource, ResultInv, TriggerInv
  <2>4. FailedRows' = FailedRows \ {s}
    BY <2>1 DEF FailedRows
  <2>5. s \in Retryable'
    BY <2>1 DEF Retryable
  <2>6. \A q \in Requests : look[q] = "off" /\ (q # r => pc[q] \notin Handling)
    BY <1>4, HandlerAlone DEF ResetSource, Handling
  <2>7. RunInv'
    BY <2>2, <2>5 DEF RunInv
  <2>8. TriggerInv'
    BY <2>1, <2>3, <2>4, <2>6 DEF TriggerInv, Handling, ResultInv
  <2>9. ProgressInv'
    BY <2>2, <2>6 DEF ProgressInv, Verdicts
  <2> QED BY <2>7, <2>8, <2>9 DEF ResultInv
<1>5. CASE ResetRunToPending(r)
  <2>1. run' = "pending" /\ pc' = [pc EXCEPT ![r] = "launch"] /\ FailedRows = {}
    BY <1>5 DEF ResetRunToPending, ResultInv, TriggerInv
  <2>2. UNCHANGED <<status, ids, look, busy>>
    BY <1>5 DEF ResetRunToPending
  <2> QED BY <2>1, <2>2 DEF ResultInv, RunInv, TriggerInv, ProgressInv, Outstanding,
                            FailedRows, Retryable, ComputeOverallStatus
<1>6. CASE CreateLookupRun(r)
  <2>1. run = "none"
    BY <1>6 DEF CreateLookupRun, SerialInv, HandlerFresh
  <2>2. run' = "pending" /\ pc' = [pc EXCEPT ![r] = "launch"]
    BY <1>6, <2>1 DEF CreateLookupRun
  <2>3. FailedRows = {}
    BY <2>1 DEF ResultInv, RunInv, Outstanding, FailedRows
  <2>4. UNCHANGED <<status, ids, look, busy>>
    BY <1>6 DEF CreateLookupRun
  <2> QED BY <2>2, <2>3, <2>4 DEF ResultInv, RunInv, TriggerInv, ProgressInv,
                 Outstanding, FailedRows, Retryable, ComputeOverallStatus
<1>7. CASE Launch(r)
  <2>1. FailedRows = {}
    BY <1>7 DEF Launch, ResultInv, TriggerInv
  <2>2. /\ pc' = [pc EXCEPT ![r] = "202"] /\ look' = [look EXCEPT ![r] = "load"]
        /\ UNCHANGED <<run, status, ids, busy>>
    BY <1>7 DEF Launch
  <2>3. RunInv' /\ TriggerInv'
    BY <2>2 DEF ResultInv, RunInv, TriggerInv, Outstanding, FailedRows, Retryable
  <2>4. ProgressInv'
    BY <2>1, <2>2 DEF ResultInv, ProgressInv, Outstanding, FailedRows, Verdicts,
                      ComputeOverallStatus
  <2> QED BY <2>3, <2>4 DEF ResultInv
<1> QED BY <1>1, <1>2, <1>3, <1>4, <1>5, <1>6, <1>7 DEF Handle

\* The steps of a lookup and of its workers keep it.
LEMMA ResultWork ==
    ASSUME ~Faults, TypeOK, SerialInv, ResultInv, NEW r \in Requests, Work(r)
    PROVE  ResultInv'
<1> USE DEF TypeOK, db, handlers, lookups
<1>1. look[r] # "off"
  BY DEF Work, LoadSources, ReadBack, CompleteRun, Call, SetSourceResult,
         AllEnded, Verdicts, SerialInv, LookupFresh
<1>2. /\ run = "pending"
      /\ \A q \in Requests : /\ pc[q] \notin Handling
                             /\ q # r => look[q] = "off" /\ busy[q] = {}
  BY <1>1, LookupAlone
<1>3. pc' = pc
  BY DEF Work, LoadSources, ReadBack, CompleteRun, Call, SetSourceResult
<1>4. \A q \in Requests : q # r => look'[q] = "off"
  BY <1>2 DEF Work, LoadSources, ReadBack, CompleteRun, Call, SetSourceResult
<1>5. TriggerInv'
  BY <1>2, <1>3 DEF TriggerInv, Handling
<1>6. CASE LoadSources(r)
  <2>1. look[r] = "load" /\ FailedRows = {}
    BY <1>6 DEF LoadSources, ResultInv, ProgressInv
  <2>2. /\ look' = [look EXCEPT ![r] = "fetch"]
        /\ busy' = [busy EXCEPT ![r] = {s \in Sources : NeedsWork(s)}]
    BY <1>6, SelectExact DEF LoadSources
  <2>3. UNCHANGED <<run, status>>
    BY <1>6 DEF LoadSources
  <2>4. Outstanding' = busy'[r]
    BY <2>1, <2>2, <2>3 DEF Outstanding, FailedRows, NeedsWork, SourceStatus
  <2>5. ProgressInv'
    BY <1>4, <2>2, <2>4 DEF ProgressInv, Verdicts
  <2> QED BY <1>2, <1>5, <2>3, <2>5 DEF ResultInv, RunInv
<1>7. ASSUME NEW s \in Sources, Call(r, s) PROVE ResultInv'
  <2>1. UNCHANGED <<run, status, look, busy>>
    BY <1>7 DEF Call
  <2> QED BY <1>5, <2>1 DEF ResultInv, RunInv, ProgressInv, Outstanding, FailedRows,
                            Retryable, ComputeOverallStatus
<1>8. ASSUME NEW s \in Sources, SetSourceResult(r, s) PROVE ResultInv'
  <2>1. look[r] = "fetch" /\ look' = look /\ run' = run
    BY <1>8 DEF SetSourceResult, SerialInv, LookupFresh
  <2>2. PICK v \in {"success", "failed", "not_applicable"} :
           status' = [status EXCEPT ![s] = v]
    BY <1>8, OutcomeType DEF SetSourceResult
  <2>3. busy'[r] = busy[r] \ {s}
    BY <1>8 DEF SetSourceResult
  <2>4. Outstanding = busy[r]
    BY <2>1 DEF ResultInv, ProgressInv
  <2>5. Outstanding' = busy'[r]
    BY <2>2, <2>3, <2>4 DEF Outstanding
  <2>6. ProgressInv'
    BY <1>4, <2>1, <2>5 DEF ProgressInv, Verdicts
  <2> QED BY <1>2, <1>5, <2>1, <2>6 DEF ResultInv, RunInv
<1>9. CASE ReadBack(r)
  <2>1. look[r] = "fetch" /\ busy[r] = {} /\ UNCHANGED <<run, status, busy>>
    BY <1>9 DEF ReadBack, AllEnded
  <2>2. look' = [look EXCEPT ![r] = ComputeOverallStatus(Sources)]
    <3>1. PICK S \in Select(Sources) : look' = [look EXCEPT ![r] = ComputeOverallStatus(S)]
      BY <1>9 DEF ReadBack
    <3>2. S = Sources
      BY SelectExact
    <3> QED BY <3>1, <3>2, Zenon
  <2>3. Outstanding = {}
    BY <2>1 DEF ResultInv, ProgressInv
  <2>4. Outstanding' = {} /\ ComputeOverallStatus(Sources)' = ComputeOverallStatus(Sources)
    BY <2>1, <2>3 DEF Outstanding, ComputeOverallStatus
  <2>5. ComputeOverallStatus(Sources) \in Verdicts
    BY OverallType
  <2>6. ProgressInv'
    BY <1>4, <2>2, <2>4, <2>5 DEF ProgressInv, Verdicts
  <2> QED BY <1>2, <1>5, <2>1, <2>6 DEF ResultInv, RunInv
<1>10. CASE CompleteRun(r)
  <2>1. /\ run' = look[r] /\ look[r] \in Verdicts
        /\ look' = [look EXCEPT ![r] = "off"] /\ status' = status
    BY <1>10 DEF CompleteRun, Dropped
  <2>2. Outstanding = {} /\ look[r] = ComputeOverallStatus(Sources)
    BY <2>1 DEF ResultInv, ProgressInv
  <2>3. Retryable = FailedRows /\ Retryable' = Retryable
    BY <2>1, <2>2 DEF Retryable, Outstanding, FailedRows
  <2>4. look[r] = "complete" <=> FailedRows = {}
    BY <2>2 DEF ComputeOverallStatus, Outstanding, FailedRows, SourceStatus
  <2>5. RunInv'
    BY <2>1, <2>3, <2>4 DEF RunInv, Verdicts
  <2>6. ProgressInv'
    BY <1>4, <2>1 DEF ProgressInv, Verdicts
  <2> QED BY <1>5, <2>5, <2>6 DEF ResultInv
<1> QED BY <1>6, <1>7, <1>8, <1>9, <1>10 DEF Work

\* A crash leaves the rows, and the run that describes them, as they are.
LEMMA ResultCrash == ASSUME TypeOK, ResultInv, Crash PROVE ResultInv'
<1>1. /\ UNCHANGED <<run, status>>
      /\ \A r \in Requests : pc'[r] \notin Handling /\ look'[r] = "off"
  BY DEF Crash, db, Handling
<1> QED BY <1>1 DEF ResultInv, RunInv, TriggerInv, ProgressInv, Outstanding,
                    Retryable, Handling, Verdicts

\* If handlers of the case are served one at a time and statements do not
\* fail, what a handler and a lookup remember agrees with the rows, and the
\* run's verdict (orchestrator.go:274-302) is the one the rows add up to.
THEOREM ResultInvariant ==
    ASSUME ~Overlap, ~Faults PROVE Spec => []ResultInv
<1>1. TypeOK /\ SerialInv /\ ResultInv /\ [Next]_vars => ResultInv'
  <2> SUFFICES ASSUME TypeOK, SerialInv, ResultInv, [Next]_vars PROVE ResultInv'
    OBVIOUS
  <2>1. CASE UNCHANGED vars
    BY <2>1 DEF vars, db, handlers, lookups, ResultInv, RunInv, TriggerInv,
                ProgressInv, Outstanding, FailedRows, Retryable, ComputeOverallStatus
  <2> QED BY <2>1, ResultHandle, ResultWork, ResultCrash DEF Next
<1> QED BY <1>1, ResultInit, TypeCorrect, SerialInvariant, PTL DEF Spec

\* If handlers of the case are served one at a time and statements do not
\* fail, a complete case has every source resolved, crashes or not.
THEOREM CompleteIsResolved ==
    ASSUME ~Overlap, ~Faults PROVE Spec => []CompleteMeansResolved
<1>1. TypeOK /\ ResultInv => CompleteMeansResolved
  BY DEF TypeOK, SourceStatus, ResultInv, RunInv, Retryable, CompleteMeansResolved
<1> QED BY <1>1, ResultInvariant, TypeCorrect, PTL

\* A verdict with no row outstanding is the verdict of the rows.
VerdictInv == run \in Verdicts /\ Outstanding = {} => run = ComputeOverallStatus(Sources)

\* If handlers of the case are served one at a time and statements do not
\* fail, a case at rest has the verdict that its rows add up to
\* (orchestrator.go:231-234), however often it is retried or crashes.
THEOREM VerdictMatchesRows ==
    ASSUME ~Overlap, ~Faults PROVE Spec => []StatusMatchesRows
<1>1. Init => VerdictInv
  BY DEF Init, VerdictInv, Verdicts
<1>2. TypeOK /\ SerialInv /\ ResultInv /\ VerdictInv /\ [Next]_vars => VerdictInv'
  <2> SUFFICES ASSUME TypeOK, SerialInv, ResultInv, VerdictInv, [Next]_vars
               PROVE  VerdictInv'
    OBVIOUS
  <2> USE DEF db, handlers, lookups
  <2>1. CASE UNCHANGED <<run, status>>
    BY <2>1 DEF VerdictInv, Outstanding, ComputeOverallStatus
  <2>2. ASSUME NEW r \in Requests, MarkComplete(r) PROVE FALSE
    BY <2>2 DEF MarkComplete, ResultInv, TriggerInv
  <2>3. ASSUME NEW r \in Requests, ResetSource(r) PROVE VerdictInv'
    <3>1. PICK s \in ids[r] : status' = [status EXCEPT ![s] = "pending"]
      BY <2>3 DEF ResetSource
    <3>2. s \in Outstanding'
      BY <3>1 DEF Outstanding, TypeOK
    <3> QED BY <3>2 DEF VerdictInv
  <2>4. ASSUME NEW r \in Requests, ResetRunToPending(r) \/ CreateLookupRun(r)
        PROVE  VerdictInv'
    <3>1. run' = "pending" \/ UNCHANGED <<run, status>>
      BY <2>4 DEF ResetRunToPending, CreateLookupRun
    <3> QED BY <2>1, <3>1 DEF VerdictInv, Verdicts
  <2>5. ASSUME NEW r \in Requests, NEW s \in Sources, SetSourceResult(r, s)
        PROVE  VerdictInv'
    <3>1. run = "pending" /\ run' = run
      BY <2>5 DEF SetSourceResult, SerialInv, LookupFresh
    <3> QED BY <3>1 DEF VerdictInv, Verdicts
  <2>6. ASSUME NEW r \in Requests, CompleteRun(r) PROVE VerdictInv'
    <3>1. run' = ComputeOverallStatus(Sources) /\ status' = status
      BY <2>6 DEF CompleteRun, Dropped, ResultInv, ProgressInv
    <3> QED BY <3>1 DEF VerdictInv, ComputeOverallStatus
  <2> QED BY <2>1, <2>2, <2>3, <2>4, <2>5, <2>6
          DEF Next, Handle, Work, GetLookupRun, GetRetryableSources, Launch,
              LoadSources, ReadBack, Call, Crash, vars
<1>3. VerdictInv => StatusMatchesRows
  BY DEF VerdictInv, StatusMatchesRows, Outstanding
<1> QED BY <1>1, <1>2, <1>3, ResultInvariant, TypeCorrect, SerialInvariant, PTL DEF Spec

\* Where the count of a source is exact: in its row, or with its worker.
ExactInv ==
    \A s \in Sources :
        /\ run # "pending" => attempts[s] = calls[s]
        /\ \A r \in Requests :
              /\ pc[r] = "launch" \/ look[r] \in {"load"} \cup Verdicts =>
                    attempts[s] = calls[s]
              /\ look[r] = "fetch" =>
                    IF s \in busy[r] THEN base[r][s] + made[r][s] = calls[s]
                    ELSE attempts[s] = calls[s]

\* The steps of a handler keep it: they touch no count.
LEMMA ExactHandle ==
    ASSUME ~Faults, TypeOK, SerialInv, ResultInv, ExactInv,
           NEW r \in Requests, GetLookupRun(r) \/ Handle(r)
    PROVE  ExactInv'
<1> USE DEF TypeOK, db, handlers, lookups
<1>1. UNCHANGED <<attempts, calls, busy, base, made>>
  BY DEF Handle, GetLookupRun, GetRetryableSources, MarkComplete, ResetSource,
         ResetRunToPending, CreateLookupRun, Launch
<1>2. CASE Launch(r)
  BY <1>1, <1>2 DEF ExactInv, Launch, Verdicts
<1>3. CASE ResetRunToPending(r) \/ CreateLookupRun(r)
  <2>1. run # "pending"
    BY <1>3 DEF ResetRunToPending, CreateLookupRun, SerialInv, HandlerFresh
  <2>2. \A s \in Sources : attempts[s] = calls[s]
    BY <2>1 DEF ExactInv
  <2>3. look' = look
    BY <1>3 DEF ResetRunToPending, CreateLookupRun
  <2> QED BY <1>1, <2>2, <2>3 DEF ExactInv
<1>4. CASE GetLookupRun(r)
  <2>1. PICK next \in {"create", "200", "retryable"} : pc' = [pc EXCEPT ![r] = next]
    BY <1>4 DEF GetLookupRun, NextStep, Verdicts
  <2> QED BY <1>1, <1>4, <2>1 DEF ExactInv, GetLookupRun
<1>5. CASE GetRetryableSources(r) \/ MarkComplete(r) \/ ResetSource(r)
  <2>1. pc[r] # "mark"
    BY DEF ResultInv, TriggerInv
  <2>2. \A q \in Requests : pc'[q] = "launch" => pc[q] = "launch"
    BY <1>5 DEF GetRetryableSources, MarkComplete, ResetSource
  <2>3. run' = run /\ look' = look
    BY <1>5, <2>1 DEF GetRetryableSources, MarkComplete, ResetSource
  <2> QED BY <1>1, <2>2, <2>3 DEF ExactInv
<1> QED BY <1>2, <1>3, <1>4, <1>5 DEF Handle

\* The steps of a lookup and of its workers keep it: a worker adds its calls
\* to the count that was in the row when it started.
LEMMA ExactWork ==
    ASSUME ~Faults, TypeOK, SerialInv, ExactInv, NEW r \in Requests, Work(r)
    PROVE  ExactInv'
<1> USE DEF TypeOK, db, handlers, lookups
<1>1. look[r] # "off"
  BY DEF Work, LoadSources, ReadBack, CompleteRun, Call, SetSourceResult,
         AllEnded, Verdicts, SerialInv, LookupFresh
<1>2. /\ run = "pending"
      /\ \A q \in Requests : /\ pc[q] \notin Handling
                             /\ q # r => look[q] = "off" /\ busy[q] = {}
  BY <1>1, LookupAlone
<1>3. /\ \A q \in Requests : pc'[q] # "launch"
      /\ \A q \in Requests : q # r => look'[q] = "off"
  BY <1>2 DEF Work, LoadSources, ReadBack, CompleteRun, Call, SetSourceResult, Handling
<1>4. CASE LoadSources(r)
  <2>1. \A s \in Sources : attempts[s] = calls[s]
    BY <1>4 DEF LoadSources, ExactInv
  <2>2. /\ look'[r] = "fetch" /\ base'[r] = attempts
        /\ \A s \in Sources : made'[r][s] = 0
        /\ UNCHANGED <<run, attempts, calls>>
    BY <1>4 DEF LoadSources
  <2>3. \A s \in Sources : base'[r][s] + made'[r][s] = calls'[s]
    BY <2>1, <2>2
  <2> QED BY <1>3, <2>1, <2>2, <2>3 DEF ExactInv, Verdicts
<1>5. ASSUME NEW s \in Sources, Call(r, s) PROVE ExactInv'
  <2>1. look[r] = "fetch" /\ s \in busy[r]
    BY <1>5 DEF Call, SerialInv, LookupFresh
  <2>2. UNCHANGED <<run, attempts, look, busy, base>>
    BY <1>5 DEF Call
  <2>3. /\ made'[r][s] = made[r][s] + 1 /\ calls'[s] = calls[s] + 1
        /\ \A t \in Sources \ {s} : made'[r][t] = made[r][t] /\ calls'[t] = calls[t]
    BY <1>5 DEF Call
  <2>4. ASSUME NEW t \in Sources
        PROVE  IF t \in busy[r] THEN base[r][t] + made'[r][t] = calls'[t]
               ELSE attempts[t] = calls'[t]
    <3>1. IF t \in busy[r] THEN base[r][t] + made[r][t] = calls[t]
          ELSE attempts[t] = calls[t]
      BY <2>1 DEF ExactInv
    <3>2. base[r][t] \in Nat /\ made[r][t] \in Nat /\ calls[t] \in Nat
      OBVIOUS
    <3>3. CASE t = s
      BY ONLY <2>1, <2>3, <3>1, <3>2, <3>3
    <3>4. CASE t # s
      BY ONLY <2>3, <3>1, <3>4
    <3> QED BY <3>3, <3>4
  <2> QED BY <1>2, <1>3, <2>1, <2>2, <2>4 DEF ExactInv, Verdicts
<1>6. ASSUME NEW s \in Sources, SetSourceResult(r, s) PROVE ExactInv'
  <2>1. look[r] = "fetch"
    BY <1>6 DEF SetSourceResult, SerialInv, LookupFresh
  <2>2. /\ attempts' = [attempts EXCEPT ![s] = base[r][s] + made[r][s]]
        /\ busy'[r] = busy[r] \ {s} /\ s \in busy[r]
        /\ UNCHANGED <<run, look, base, made, calls>>
    BY <1>6 DEF SetSourceResult, RecordedAttempts
  <2>3. ASSUME NEW t \in Sources
        PROVE  IF t \in busy'[r] THEN base[r][t] + made[r][t] = calls[t]
               ELSE attempts'[t] = calls[t]
    BY <2>1, <2>2 DEF ExactInv
  <2> QED BY <1>2, <1>3, <2>1, <2>2, <2>3 DEF ExactInv, Verdicts
<1>7. CASE ReadBack(r) \/ CompleteRun(r)
  <2>1. \A s \in Sources : attempts[s] = calls[s]
    BY <1>7 DEF ReadBack, AllEnded, CompleteRun, ExactInv
  <2>2. UNCHANGED <<attempts, calls>> /\ look'[r] # "fetch"
    BY <1>7, OverallType DEF ReadBack, CompleteRun, Verdicts
  <2> QED BY <1>3, <2>1, <2>2 DEF ExactInv
<1> QED BY <1>4, <1>5, <1>6, <1>7 DEF Work

\* If handlers of the case are served one at a time and statements do not
\* fail, a case at rest has recorded every call it made
\* (process_property.go:51, process_court.go:63, process_scra.go:64-97).
THEOREM AttemptsAreExact ==
    ASSUME ~Overlap, ~Faults PROVE Spec => []AttemptsExact
<1>1. Init => ExactInv
  BY DEF Init, ExactInv, Verdicts
<1>2. TypeOK /\ SerialInv /\ ResultInv /\ ExactInv /\ [Next]_vars => ExactInv'
  <2> SUFFICES ASSUME TypeOK, SerialInv, ResultInv, ExactInv, [Next]_vars PROVE ExactInv'
    OBVIOUS
  <2>1. CASE Crash
    BY <2>1 DEF Crash, db, ExactInv, Verdicts, Handling
  <2>2. CASE UNCHANGED vars
    BY <2>2 DEF vars, db, handlers, lookups, ExactInv
  <2> QED BY <2>1, <2>2, ExactHandle, ExactWork DEF Next
<1>3. ExactInv => AttemptsExact
  BY DEF ExactInv, AttemptsExact, Verdicts
<1> QED BY <1>1, <1>2, <1>3, ResultInvariant, TypeCorrect, SerialInvariant, PTL DEF Spec
-----------------------------------------------------------------------------
(* The refinement. *)

\* The result that Enrichment sees of each source.
Seen == [s \in Sources |-> IF status[s] # "pending" THEN status[s]
                           ELSE IF run \in {"partial", "failed"} THEN "failed"
                           ELSE "open"]

\* Enrichment counts a source as failed when it is retryable and the run has
\* its verdict, or when its row says so.
LEMMA SeenFailed ==
    ASSUME TypeOK
    PROVE  Case!Failed = IF run \in {"partial", "failed"} THEN Retryable ELSE FailedRows
BY DEF TypeOK, SourceStatus, Case!Failed, Retryable, FailedRows

\* Re-triggering is Retry, once the run is pending again.
LEMMA RefineHandle ==
    ASSUME ~Overlap, ~Faults, TypeOK, SerialInv, ResultInv,
           NEW r \in Requests, GetLookupRun(r) \/ Handle(r)
    PROVE  Case!Next \/ UNCHANGED Case!abstract
<1> USE DEF TypeOK, db, handlers, lookups
<1>1. CASE UNCHANGED <<run, status>>
  BY <1>1 DEF Case!abstract
<1>2. CASE MarkComplete(r)
  BY <1>2 DEF MarkComplete, ResultInv, TriggerInv
<1>3. CASE ResetSource(r)
  <2>1. PICK s \in ids[r] : status' = [status EXCEPT ![s] = "pending"]
    BY <1>3 DEF ResetSource
  <2>2. run' = run /\ run \in {"partial", "failed"} /\ ids[r] \subseteq Retryable
    BY <1>3 DEF ResetSource, SerialInv, HandlerFresh
  <2>3. status[s] \in {"pending", "failed"}
    BY <2>2 DEF Retryable
  <2>4. Seen' = Seen
    BY <2>1, <2>2, <2>3 DEF Seen
  <2> QED BY <2>2, <2>4 DEF Case!abstract, Seen
<1>4. CASE ResetRunToPending(r)
  <2>1. run' = "pending" /\ status' = status /\ FailedRows = {}
    BY <1>4 DEF ResetRunToPending, ResultInv, TriggerInv
  <2>2. run \in {"partial", "failed"}
    BY <1>4 DEF ResetRunToPending, SerialInv, HandlerFresh
  <2>3. Case!Failed = Outstanding
    BY <2>1, <2>2, SeenFailed DEF Retryable, FailedRows, Outstanding
  <2>4. Seen' = [s \in Sources |-> IF s \in Outstanding THEN "open" ELSE Seen[s]]
    BY <2>1 DEF Seen, Outstanding
  <2>5. Case!Retry
    BY <2>1, <2>2, <2>3, <2>4 DEF Case!Retry, Seen
  <2> QED BY <2>5 DEF Case!Next
<1>5. CASE CreateLookupRun(r)
  <2>1. run = "none" /\ run' = "pending" /\ status' = status
    BY <1>5 DEF CreateLookupRun, SerialInv, HandlerFresh
  <2>2. Case!Start
    BY <2>1 DEF Case!Start
  <2> QED BY <2>2 DEF Case!Next
<1> QED BY <1>1, <1>2, <1>3, <1>4, <1>5
        DEF Handle, GetLookupRun, GetRetryableSources, Launch

\* A worker's last statement is Settle, CompleteRun is Finish.
LEMMA RefineWork ==
    ASSUME ~Faults, TypeOK, SerialInv, ResultInv, NEW r \in Requests, Work(r)
    PROVE  Case!Next \/ UNCHANGED Case!abstract
<1> USE DEF TypeOK, db, handlers, lookups
<1>1. CASE UNCHANGED <<run, status>>
  BY <1>1 DEF Case!abstract
<1>2. ASSUME NEW s \in Sources, SetSourceResult(r, s) PROVE Case!Next
  <2>1. look[r] = "fetch" /\ run' = run /\ s \in busy[r]
    BY <1>2 DEF SetSourceResult, SerialInv, LookupFresh
  <2>2. run = "pending"
    BY <2>1, LookupAlone
  <2>3. status[s] = "pending"
    BY <2>1 DEF ResultInv, ProgressInv, Outstanding
  <2>4. PICK v \in Outcomes(r, s) : status' = [status EXCEPT ![s] = v]
    BY <1>2 DEF SetSourceResult
  <2>5. v \in IF s \in Applicable THEN {"success", "failed"} ELSE {"not_applicable"}
    BY <2>4 DEF Outcomes
  <2>6. Seen' = [Seen EXCEPT ![s] = v]
    BY <2>1, <2>2, <2>4, <2>5 DEF Seen
  <2>7. Case!Settle(s)
    BY <2>1, <2>2, <2>3, <2>5, <2>6 DEF Case!Settle, Seen
  <2> QED BY <2>7 DEF Case!Next
<1>3. CASE CompleteRun(r)
  <2>1. run' = look[r] /\ look[r] \in Verdicts /\ status' = status
    BY <1>3 DEF CompleteRun, Dropped
  <2>2. run = "pending"
    BY <2>1, LookupAlone DEF Verdicts
  <2>3. Outstanding = {} /\ look[r] = ComputeOverallStatus(Sources)
    BY <2>1 DEF ResultInv, ProgressInv
  <2>4. Seen = status /\ Seen' = status
    BY <2>1, <2>3 DEF Seen, Outstanding
  <2>5. Case!Failed = FailedRows
    BY <2>2, SeenFailed
  <2>6. Case!Succeeded = {s \in Sources : status[s] = "success"}
    BY <2>4 DEF Case!Succeeded, Seen
  <2>7. Case!Verdict = ComputeOverallStatus(Sources)
    BY <2>3, <2>5, <2>6
       DEF Case!Verdict, ComputeOverallStatus, FailedRows, Outstanding, SourceStatus
  <2>8. \A s \in Sources : status[s] \in Case!Settled
    BY <2>3 DEF Outstanding, Case!Settled, SourceStatus
  <2>9. Case!Finish
    BY <2>1, <2>2, <2>3, <2>4, <2>7, <2>8 DEF Case!Finish, Seen
  <2> QED BY <2>9 DEF Case!Next
<1> QED BY <1>1, <1>2, <1>3 DEF Work, LoadSources, Call, ReadBack

\* If handlers of the case are served one at a time and statements do not
\* fail, then handlers, goroutines, rows and crashes together behave as the
\* idempotency and status rules promise (orchestrator.go:71-75, 276-279).
THEOREM LookupImplementsEnrichment ==
    ASSUME ~Overlap, ~Faults PROVE Spec => EnrichmentRefined
<1>1. Init => Case!Init
  BY DEF Init, Case!Init
<1>2. TypeOK /\ SerialInv /\ ResultInv /\ [Next]_vars => [Case!Next]_Case!abstract
  <2> SUFFICES ASSUME TypeOK, SerialInv, ResultInv, [Next]_vars
               PROVE  Case!Next \/ UNCHANGED Case!abstract
    OBVIOUS
  <2>1. CASE UNCHANGED <<run, status>>
    BY <2>1 DEF Case!abstract
  <2> QED BY <2>1, RefineHandle, RefineWork DEF Next, Crash, vars, db
<1> QED BY <1>1, <1>2, TypeCorrect, SerialInvariant, ResultInvariant, PTL
        DEF Spec, EnrichmentRefined, Case!Spec
=============================================================================
