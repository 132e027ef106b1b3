------------------------------ MODULE ApiProofs ------------------------------
(***************************************************************************)
(* The handlers around the lookup leave it what module Lookup says it is,  *)
(* for any bulk request, any pool and any number of readers.               *)
(***************************************************************************)
EXTENDS Api, LookupRefinement

\* Every step of the handlers is one of Lookup, or none.
LEMMA ApiStep == ASSUME [ApiNext]_apiVars PROVE [Next]_vars
<1>1. ASSUME NEW r \in Requests, Trigger(r) \/ ApiHandle(r) \/ ApiWork(r) PROVE Next
  BY <1>1 DEF Trigger, ApiHandle, ApiWork, Next
<1>2. CASE BulkEnrich \/ Take \/ Respond
  BY <1>2 DEF BulkEnrich, Take, Respond
<1>3. ASSUME NEW i \in Indices, Report(i) PROVE UNCHANGED vars
  BY <1>3 DEF Report
<1>4. ASSUME NEW q \in Readers, GetStatus(q) PROVE UNCHANGED vars
  BY <1>4 DEF GetStatus
<1>5. CASE ApiCrash
  BY <1>5 DEF ApiCrash, Next
<1>6. CASE UNCHANGED apiVars
  BY <1>6 DEF apiVars
<1> QED BY <1>1, <1>2, <1>3, <1>4, <1>5, <1>6 DEF ApiNext

\* A bulk request and its pool (handler.go:202-290) trigger lookups and a
\* reader of the status (handler.go:88-118) watches them, but neither adds a
\* step of its own: everything proved of Lookup holds under both.
THEOREM ApiImplementsLookup == ApiSpec => Spec
<1>1. ApiInit => Init
  BY DEF ApiInit
<1>2. [ApiNext]_apiVars => [Next]_vars
  BY ApiStep
<1> QED BY <1>1, <1>2, PTL DEF ApiSpec, Spec

\* While nothing fails and the server does not stop, a pending run has an owner
\* also when bulk workers of one case overlap (orchestrator.go:96-137).
THEOREM ApiPendingOwned ==
    ASSUME ~Faults, MaxCrashes = 0 PROVE ApiSpec => []PendingHasOwner
BY ApiImplementsLookup, PendingOwned, PTL

\* Nor do overlapping bulk workers and lookups ever record a call that was not
\* made (lookup_store.go:231-262).
THEOREM ApiNeverOvercounts == ApiSpec => []AttemptsNeverOvercount
BY ApiImplementsLookup, NeverOvercount, PTL

\* With the handlers of a case one at a time and statements that succeed, the
\* case behind the API is the case of Enrichment, crashes included: a bulk
\* request costs it none of what a trigger promises (handler.go:232-271,
\* orchestrator.go:60-161).
THEOREM ApiKeepsPromises ==
    ASSUME ~Overlap, ~Faults
    PROVE  ApiSpec => /\ EnrichmentRefined
                      /\ []CompleteMeansResolved
                      /\ []StatusMatchesRows
                      /\ []AttemptsExact
BY ApiImplementsLookup, LookupImplementsEnrichment, CompleteIsResolved, VerdictMatchesRows,
   AttemptsAreExact, PTL

\* Under bulk requests, crashes and failing statements, what was found stays
\* found (lookup_store.go:121-140).
THEOREM ApiSuccessStays == ASSUME ~Overlap PROVE ApiSpec => SuccessIsFinal
BY ApiImplementsLookup, SuccessStays, PTL

-----------------------------------------------------------------------------
(* Types. *)

\* Every variable of the handlers keeps its type: an answer of TriggerLookup
\* is one of those that BulkEnrich tells apart (handler.go:255-271).
THEOREM ApiTypes == ApiSpec => []ApiTypeOK
<1>1. ASSUME ApiInit PROVE ApiTypeOK
  <2>1. Unread \in Rows
    <3>1. Unread \in [{} -> SourceStatus]
      BY DEF Unread
    <3> QED BY <3>1 DEF Rows
  <2> QED BY <1>1, <2>1 DEF ApiInit, ApiTypeOK
<1>2. ASSUME ApiTypeOK, TypeOK, [ApiNext]_apiVars PROVE ApiTypeOK'
  <2> USE <1>2 DEF ApiTypeOK, bulk, readers
  <2>1. CASE UNCHANGED <<bulk, readers>>
    BY <2>1
  <2>2. CASE BulkEnrich
    BY <2>2 DEF BulkEnrich
  <2>3. CASE Take
    BY <2>3 DEF Take
  <2>4. CASE Respond
    BY <2>4 DEF Respond
  <2>5. ASSUME NEW i \in Indices, Report(i) PROVE ApiTypeOK'
    <3>1. StatusOf(pc[Entries[i]]) \in Statuses
      BY <2>5 DEF Report, Returned, StatusOf, Statuses
    <3> QED BY <2>5, <3>1 DEF Report
  <2>6. ASSUME NEW q \in Readers, GetStatus(q) PROVE ApiTypeOK'
    <3>1. CASE run # "none" /\ rpc' = [rpc EXCEPT ![q] = "sources"]
               /\ view' = [view EXCEPT ![q].run = run]
      <4>1. run \in {"none", "pending"} \cup Verdicts
        BY DEF TypeOK
      <4> QED BY <2>6, <3>1, <4>1 DEF GetStatus
    <3>2. ASSUME NEW S \in Select(Sources), rpc' = [rpc EXCEPT ![q] = "shown"],
                 view' = [view EXCEPT ![q].rows = [s \in S |-> status[s]]]
          PROVE  ApiTypeOK'
      <4>1. [s \in S |-> status[s]] \in Rows
        <5>1. S \in SUBSET Sources
          BY DEF Select
        <5>2. [s \in S |-> status[s]] \in [S -> SourceStatus]
          BY <5>1 DEF TypeOK
        <5> QED BY <5>1, <5>2 DEF Rows
      <4> QED BY <2>6, <3>2, <4>1 DEF GetStatus
    <3> QED BY <2>6, <3>1, <3>2 DEF GetStatus
  <2>7. CASE ApiCrash
    BY <2>7 DEF ApiCrash
  <2> QED BY <1>2, <2>1, <2>2, <2>3, <2>4, <2>5, <2>6, <2>7
          DEF ApiNext, Trigger, ApiHandle, ApiWork, apiVars
<1> QED BY <1>1, <1>2, ApiImplementsLookup, TypeCorrect, PTL DEF ApiSpec

-----------------------------------------------------------------------------
(* The bulk response. *)

\* A handler past its first read, but for one about to create it, has met a
\* run; a lookup belongs to a request that was answered with 202.
HaveRun == \A r \in Requests :
    /\ pc[r] \notin {"idle", "create"} => run # "none"
    /\ look[r] # "off" => pc[r] = "202"

\* An entry is in the channel, with a worker, or has its result, which says
\* what became of its trigger; and a run was made by somebody who then started
\* its lookup.
BulkInv ==
    /\ HaveRun
    /\ run # "none" => \E r \in Requests : Started(r)
    /\ response = "open" => \A i \in Indices : i \in jobs \cup taken \/ results[i] # ""
    /\ response = "sent" => \A i \in Indices : results[i] # ""
    /\ \A i \in Indices : results[i] # "" =>
          \/ pc[Entries[i]] = "202" /\ results[i] = "triggered"
          \/ pc[Entries[i]] = "200" /\ results[i] = "complete"
          \/ pc[Entries[i]] = "error" /\ results[i] = "error"

\* A run is made by a handler that then starts its lookup, and is never
\* deleted; an answer is final.
LEMMA AnswersHaveRun ==
    ASSUME ~Faults, MaxCrashes = 0, TypeOK, [Next]_vars, HaveRun
    PROVE  /\ HaveRun'
           /\ run' # "none" => run # "none" \/ \E r \in Requests : pc'[r] = "launch"
           /\ \A r \in Requests : Started(r) => Started(r)'
           /\ \A r \in Requests : pc[r] \in Answers => pc'[r] = pc[r]
<1> DEFINE Lasts ==
       /\ HaveRun'
       /\ run' # "none" => run # "none" \/ \E r \in Requests : pc'[r] = "launch"
       /\ \A r \in Requests : Started(r) => Started(r)'
       /\ \A r \in Requests : pc[r] \in Answers => pc'[r] = pc[r]
<1> USE DEF TypeOK, db, handlers, lookups, Started, Answers, HaveRun
<1>1. ASSUME NEW r \in Requests, GetLookupRun(r) PROVE Lasts
  <2>1. /\ pc[r] = "idle" /\ pc' = [pc EXCEPT ![r] = NextStep(run)]
        /\ UNCHANGED <<run, look>>
    BY <1>1 DEF GetLookupRun
  <2>2. /\ NextStep(run) \in {"create", "200", "retryable"}
        /\ NextStep(run) # "create" => run # "none"
    BY DEF NextStep, Verdicts
  <2> QED BY <1>1, <2>1, <2>2
<1>2. ASSUME NEW r \in Requests, GetRetryableSources(r) PROVE Lasts
  <2>1. /\ pc[r] = "retryable" /\ UNCHANGED <<run, look>>
        /\ pc' \in {[pc EXCEPT ![r] = "mark"], [pc EXCEPT ![r] = "reset"]}
    BY <1>2 DEF GetRetryableSources
  <2> QED BY <1>2, <2>1
<1>3. ASSUME NEW r \in Requests, MarkComplete(r) PROVE Lasts
  BY <1>3 DEF MarkComplete, Dropped
<1>4. ASSUME NEW r \in Requests, ResetSource(r) PROVE Lasts
  BY <1>4 DEF ResetSource
<1>5. ASSUME NEW r \in Requests, ResetRunToPending(r) \/ CreateLookupRun(r) PROVE Lasts
  BY <1>5 DEF ResetRunToPending, CreateLookupRun
<1>6. ASSUME NEW r \in Requests, Launch(r) PROVE Lasts
  BY <1>6 DEF Launch
<1>7. ASSUME NEW r \in Requests, CompleteRun(r) PROVE Lasts
  BY <1>7 DEF CompleteRun, Dropped, Verdicts
<1>8. CASE Crash
  BY <1>8 DEF Crash
<1>9. ASSUME NEW r \in Requests,
             LoadSources(r) \/ ReadBack(r) \/ \E s \in Sources : Call(r, s) \/ SetSourceResult(r, s)
      PROVE  Lasts
  <2>1. UNCHANGED <<run, pc>> /\ \A q \in Requests : look'[q] = "off" \/ look[q] # "off"
    BY <1>9 DEF LoadSources, ReadBack, AllEnded, Call, SetSourceResult
  <2> QED BY <2>1
<1>10. CASE UNCHANGED vars
  BY <1>10 DEF vars
<1> QED BY <1>1, <1>2, <1>3, <1>4, <1>5, <1>6, <1>7, <1>8, <1>9, <1>10
        DEF Next, Handle, Work

\* While nothing fails and the server does not stop, the response to a bulk
\* request calls triggered the entries that started a lookup and no other, and
\* turns an entry away only from a case that somebody works on
\* (handler.go:201-290), for any list, any pool and any other clients at the
\* same case.
THEOREM BulkIsTruthful ==
    ASSUME ~Faults, MaxCrashes = 0 PROVE ApiSpec => []BulkTruthful
<1>1. ApiInit => BulkInv
  BY DEF ApiInit, Init, BulkInv, HaveRun
<1>2. ASSUME BulkInv, TypeOK, ApiTypeOK, [ApiNext]_apiVars PROVE BulkInv'
  <2>1. /\ HaveRun'
        /\ run' # "none" => run # "none" \/ \E r \in Requests : pc'[r] = "launch"
        /\ \A r \in Requests : Started(r) => Started(r)'
        /\ \A r \in Requests : pc[r] \in Answers => pc'[r] = pc[r]
    <3>1. [Next]_vars
      BY <1>2, ApiStep
    <3> QED BY <1>2, <3>1, AnswersHaveRun DEF BulkInv
  <2>2. HaveRun' /\ (run' # "none" => \E r \in Requests : Started(r)')
    BY <1>2, <2>1 DEF BulkInv, Started
  <2>3. ASSUME NEW i \in Indices, results[i] # ""
        PROVE  \/ pc'[Entries[i]] = "202" /\ results[i] = "triggered"
               \/ pc'[Entries[i]] = "200" /\ results[i] = "complete"
               \/ pc'[Entries[i]] = "error" /\ results[i] = "error"
    <3>1. Entries[i] \in Requests
      BY EntriesAssumption
    <3> QED BY <1>2, <2>1, <2>3, <3>1 DEF BulkInv, Answers
  <2> USE <1>2 DEF BulkInv, bulk, readers
  <2>4. CASE UNCHANGED bulk
    BY <2>2, <2>3, <2>4
  <2>5. CASE BulkEnrich
    BY <2>2, <2>3, <2>5 DEF BulkEnrich
  <2>6. CASE Take
    BY <2>2, <2>3, <2>6 DEF Take
  <2>7. CASE Respond
    BY <2>2, <2>3, <2>7 DEF Respond
  <2>8. ASSUME NEW i \in Indices, Report(i) PROVE BulkInv'
    <3>1. \/ pc'[Entries[i]] = "202" /\ StatusOf(pc[Entries[i]]) = "triggered"
          \/ pc'[Entries[i]] = "200" /\ StatusOf(pc[Entries[i]]) = "complete"
          \/ pc'[Entries[i]] = "error" /\ StatusOf(pc[Entries[i]]) = "error"
      BY <2>8 DEF Report, Returned, StatusOf, vars, handlers
    <3>2. \A j \in Indices : results'[j] = IF j = i THEN StatusOf(pc[Entries[i]]) ELSE results[j]
      BY <2>8 DEF Report, ApiTypeOK
    <3>3. UNCHANGED <<response, jobs>> /\ taken' = taken \ {i}
      BY <2>8 DEF Report
    <3>4. \A j \in Indices : results'[j] # "" =>
             \/ pc'[Entries[j]] = "202" /\ results'[j] = "triggered"
             \/ pc'[Entries[j]] = "200" /\ results'[j] = "complete"
             \/ pc'[Entries[j]] = "error" /\ results'[j] = "error"
      BY <2>3, <3>1, <3>2
    <3>5. \A j \in Indices : results[j] # "" \/ j = i => results'[j] # ""
      BY <3>1, <3>2
    <3> QED BY <2>2, <3>3, <3>4, <3>5
  <2>9. CASE ApiCrash
    BY <2>2, <2>3, <2>9 DEF ApiCrash
  <2> QED BY <1>2, <2>4, <2>5, <2>6, <2>7, <2>8, <2>9
          DEF ApiNext, Trigger, ApiHandle, ApiWork, GetStatus, apiVars
<1>3. BulkInv /\ TypeOK /\ PendingHasOwner => BulkTruthful
  <2> SUFFICES ASSUME BulkInv, TypeOK, PendingHasOwner, response = "sent", NEW i \in Indices
               PROVE  /\ \/ results[i] = "triggered" /\ Started(Entries[i])
                         \/ /\ results[i] \in {"complete", "error"} /\ ~Started(Entries[i])
                            /\ \E r \in Requests : Started(r)
                      /\ \/ run \in Verdicts
                         \/ \E r \in Requests : pc[r] = "launch" \/ look[r] # "off"
    BY DEF BulkTruthful
  <2>1. Entries[i] \in Requests
    BY EntriesAssumption
  <2>2. \/ pc[Entries[i]] = "202" /\ results[i] = "triggered"
        \/ pc[Entries[i]] = "200" /\ results[i] = "complete"
        \/ pc[Entries[i]] = "error" /\ results[i] = "error"
    BY DEF BulkInv
  <2>3. run # "none"
    BY <2>1, <2>2 DEF BulkInv, HaveRun
  <2> QED BY <2>1, <2>2, <2>3 DEF BulkInv, TypeOK, PendingHasOwner, Started
<1> QED BY <1>1, <1>2, <1>3, ApiTypes, ApiPendingOwned, ApiImplementsLookup, TypeCorrect,
           PTL DEF ApiSpec

-----------------------------------------------------------------------------
(* The status that is shown. *)

\* A partial case has data.
PartialHasData == run = "partial" => \E s \in Sources : status[s] = "success"

\* What a reader has read of the run is backed by rows that are final.
ViewInv ==
    /\ PartialHasData
    /\ \A q \in Readers :
          /\ view[q].run = "complete" => run = "complete"
          /\ view[q].run = "partial" => \E s \in Sources : status[s] = "success"
    /\ ViewNotBehind

\* A case becomes partial when a source of it has succeeded.
LEMMA PartialStep ==
    ASSUME ~Overlap, ~Faults, TypeOK, SerialInv, ResultInv, PartialHasData, [Next]_vars
    PROVE  PartialHasData'
<1> USE DEF TypeOK, db, handlers, lookups
<1>1. \A s \in Sources : status[s] = "success" => status'[s] = "success"
  BY StepKeeps DEF Kept
<1>2. ASSUME NEW r \in Requests, CompleteRun(r) PROVE PartialHasData'
  <2>1. /\ run' = look[r] /\ status' = status /\ Outstanding = {}
        /\ look[r] = ComputeOverallStatus(Sources)
    BY <1>2 DEF CompleteRun, Dropped, ResultInv, ProgressInv
  <2>2. look[r] = "partial" => \E s \in Sources : status[s] = "success"
    BY <2>1 DEF ComputeOverallStatus, Outstanding, SourceStatus
  <2> QED BY <2>1, <2>2 DEF PartialHasData
<1>3. ASSUME run' = "partial" => run = "partial" PROVE PartialHasData'
  BY <1>1, <1>3 DEF PartialHasData
<1> QED BY <1>2, <1>3
        DEF Next, Handle, Work, GetLookupRun, GetRetryableSources, MarkComplete, Dropped,
            ResetSource, ResetRunToPending, CreateLookupRun, Launch, LoadSources, ReadBack,
            Call, SetSourceResult, Crash, vars

\* If handlers of the case are served one at a time and statements do not
\* fail, no reader is shown a verdict ahead of its sources, though it reads
\* them in two statements (handler.go:88-118, orchestrator.go:167-199) and the
\* server may stop between any two.
THEOREM ViewIsNotBehind ==
    ASSUME ~Overlap, ~Faults PROVE ApiSpec => []ViewNotBehind
<1>1. ASSUME ApiInit PROVE ViewInv
  <2>1. run = "none" /\ \A q \in Readers : view[q].run = "none" /\ rpc[q] = "run"
    BY <1>1 DEF ApiInit, Init
  <2> QED BY <2>1 DEF ViewInv, PartialHasData, ViewNotBehind
<1>2. ASSUME ViewInv, TypeOK, ApiTypeOK, SerialInv, ResultInv, CompleteMeansResolved,
             [ApiNext]_apiVars
      PROVE  ViewInv'
  <2>1. [Next]_vars
    BY <1>2, ApiStep
  <2>2. PartialHasData'
    BY <1>2, <2>1, PartialStep DEF ViewInv
  <2>3. /\ run = "complete" => run' = "complete"
        /\ \A s \in Sources : status[s] = "success" => status'[s] = "success"
    BY <1>2, <2>1, StepKeeps DEF Kept
  <2>4. ASSUME \A q \in Readers :
                  /\ view'[q] = view[q]
                  /\ rpc'[q] = "shown" => rpc[q] = "shown"
        PROVE  ViewInv'
    BY <1>2, <2>2, <2>3, <2>4 DEF ViewInv, ViewNotBehind
  <2>5. ASSUME NEW q \in Readers, GetStatus(q) PROVE ViewInv'
    <3>1. UNCHANGED <<run, status>>
      BY <2>5 DEF GetStatus, vars, db
    <3>2. \A p \in Readers : p # q => view'[p] = view[p] /\ rpc'[p] = rpc[p]
      BY <1>2, <2>5 DEF GetStatus, ApiTypeOK
    <3>3. CASE rpc'[q] = "sources" /\ view'[q].run = run
      BY <1>2, <2>2, <3>1, <3>2, <3>3 DEF ViewInv, PartialHasData, ViewNotBehind
    <3>4. CASE view'[q].run = view[q].run /\ view'[q].rows = status
      <4>1. DOMAIN status = Sources
        BY <1>2 DEF TypeOK
      <4>2. run = "complete" =>
               \A s \in Sources : view'[q].rows[s] \in {"success", "not_applicable"}
        BY <1>2, <3>4 DEF CompleteMeansResolved
      <4>3. view[q].run = "partial" => \E s \in Sources : view'[q].rows[s] = "success"
        BY <1>2, <3>4 DEF ViewInv
      <4> QED BY <1>2, <2>2, <3>1, <3>2, <3>4, <4>1, <4>2, <4>3 DEF ViewInv, ViewNotBehind
    <3>5. \/ rpc'[q] = "sources" /\ view'[q].run = run
          \/ view'[q].run = view[q].run /\ view'[q].rows = status
      <4>1. CASE /\ rpc' = [rpc EXCEPT ![q] = "sources"]
                 /\ view' = [view EXCEPT ![q].run = run]
        BY <1>2, <4>1 DEF ApiTypeOK
      <4>2. ASSUME NEW S \in Select(Sources),
                   view' = [view EXCEPT ![q].rows = [s \in S |-> status[s]]]
            PROVE  view'[q].run = view[q].run /\ view'[q].rows = status
        <5>1. [s \in S |-> status[s]] = status
          BY <1>2, SelectExact DEF TypeOK
        <5>2. view' = [view EXCEPT ![q].rows = status]
          BY <4>2, <5>1, Zenon
        <5> QED BY <1>2, <5>2 DEF ApiTypeOK
      <4> QED BY <2>5, <4>1, <4>2 DEF GetStatus
    <3> QED BY <3>3, <3>4, <3>5
  <2>6. CASE ApiCrash
    BY <2>4, <2>6 DEF ApiCrash
  <2>7. CASE UNCHANGED readers
    BY <2>4, <2>7 DEF readers
  <2> QED BY <1>2, <2>5, <2>6, <2>7
          DEF ApiNext, Trigger, ApiHandle, ApiWork, BulkEnrich, Take, Respond, Report, apiVars
<1>3. ViewInv => ViewNotBehind
  BY DEF ViewInv
<1> QED BY <1>1, <1>2, <1>3, ApiTypes, ApiImplementsLookup, TypeCorrect, SerialInvariant,
           ResultInvariant, CompleteIsResolved, PTL DEF ApiSpec
=============================================================================
