------------------------------- MODULE Lookup -------------------------------
(***************************************************************************)
(* The lookup of one case: its rows in lookup_runs and lookup_sources, the *)
(* handlers of POST /cases/{id}/enrich that run TriggerLookup, and the     *)
(* goroutines those start (runLookup and one processSource per source).    *)
(*                                                                         *)
(* A database statement is one atomic step; everything a handler or a      *)
(* goroutine remembers between two statements is in its own variables.     *)
(* What a worker does between its first call of a service and its last     *)
(* (breaker, limiter, retries, polling) shows here only as a number of     *)
(* calls and a verdict.                                                    *)
(***************************************************************************)
EXTENDS Naturals

CONSTANTS
    Sources,        \* the sources, numbered in the order of ORDER BY source
    Applicable,     \* those that apply to the case (court_records does not
                    \* when the case has no court case number)
    Requests,       \* the triggers that clients may send, each once
    AttemptLimit,   \* bound: calls one worker makes of its service
    Overlap,        \* whether handlers for the case run at the same time
    Faults,         \* whether database statements can fail
    MaxCrashes      \* bound: how often the process stops and is restarted

ASSUME SourcesAssumption == Sources \subseteq Nat /\ Applicable \subseteq Sources
ASSUME ModeAssumption == Overlap \in BOOLEAN /\ Faults \in BOOLEAN
ASSUME BoundsAssumption == AttemptLimit \in Nat /\ MaxCrashes \in Nat

VARIABLES
    run,            \* lookup_runs.status, or "none" before the row exists
    status,         \* lookup_sources.status of each source
    attempts,       \* lookup_sources.attempts of each source
    pc,             \* handler: its next statement, or the answer it gave
    ids,            \* handler: the rows it has still to reset
    look,           \* runLookup: "off", its next step, or the overall status
                    \* it has computed and is about to write
    busy,           \* runLookup: the sources its workers are processing
    base,           \* worker: src.Attempts as it was loaded
    made,           \* worker: the calls it has made
    calls,          \* history: calls made of each source's service
    crashes

db == <<run, status, attempts>>
handlers == <<pc, ids>>
lookups == <<look, busy, base, made>>
vars == <<db, handlers, lookups, calls, crashes>>

SourceStatus == {"pending", "success", "failed", "not_applicable"}
Verdicts == {"complete", "partial", "failed"}
Handling == {"retryable", "mark", "reset", "resetRun", "create", "launch"}
Answers == {"200", "202", "error", "lost"}

TypeOK ==
    /\ run \in {"none", "pending"} \cup Verdicts
    /\ status \in [Sources -> SourceStatus]
    /\ attempts \in [Sources -> Nat]
    /\ pc \in [Requests -> {"idle"} \cup Handling \cup Answers]
    /\ ids \in [Requests -> SUBSET Sources]
    /\ look \in [Requests -> {"off", "load", "fetch"} \cup Verdicts]
    /\ busy \in [Requests -> SUBSET Sources]
    /\ base \in [Requests -> [Sources -> Nat]]
    /\ made \in [Requests -> [Sources -> Nat]]
    /\ calls \in [Sources -> Nat]
    /\ crashes \in Nat

Init ==
    /\ run = "none"
    /\ status = [s \in Sources |-> "pending"]
    /\ attempts = [s \in Sources |-> 0]
    /\ pc = [r \in Requests |-> "idle"]
    /\ ids = [r \in Requests |-> {}]
    /\ look = [r \in Requests |-> "off"]
    /\ busy = [r \in Requests |-> {}]
    /\ base = [r \in Requests |-> [s \in Sources |-> 0]]
    /\ made = [r \in Requests |-> [s \in Sources |-> 0]]
    /\ calls = [s \in Sources |-> 0]
    /\ crashes = 0

-----------------------------------------------------------------------------
(* The store. *)

\* What a SELECT ... ORDER BY source over the rows S can return: all of them
\* or, as rows.Err() is never looked at, only those before the first row that
\* the connection failed to deliver.
Select(S) == {S} \cup IF Faults THEN {{s \in S : s < t} : t \in S} ELSE {}

\* What an UPDATE whose error nobody looks at can leave in place of `old'.
Dropped(old, new) == {new} \cup IF Faults THEN {old} ELSE {}

\* Mutant: WHERE status <> 'not_applicable'.
Retryable_Finished == {s \in Sources : status[s] # "not_applicable"}

\* WHERE status IN ('pending', 'failed')
Retryable == {s \in Sources : status[s] \in {"pending", "failed"}}

\* Mutant: "complete" as soon as one applicable source succeeded.
ComputeOverallStatus_AnySucceeded(S) ==
    LET applicable == {s \in S : status[s] # "not_applicable"}
    IN  IF \E s \in applicable : status[s] = "success" THEN "complete"
        ELSE IF \A s \in applicable : status[s] = "failed" THEN "failed"
        ELSE "partial"

\* Mutant: "failed" as soon as one applicable source failed.
ComputeOverallStatus_AnyFailed(S) ==
    LET applicable == {s \in S : status[s] # "not_applicable"}
    IN  IF \A s \in applicable : status[s] = "success" THEN "complete"
        ELSE IF \E s \in applicable : status[s] = "failed" THEN "failed"
        ELSE "partial"

\* Mutant: the name of a source's status for the run's.
ComputeOverallStatus_SourceWord(S) ==
    IF \A s \in S : status[s] \in {"success", "not_applicable"} THEN "success"
    ELSE IF \A s \in S : status[s] # "success" THEN "failed"
    ELSE "partial"

\* computeOverallStatus of the rows S.
ComputeOverallStatus(S) ==
    LET applicable == {s \in S : status[s] # "not_applicable"}
    IN  IF \A s \in applicable : status[s] = "success" THEN "complete"
        ELSE IF \A s \in applicable : status[s] = "failed" THEN "failed"
        ELSE "partial"

-----------------------------------------------------------------------------
(* TriggerLookup, one action per statement. *)

\* Mutant: a pending run is resumed.
NextStep_ResumesPending(s) ==
    CASE s = "none" -> "create"
      [] s = "complete" -> "200"
      [] s \in {"pending", "partial", "failed"} -> "retryable"

\* The switch on run.Status.
NextStep(s) ==
    CASE s = "none" -> "create"
      [] s \in {"complete", "pending"} -> "200"
      [] s \in {"partial", "failed"} -> "retryable"

\* GetCaseByID, GetLookupRunByCaseID and GetSourcesByRunID.  The case never
\* changes and the sources read here go into the response only, so the run's
\* status is all that the handler carries on.
GetLookupRun(r) ==
    /\ pc[r] = "idle"
    /\ Overlap \/ \A q \in Requests : pc[q] \notin Handling
    /\ \E next \in {NextStep(run)} \cup (IF Faults THEN {"error"} ELSE {}) :
          pc' = [pc EXCEPT ![r] = next]
    /\ UNCHANGED <<db, ids, lookups, calls, crashes>>

GetRetryableSources(r) ==
    /\ pc[r] = "retryable"
    /\ \/ \E S \in Select(Retryable) :
             /\ ids' = [ids EXCEPT ![r] = S]
             /\ pc' = [pc EXCEPT ![r] = IF S = {} THEN "mark" ELSE "reset"]
       \/ /\ Faults
          /\ pc' = [pc EXCEPT ![r] = "error"]
          /\ UNCHANGED ids
    /\ UNCHANGED <<db, lookups, calls, crashes>>

\* "Everything succeeded somehow": CompleteRun, whose error is dropped.
MarkComplete(r) ==
    /\ pc[r] = "mark"
    /\ run' \in Dropped(run, "complete")
    /\ pc' = [pc EXCEPT ![r] = "200"]
    /\ UNCHANGED <<status, attempts, ids, lookups, calls, crashes>>

\* One UPDATE of the loop in ResetSourcesToPending.  A statement that returns
\* an error may have been committed all the same.
ResetSource(r) ==
    /\ pc[r] = "reset"
    /\ \E s \in ids[r] :
          /\ \A t \in ids[r] : s <= t
          /\ \/ /\ status' = [status EXCEPT ![s] = "pending"]
                /\ ids' = [ids EXCEPT ![r] = ids[r] \ {s}]
                /\ pc' = [pc EXCEPT ![r] = IF ids[r] = {s} THEN "resetRun" ELSE "reset"]
             \/ /\ Faults
                /\ status' \in {status, [status EXCEPT ![s] = "pending"]}
                /\ pc' = [pc EXCEPT ![r] = "error"]
                /\ UNCHANGED ids
    /\ UNCHANGED <<run, attempts, lookups, calls, crashes>>

\* Mutant: the run keeps its old verdict while its sources are retried.
ResetRunToPending_Skipped(r) ==
    /\ pc[r] = "resetRun"
    /\ pc' = [pc EXCEPT ![r] = "launch"]
    /\ UNCHANGED <<db, ids, lookups, calls, crashes>>

ResetRunToPending(r) ==
    /\ pc[r] = "resetRun"
    /\ \/ run' = "pending" /\ pc' = [pc EXCEPT ![r] = "launch"]
       \/ /\ Faults
          /\ run' \in {run, "pending"}
          /\ pc' = [pc EXCEPT ![r] = "error"]
    /\ UNCHANGED <<status, attempts, ids, lookups, calls, crashes>>

\* CreateLookupRun: one transaction, which UNIQUE (case_id) makes fail when
\* another handler has inserted the run meanwhile.
CreateLookupRun(r) ==
    /\ pc[r] = "create"
    /\ \/ /\ run = "none"
          /\ run' = "pending"
          /\ pc' = [pc EXCEPT ![r] = "launch"]
       \/ /\ run # "none" \/ Faults
          /\ run' \in IF run = "none" THEN {"none", "pending"} ELSE {run}
          /\ pc' = [pc EXCEPT ![r] = "error"]
    /\ UNCHANGED <<status, attempts, ids, lookups, calls, crashes>>

\* go o.runLookup(*c, *run), and the 202.
Launch(r) ==
    /\ pc[r] = "launch"
    /\ pc' = [pc EXCEPT ![r] = "202"]
    /\ look' = [look EXCEPT ![r] = "load"]
    /\ UNCHANGED <<db, ids, busy, base, made, calls, crashes>>

-----------------------------------------------------------------------------
(* runLookup and its workers. *)

\* Mutant: a source that succeeded is fetched again.
NeedsWork_Succeeded(s) == status[s] # "not_applicable"

\* "Skip sources that are already resolved."
NeedsWork(s) == status[s] \notin {"not_applicable", "success"}

\* A worker for each source left to do; an error ends the goroutine.
LoadSources(r) ==
    /\ look[r] = "load"
    /\ \/ \E S \in Select(Sources) :
             /\ look' = [look EXCEPT ![r] = "fetch"]
             /\ busy' = [busy EXCEPT ![r] = {s \in S : NeedsWork(s)}]
             /\ base' = [base EXCEPT ![r] = attempts]
             /\ made' = [made EXCEPT ![r] = [s \in Sources |-> 0]]
       \/ /\ Faults
          /\ look' = [look EXCEPT ![r] = "off"]
          /\ UNCHANGED <<busy, base, made>>
    /\ UNCHANGED <<db, handlers, calls, crashes>>

\* One outbound call of a worker: Fetch, Search, SubmitSearch or PollResult.
Call(r, s) ==
    /\ s \in busy[r] \cap Applicable
    /\ made[r][s] < AttemptLimit
    /\ made' = [made EXCEPT ![r][s] = made[r][s] + 1]
    /\ calls' = [calls EXCEPT ![s] = calls[s] + 1]
    /\ UNCHANGED <<db, handlers, look, busy, base, crashes>>

\* A worker fails without a call when the breaker is open.
Outcomes(r, s) ==
    IF s \notin Applicable THEN {"not_applicable"}
    ELSE IF made[r][s] = 0 THEN {"failed"}
    ELSE {"success", "failed"}

\* Mutant: src.Attempts is forgotten.
RecordedAttempts_ThisLookup(r, s) == made[r][s]

\* Mutant: the first attempt is counted twice.
RecordedAttempts_OneTooMany(r, s) == base[r][s] + made[r][s] + 1

\* src.Attempts + attempts
RecordedAttempts(r, s) == base[r][s] + made[r][s]

\* The worker's last statement; its error is dropped.
SetSourceResult(r, s) ==
    /\ s \in busy[r]
    /\ busy' = [busy EXCEPT ![r] = busy[r] \ {s}]
    /\ \/ \E v \in Outcomes(r, s) :
             /\ status' = [status EXCEPT ![s] = v]
             /\ attempts' = [attempts EXCEPT ![s] = RecordedAttempts(r, s)]
       \/ /\ Faults
          /\ UNCHANGED <<status, attempts>>
    /\ UNCHANGED <<run, handlers, look, base, made, calls, crashes>>

\* Mutant: the goroutine does not wait for its workers.
AllEnded_NoWait(r) == look[r] = "fetch"

\* g.Wait() returns.
AllEnded(r) == look[r] = "fetch" /\ busy[r] = {}

\* The second GetSourcesByRunID.  Its error is dropped and leaves no rows, as
\* a read cut off before the first row does.
ReadBack(r) ==
    /\ AllEnded(r)
    /\ \E S \in Select(Sources) :
          look' = [look EXCEPT ![r] = ComputeOverallStatus(S)]
    /\ UNCHANGED <<db, handlers, busy, base, made, calls, crashes>>

\* Mutant: a lookup that failed altogether is not written.
CompleteRun_NotFailed(r) ==
    /\ look[r] \in Verdicts
    /\ run' = IF look[r] = "failed" THEN run ELSE look[r]
    /\ look' = [look EXCEPT ![r] = "off"]
    /\ UNCHANGED <<status, attempts, handlers, busy, base, made, calls, crashes>>

\* CompleteRun, whose error is dropped; the goroutine ends.
CompleteRun(r) ==
    /\ look[r] \in Verdicts
    /\ run' \in Dropped(run, look[r])
    /\ look' = [look EXCEPT ![r] = "off"]
    /\ UNCHANGED <<status, attempts, handlers, busy, base, made, calls, crashes>>

-----------------------------------------------------------------------------

\* The process stops, killed or shut down (srv.Shutdown waits for handlers
\* but not for lookups), and starts again: the rows are all that is left, and
\* nothing in main.go looks at them.
Crash ==
    /\ crashes < MaxCrashes
    /\ crashes' = crashes + 1
    /\ pc' = [r \in Requests |-> IF pc[r] \in Handling THEN "lost" ELSE pc[r]]
    /\ look' = [r \in Requests |-> "off"]
    /\ busy' = [r \in Requests |-> {}]
    /\ UNCHANGED <<db, ids, base, made, calls>>

Handle(r) == \/ GetRetryableSources(r) \/ MarkComplete(r)
             \/ ResetSource(r) \/ ResetRunToPending(r)
             \/ CreateLookupRun(r) \/ Launch(r)

Work(r) == \/ LoadSources(r) \/ ReadBack(r) \/ CompleteRun(r)
           \/ \E s \in Sources : Call(r, s) \/ SetSourceResult(r, s)

Next == \/ \E r \in Requests : GetLookupRun(r) \/ Handle(r) \/ Work(r)
        \/ Crash

Spec == Init /\ [][Next]_vars

\* A handler and a goroutine that have started keep running: statements and
\* calls have deadlines and retry loops a last attempt, so each worker gets
\* to its SetSourceResult.  No trigger need arrive and no crash need happen.
Fairness == \A r \in Requests :
    /\ WF_vars(Handle(r))
    /\ WF_vars(LoadSources(r) \/ ReadBack(r) \/ CompleteRun(r))
    /\ \A s \in Sources : WF_vars(SetSourceResult(r, s))

FairSpec == Spec /\ Fairness
-----------------------------------------------------------------------------
(* Safety. *)

Idle == \A r \in Requests : pc[r] \notin Handling /\ look[r] = "off"

\* A case is never reported complete while a source of it failed or is still
\* open (orchestrator.go:276): "complete" is final, so nobody would look again.
CompleteMeansResolved ==
    run = "complete" =>
        \A s \in Sources : status[s] \in {"success", "not_applicable"}

\* Whenever nothing is running and every row is settled, the run's verdict is
\* the one its rows add up to (APPROACH.md: "the authoritative persisted
\* state").  A handler that stopped between two resets leaves rows unsettled.
StatusMatchesRows ==
    /\ Idle /\ run \in Verdicts
    /\ \A s \in Sources : status[s] # "pending"
    => run = ComputeOverallStatus(Sources)

\* Whenever a case rests with a verdict, a row's attempts are the calls that
\* were made of its service, over all the lookups there have been
\* (README.md: "full attempt history").
AttemptsExact ==
    Idle /\ run \in Verdicts => \A s \in Sources : attempts[s] = calls[s]

\* A row never claims more attempts than were made, whatever overlaps, fails
\* or crashes.
AttemptsNeverOvercount == \A s \in Sources : attempts[s] <= calls[s]

\* At most one lookup of the case is in progress, as the rule that a pending
\* run is not triggered again intends (orchestrator.go:74).
OneLookup == \A q, r \in Requests :
    look[q] # "off" /\ look[r] # "off" => q = r

\* "Pending run -> return current state (already in progress)"
\* (orchestrator.go:74): a pending run has a lookup in progress, or one that a
\* handler is about to start.
PendingHasOwner ==
    run = "pending" =>
        \E r \in Requests : pc[r] = "launch" \/ look[r] # "off"

(* What a step may never do. *)

\* What has been found stays found: a source's success and a case's
\* completion are never undone.
SuccessIsFinal ==
    [][/\ run = "complete" => run' = "complete"
       /\ \A s \in Sources : status[s] = "success" => status'[s] = "success"]_vars

\* "re-triggering enrichment only resets rows in failed or pending state"
\* (APPROACH.md): no row that succeeded goes back to pending.
ResetsOnlyRetryable ==
    [][\A s \in Sources : status[s] = "success" => status'[s] # "pending"]_vars

\* A service is only called for a source that still needs it: a settled
\* source costs no further call (README.md: "retries only failed sources").
CallsOnlyUnresolved ==
    [][\A s \in Sources :
          calls'[s] # calls[s] => status[s] \notin {"success", "not_applicable"}]_vars

(* Liveness. *)

\* A pending run gets its verdict.
PendingSettles == run = "pending" ~> run # "pending"

(* Refinement. *)

\* The abstract case.  A row that was reset while the run still has its old
\* verdict counts as failed until the run is pending again.
Case == INSTANCE Enrichment WITH
    phase  <- run,
    result <- [s \in Sources |->
                  IF status[s] # "pending" THEN status[s]
                  ELSE IF run \in {"partial", "failed"} THEN "failed"
                  ELSE "open"]

\* Handlers, goroutines and rows implement Enrichment.
EnrichmentRefined == Case!Spec
=============================================================================
