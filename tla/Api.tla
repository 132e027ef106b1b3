--------------------------------- MODULE Api ---------------------------------
(***************************************************************************)
(* The HTTP handlers around the lookup of a case (api/handler.go).         *)
(* LookupCase is a request of module Lookup by itself.  BulkEnrich runs    *)
(* requests in a pool of goroutines that take jobs from a channel, and     *)
(* answers when all are done; an entry with another case only keeps a      *)
(* worker busy for a while, so the entries are those with this case.       *)
(* GetLookupStatus reads the run and its sources in two statements while   *)
(* handlers and lookups go on.                                             *)
(*                                                                         *)
(* A reader that is told of an error, or of no run, learns nothing and is  *)
(* as one that does not go on.  ListCases makes the first of the two reads *)
(* only.                                                                   *)
(***************************************************************************)
EXTENDS Lookup, FiniteSets

CONSTANTS
    Entries,        \* the caseIds of one bulk request: for each index, the
                    \* request of Lookup that the entry becomes
    Pool,           \* the most workers a bulk request has
    Readers         \* clients that ask for the enrichment, each once

Indices == DOMAIN Entries

ASSUME EntriesAssumption ==
    /\ Indices \subseteq Nat /\ Entries \in [Indices -> Requests]
    /\ \A i, j \in Indices : Entries[i] = Entries[j] => i = j
ASSUME PoolAssumption == Pool \in Nat \ {0}

VARIABLES
    response,       \* of the bulk request: "none" before it arrives, "open"
                    \* while it is served, "sent" or "lost"
    jobs,           \* bulk: the indices in the channel
    taken,          \* bulk: the indices that its workers are busy with
    results,        \* bulk: what is to be said of each entry, "" at first
    rpc,            \* reader: its next read, or "shown"
    view            \* reader: the status of the run it has read, and that
                    \* of each source it has read

bulk == <<response, jobs, taken, results>>
readers == <<rpc, view>>
apiVars == <<vars, bulk, readers>>

Bulked(r) == \E i \in Indices : Entries[i] = r

Statuses == {"triggered", "complete", "error"}

\* What a reader can have of lookup_sources: some rows, each with its status.
Rows == UNION {[S -> SourceStatus] : S \in SUBSET Sources}
Unread == [s \in {} |-> "pending"]

ApiTypeOK ==
    /\ response \in {"none", "open", "sent", "lost"}
    /\ jobs \subseteq Indices /\ taken \subseteq Indices
    /\ results \in [Indices -> {""} \cup Statuses]
    /\ rpc \in [Readers -> {"run", "sources", "shown"}]
    /\ view \in [Readers -> [run : {"none", "pending"} \cup Verdicts, rows : Rows]]

ApiInit ==
    /\ Init
    /\ response = "none"
    /\ jobs = {} /\ taken = {}
    /\ results = [i \in Indices |-> ""]
    /\ rpc = [q \in Readers |-> "run"]
    /\ view = [q \in Readers |-> [run |-> "none", rows |-> Unread]]

-----------------------------------------------------------------------------
(* BulkEnrich. *)

\* The request is decoded; an empty list is refused.  The channel holds all
\* jobs, so filling it and closing it never waits.
BulkEnrich ==
    /\ response = "none" /\ Indices # {}
    /\ response' = "open"
    /\ jobs' = Indices
    /\ UNCHANGED <<vars, taken, results, readers>>

\* idx := range jobs, in one of min(Pool, n) workers.
Take ==
    /\ response = "open"
    /\ Cardinality(taken) < Pool
    /\ \E i \in jobs :
          /\ \A j \in jobs : i <= j
          /\ jobs' = jobs \ {i}
          /\ taken' = taken \cup {i}
    /\ UNCHANGED <<vars, response, results, readers>>

\* Mutant: the answer itself.
StatusOf_Answer(answer) == answer

\* Mutant: whatever is not an error has been triggered.
StatusOf_AllTriggered(answer) == IF answer = "error" THEN "error" ELSE "triggered"

\* The switch on err and code.
StatusOf(answer) == CASE answer = "error" -> "error"
                      [] answer = "200" -> "complete"
                      [] answer = "202" -> "triggered"

\* TriggerLookup has returned to the worker.
Returned(i) == i \in taken /\ pc[Entries[i]] \in {"200", "202", "error"}

\* Mutant: a worker that meets an error never gets to the next job.
Report_EndsAtError(i) ==
    /\ Returned(i) /\ results[i] = ""
    /\ results' = [results EXCEPT ![i] = StatusOf(pc[Entries[i]])]
    /\ taken' = IF pc[Entries[i]] = "error" THEN taken ELSE taken \ {i}
    /\ UNCHANGED <<vars, response, jobs, readers>>

\* results[idx] = cr, and the worker is free for the next job.
Report(i) ==
    /\ Returned(i)
    /\ results' = [results EXCEPT ![i] = StatusOf(pc[Entries[i]])]
    /\ taken' = taken \ {i}
    /\ UNCHANGED <<vars, response, jobs, readers>>

\* wg.Wait() returns, and the 202 is written.
Respond ==
    /\ response = "open" /\ jobs = {} /\ taken = {}
    /\ response' = "sent"
    /\ UNCHANGED <<vars, jobs, taken, results, readers>>

\* A request that is an entry of the bulk request begins in its worker.
Trigger(r) ==
    /\ \A i \in Indices : Entries[i] = r => i \in taken
    /\ GetLookupRun(r)
    /\ UNCHANGED <<bulk, readers>>

-----------------------------------------------------------------------------
(* GetStatus. *)

\* Mutant: the sources are read first.
GetStatus_SourcesFirst(q) ==
    /\ \/ /\ rpc[q] = "run"
          /\ rpc' = [rpc EXCEPT ![q] = "sources"]
          /\ view' = [view EXCEPT ![q].rows = status]
       \/ /\ rpc[q] = "sources"
          /\ rpc' = [rpc EXCEPT ![q] = "shown"]
          /\ view' = [view EXCEPT ![q].run = run]
    /\ UNCHANGED <<vars, bulk>>

\* GetLookupRunByCaseID, then GetSourcesByRunID if there is a run.
GetStatus(q) ==
    /\ \/ /\ rpc[q] = "run" /\ run # "none"
          /\ rpc' = [rpc EXCEPT ![q] = "sources"]
          /\ view' = [view EXCEPT ![q].run = run]
       \/ /\ rpc[q] = "sources"
          /\ rpc' = [rpc EXCEPT ![q] = "shown"]
          /\ \E S \in Select(Sources) :
                view' = [view EXCEPT ![q].rows = [s \in S |-> status[s]]]
    /\ UNCHANGED <<vars, bulk>>

-----------------------------------------------------------------------------

\* A stop takes the handlers with it.
ApiCrash ==
    /\ Crash
    /\ response' = IF response = "open" THEN "lost" ELSE response
    /\ jobs' = {} /\ taken' = {}
    /\ rpc' = [q \in Readers |-> IF rpc[q] = "sources" THEN "run" ELSE rpc[q]]
    /\ UNCHANGED <<results, view>>

ApiHandle(r) == Handle(r) /\ UNCHANGED <<bulk, readers>>
ApiWork(r) == Work(r) /\ UNCHANGED <<bulk, readers>>

ApiNext == \/ \E r \in Requests : Trigger(r) \/ ApiHandle(r) \/ ApiWork(r)
           \/ BulkEnrich \/ Take \/ Respond
           \/ \E i \in Indices : Report(i)
           \/ \E q \in Readers : GetStatus(q)
           \/ ApiCrash

ApiSpec == ApiInit /\ [][ApiNext]_apiVars

\* What Lookup assumes, and that goroutines of the pool keep running, with the
\* requests they have begun.
ApiFairness ==
    /\ Fairness
    /\ WF_apiVars(Take) /\ WF_apiVars(Respond)
    /\ \A i \in Indices : WF_apiVars(Report(i))
    /\ \A r \in Requests : Bulked(r) => WF_apiVars(Trigger(r))

ApiFairSpec == ApiSpec /\ ApiFairness

-----------------------------------------------------------------------------

\* A lookup that runs, or that a handler is about to start, was started by r.
Started(r) == pc[r] \in {"launch", "202"}

\* "Returns 202 with per-case status" (handler.go:201): the words of the
\* response keep the entries apart even if the others, or other clients, are at
\* the same case.  An entry is called triggered if and only if its own trigger
\* has started a lookup; if it is called complete, or an error, somebody else's
\* has, so no entry is turned away from a case that nobody works on; and
\* whatever is said, the case has a verdict or a lookup that will give it one.
\* ("complete" does not say that the case is complete, nor even that its lookup
\* has ended: a pending run answers 200 too.  A stop may undo the rest.)
BulkTruthful ==
    response = "sent" =>
        \A i \in Indices :
            /\ \/ results[i] = "triggered" /\ Started(Entries[i])
               \/ /\ results[i] \in {"complete", "error"} /\ ~Started(Entries[i])
                  /\ \E r \in Requests : Started(r)
            /\ \/ run \in Verdicts
               \/ \E r \in Requests : pc[r] = "launch" \/ look[r] # "off"

\* The response knows "complete" and "pending" (handler.go:217), and a pending
\* run is "already in progress" (orchestrator.go:74): a case that the response
\* to a bulk request calls complete has its verdict, or at least gets it.
CompleteSettles == \A i \in Indices :
    (response = "sent" /\ results[i] = "complete") ~> run \in Verdicts

\* A bulk request is answered, or lost in a stop: no entry, whatever becomes
\* of it, keeps a worker of the pool.
BulkResponds == response = "open" ~> response # "open"

\* The status shown for a case is never ahead of the sources shown with it: a
\* case shown as complete is shown with all its data, and one shown as partial
\* with some, although the two are read in two statements and lookups go on in
\* between.  (The other way round they may differ: a run can be shown as
\* failed with the data of the retry that followed.)
ViewNotBehind == \A q \in Readers :
    rpc[q] = "shown" =>
        /\ view[q].run = "complete" =>
              /\ DOMAIN view[q].rows = Sources
              /\ \A s \in Sources : view[q].rows[s] \in {"success", "not_applicable"}
        /\ view[q].run = "partial" =>
              \E s \in DOMAIN view[q].rows : view[q].rows[s] = "success"
=============================================================================
