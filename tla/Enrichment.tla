----------------------------- MODULE Enrichment -----------------------------
(***************************************************************************)
(* What the gateway promises about the enrichment of one case, with no     *)
(* handlers, goroutines or rows: the idempotency rules above TriggerLookup *)
(* (orchestrator.go:71-75) and the status rules above computeOverallStatus *)
(* (orchestrator.go:276-279).  Module Lookup is shown to implement it.     *)
(***************************************************************************)
EXTENDS Naturals

CONSTANTS
    Sources,        \* property_records, court_records, scra
    Applicable      \* the sources that apply to the case

VARIABLES
    phase,          \* the status a client is told: none, pending or a verdict
    result          \* what is known of each source: "open" until it settles

abstract == <<phase, result>>

Settled == {"success", "failed", "not_applicable"}

Init == /\ phase = "none"
        /\ result = [s \in Sources |-> "open"]

\* The first trigger of the case.
Start == /\ phase = "none"
         /\ phase' = "pending"
         /\ UNCHANGED result

\* A source settles, once, while the case is pending.
Settle(s) ==
    /\ phase = "pending"
    /\ result[s] = "open"
    /\ \E v \in IF s \in Applicable THEN {"success", "failed"} ELSE {"not_applicable"} :
          result' = [result EXCEPT ![s] = v]
    /\ UNCHANGED phase

Succeeded == {s \in Sources : result[s] = "success"}
Failed == {s \in Sources : result[s] = "failed"}

Verdict == IF Failed = {} THEN "complete"
           ELSE IF Succeeded = {} THEN "failed"
           ELSE "partial"

\* When every source has settled the case gets the verdict they add up to.
Finish ==
    /\ phase = "pending"
    /\ \A s \in Sources : result[s] \in Settled
    /\ phase' = Verdict
    /\ UNCHANGED result

\* A later trigger of a case that did not complete: its failed sources, and
\* only they, are tried again.
Retry ==
    /\ phase \in {"partial", "failed"}
    /\ phase' = "pending"
    /\ result' = [s \in Sources |-> IF s \in Failed THEN "open" ELSE result[s]]

Next == Start \/ Finish \/ Retry \/ \E s \in Sources : Settle(s)

Spec == Init /\ [][Next]_abstract
=============================================================================
