------------------------------- MODULE Startup -------------------------------
(***************************************************************************)
(* How servers bring up the database they share: RunMigrations and then    *)
(* seed.Cases (store/db.go, seed/seed.go, called by main.go), and beside   *)
(* them an operator with scripts/migration.sh, which keeps the same books  *)
(* in schema_version but not in the same way.                              *)
(*                                                                         *)
(* A server applies a file and records it in one transaction.  The script  *)
(* sends the file's statements one by one through psql, which goes on      *)
(* after an error, of whatever kind, and then exits with 0, and records    *)
(* the file afterwards as a success.                                       *)
(*                                                                         *)
(* 001_schema_version.sql creates what both have just created and is left  *)
(* out.                                                                    *)
(***************************************************************************)
EXTENDS Naturals

CONSTANTS
    Servers,
    Files,          \* the migrations, numbered in the order of their names
    Creates,        \* the tables and indexes that each file creates, numbered
                    \* in the order of its statements
    Requires,       \* what must exist before each of those can be created
    Cases,          \* the table that is seeded
    Operators,      \* who may run the script: "none"; "runAll", who calls
                    \* run-all; "picks", who may also run a file by itself
    MayFail,        \* whose statements may fail for a reason that is not in
                    \* the schema: a full disk, a timeout, a missing permission
    MaxFaults       \* bound: such statements, stops of a server, reads that
                    \* are cut off

Objects == UNION {Creates[f] : f \in Files}

ASSUME FilesAssumption ==
    /\ Files \subseteq Nat
    /\ Creates \in [Files -> SUBSET Nat]
    /\ Requires \in [Objects -> SUBSET Objects]
    /\ Cases \in Objects
\* The files are consistent: applied in order to an empty database they work.
ASSUME OrderAssumption ==
    /\ \A f, g \in Files : f # g => Creates[f] \cap Creates[g] = {}
    /\ \A f \in Files : \A o \in Creates[f] : \A p \in Requires[o] :
          p < o /\ \E g \in Files : g <= f /\ p \in Creates[g]
ASSUME BoundAssumption == MaxFaults \in Nat
ASSUME OperatorsAssumption == /\ Operators \subseteq {"none", "runAll", "picks"}
                              /\ MayFail \subseteq {"server", "script"}

VARIABLES
    objects,        \* the tables and indexes that exist
    version,        \* schema_version.status of each file, or "none"
    seeded,         \* whether cases has rows
    pc,             \* server: its next step
    todo,           \* server: the files it has still to run
    operator,       \* who runs the script, chosen once
    cli,            \* script: its next step
    batch,          \* script: the files it has still to look at
    left,           \* script: what psql has still to create from the file
    skipped,        \* history: the files of which psql has left out a statement
                    \* that failed for such a reason
    broken,         \* history: the files of which the last run, if nobody cut
                    \* it short, had a statement that failed
    faults

database == <<objects, version, seeded>>
server == <<pc, todo>>
script == <<operator, cli, batch, left>>
history == <<skipped, broken>>
vars == <<database, server, script, history, faults>>

TypeOK ==
    /\ objects \subseteq Objects
    /\ version \in [Files -> {"none", "success", "failed"}]
    /\ seeded \in BOOLEAN
    /\ pc \in [Servers -> {"down", "check", "list", "migrate", "insert", "up"}]
    /\ todo \in [Servers -> SUBSET Files]
    /\ operator \in Operators
    /\ cli \in {"idle", "check", "psql"}
    /\ batch \subseteq Files /\ left \subseteq Objects
    /\ skipped \subseteq Files /\ broken \subseteq Files
    /\ faults \in Nat

Init ==
    /\ objects = {} /\ seeded = FALSE
    /\ version = [f \in Files |-> "none"]
    /\ pc = [s \in Servers |-> "down"]
    /\ todo = [s \in Servers |-> {}]
    /\ operator \in Operators
    /\ cli = "idle" /\ batch = {} /\ left = {}
    /\ skipped = {} /\ broken = {}
    /\ faults = 0

First(f, S) == f \in S /\ \A g \in S : f <= g

Fault == faults < MaxFaults /\ faults' = faults + 1

Goto(s, step) == pc' = [pc EXCEPT ![s] = step]

\* os.Exit(1), or killed.
Exit(s) == Goto(s, "down") /\ todo' = [todo EXCEPT ![s] = {}]

-----------------------------------------------------------------------------
(* A server. *)

Start(s) ==
    /\ pc[s] = "down"
    /\ Goto(s, "check")
    /\ UNCHANGED <<database, todo, script, history, faults>>

\* "N previously failed migration(s) - fix and retry manually"
CheckFailed(s) ==
    /\ pc[s] = "check"
    /\ Goto(s, IF \E f \in Files : version[f] = "failed" THEN "down" ELSE "list")
    /\ UNCHANGED <<database, todo, script, history, faults>>

\* Mutant: WHERE status = 'success' is missing.
ListApplied_AnyStatus(s) ==
    /\ pc[s] = "list"
    /\ todo' = [todo EXCEPT ![s] = {f \in Files : version[f] = "none"}]
    /\ Goto(s, "migrate")
    /\ UNCHANGED <<database, script, history, faults>>

\* SELECT filename ... WHERE status = 'success', read once.  rows.Err() is
\* not looked at, so the list may be short.
ListApplied(s) ==
    /\ pc[s] = "list"
    /\ LET pending == {f \in Files : version[f] # "success"}
       IN  \/ todo' = [todo EXCEPT ![s] = pending] /\ UNCHANGED faults
           \/ /\ Fault
              /\ \E missed \in SUBSET (Files \ pending) :
                    todo' = [todo EXCEPT ![s] = pending \cup missed]
    /\ Goto(s, "migrate")
    /\ UNCHANGED <<database, script, history>>

\* Whether all statements of f work, the earlier ones having been executed.
Works(f) == \A o \in Creates[f] :
    /\ o \notin objects
    /\ \A p \in Requires[o] : p \in objects \/ p \in Creates[f]

\* Mutant: the record is written after the commit, and lost when that fails.
Apply_RecordedLater(s) ==
    /\ pc[s] = "migrate"
    /\ \E f \in todo[s] :
          /\ First(f, todo[s])
          /\ IF Works(f)
             THEN /\ objects' = objects \cup Creates[f]
                  /\ broken' = broken \ {f}
                  /\ \/ /\ version' = [version EXCEPT ![f] = "success"]
                        /\ todo' = [todo EXCEPT ![s] = todo[s] \ {f}]
                        /\ UNCHANGED <<pc, faults>>
                     \/ Fault /\ Exit(s) /\ UNCHANGED version
             ELSE /\ Exit(s)
                  /\ broken' = broken \cup {f}
                  /\ UNCHANGED <<objects, version, faults>>
    /\ UNCHANGED <<seeded, script, skipped>>

\* The next file and its record, in one transaction.  When a statement fails
\* the server exits; the record of the failure is written in the transaction
\* that has failed and goes with it.
Apply(s) ==
    /\ pc[s] = "migrate"
    /\ \E f \in todo[s] :
          /\ First(f, todo[s])
          /\ IF Works(f)
             THEN /\ objects' = objects \cup Creates[f]
                  /\ version' = [version EXCEPT ![f] = "success"]
                  /\ todo' = [todo EXCEPT ![s] = todo[s] \ {f}]
                  /\ broken' = broken \ {f}
                  /\ UNCHANGED pc
             ELSE /\ Exit(s)
                  /\ broken' = broken \cup {f}
                  /\ UNCHANGED <<objects, version>>
    /\ UNCHANGED <<seeded, script, skipped, faults>>

\* A statement of the file fails that should have worked: the same.
ApplyFails(s) ==
    /\ pc[s] = "migrate" /\ "server" \in MayFail
    /\ Fault
    /\ Exit(s)
    /\ \E f \in todo[s] : First(f, todo[s]) /\ broken' = broken \cup {f}
    /\ UNCHANGED <<database, script, skipped>>

\* SELECT COUNT(*) FROM cases, which fails without the table.
CountCases(s) ==
    /\ pc[s] = "migrate" /\ todo[s] = {}
    /\ \/ Cases \notin objects /\ Goto(s, "down")
       \/ Cases \in objects /\ seeded /\ Goto(s, "up")
       \/ Cases \in objects /\ ~seeded /\ Goto(s, "insert")
    /\ UNCHANGED <<database, todo, script, history, faults>>

\* The batch of INSERTs is one transaction, which the primary key makes fail
\* when another server has seeded since the count.
InsertCases(s) ==
    /\ pc[s] = "insert"
    /\ seeded' = TRUE
    /\ Goto(s, IF seeded THEN "down" ELSE "up")
    /\ UNCHANGED <<objects, version, todo, script, history, faults>>

\* A server stops, or a statement fails that is not a migration's.
Stop(s) ==
    /\ pc[s] # "down"
    /\ Fault
    /\ Exit(s)
    /\ UNCHANGED <<database, script, history>>

Boot(s) == \/ Start(s) \/ CheckFailed(s) \/ ListApplied(s)
           \/ Apply(s) \/ ApplyFails(s) \/ CountCases(s) \/ InsertCases(s)

-----------------------------------------------------------------------------
(* The script. *)

RunAll ==
    /\ operator # "none" /\ cli = "idle"
    /\ cli' = "check" /\ batch' = Files
    /\ UNCHANGED <<database, server, operator, left, history, faults>>

\* run_specific does not ask whether the file has been applied.
RunSpecific(f) ==
    /\ operator = "picks" /\ cli = "idle"
    /\ cli' = "psql" /\ batch' = {f} /\ left' = Creates[f]
    /\ broken' = broken \ {f}
    /\ UNCHANGED <<database, server, operator, skipped, faults>>

\* The next file: skipped if recorded as a success.  A query that fails does
\* not say so.
CliCheck ==
    /\ cli = "check"
    /\ \/ batch = {} /\ cli' = "idle" /\ UNCHANGED <<batch, left, broken, faults>>
       \/ \E f \in batch :
             /\ First(f, batch)
             /\ \/ /\ version[f] = "success"
                   /\ batch' = batch \ {f}
                   /\ UNCHANGED <<cli, left, broken, faults>>
                \/ /\ \/ version[f] # "success" /\ UNCHANGED faults
                      \/ version[f] = "success" /\ Fault
                   /\ cli' = "psql" /\ left' = Creates[f]
                   /\ broken' = broken \ {f}
                   /\ UNCHANGED batch
    /\ UNCHANGED <<database, server, operator, skipped>>

\* The file that psql is at.
Current == {f \in batch : cli = "psql" /\ First(f, batch)}

\* Whether a statement can work: its object is new, what it needs is there.
Creatable(o) == o \notin objects /\ Requires[o] \subseteq objects

\* Mutant: psql stops at the first error, but still exits with 0.
Statement_StopsAtError ==
    /\ cli = "psql"
    /\ \E o \in left :
          /\ First(o, left)
          /\ \/ /\ Creatable(o)
                /\ objects' = objects \cup {o} /\ left' = left \ {o}
                /\ UNCHANGED <<history, faults>>
             \/ /\ ~Creatable(o)
                /\ broken' = broken \cup Current /\ left' = {}
                /\ UNCHANGED <<objects, skipped, faults>>
             \/ /\ Creatable(o) /\ "script" \in MayFail /\ Fault
                /\ broken' = broken \cup Current /\ skipped' = skipped \cup Current
                /\ left' = {}
                /\ UNCHANGED objects
    /\ UNCHANGED <<version, seeded, server, operator, cli, batch>>

\* One statement, committed by itself.  psql goes on after an error: what it
\* tried to create exists, or what that needs does not, or anything else.
Statement ==
    /\ cli = "psql"
    /\ \E o \in left :
          /\ First(o, left)
          /\ left' = left \ {o}
          /\ \/ /\ Creatable(o)
                /\ objects' = objects \cup {o}
                /\ UNCHANGED <<history, faults>>
             \/ /\ ~Creatable(o)
                /\ broken' = broken \cup Current
                /\ UNCHANGED <<objects, skipped, faults>>
             \/ /\ Creatable(o) /\ "script" \in MayFail /\ Fault
                /\ broken' = broken \cup Current /\ skipped' = skipped \cup Current
                /\ UNCHANGED objects
    /\ UNCHANGED <<version, seeded, server, operator, cli, batch>>

\* Mutant: another word for success.
Record_Applied ==
    /\ cli = "psql" /\ left = {}
    /\ version' = [f \in Files |-> IF First(f, batch) THEN "applied" ELSE version[f]]
    /\ batch' = {f \in batch : ~First(f, batch)}
    /\ cli' = "check"
    /\ UNCHANGED <<objects, seeded, server, operator, left, history, faults>>

\* psql has come to the end of the file: a success.
Record ==
    /\ cli = "psql" /\ left = {}
    /\ version' = [f \in Files |-> IF First(f, batch) THEN "success" ELSE version[f]]
    /\ batch' = {f \in batch : ~First(f, batch)}
    /\ cli' = "check"
    /\ UNCHANGED <<objects, seeded, server, operator, left, history, faults>>

\* psql loses its connection and exits with 2: the file is recorded as failed,
\* if that statement gets through, and the script halts.
Disconnect ==
    /\ cli = "psql"
    /\ \E f \in Current : version' \in {version, [version EXCEPT ![f] = "failed"]}
    /\ cli' = "idle" /\ batch' = {} /\ left' = {}
    /\ broken' = broken \ Current
    /\ UNCHANGED <<objects, seeded, server, operator, skipped, faults>>

\* The operator stops the script.
Abort ==
    /\ cli # "idle"
    /\ cli' = "idle" /\ batch' = {} /\ left' = {}
    /\ broken' = broken \ Current
    /\ UNCHANGED <<database, server, operator, skipped, faults>>

Script == \/ RunAll \/ (\E f \in Files : RunSpecific(f)) \/ CliCheck
          \/ Statement \/ Record \/ Disconnect \/ Abort

-----------------------------------------------------------------------------

Next == \/ \E s \in Servers : Boot(s) \/ Stop(s)
        \/ Script

Spec == Init /\ [][Next]_vars

-----------------------------------------------------------------------------

\* Neither the file nor one before it, which it may need, has lost a statement.
Whole(f) == \A g \in skipped : f < g

\* "Run each pending migration" (db.go:90): a file recorded as a success has
\* been applied in full, although psql's exit status says nothing about its
\* statements and although servers and script may work on the same file.  Two
\* things only make such a record false: an operator who picks files, and a
\* statement, of that file or of one before it, that failed for a reason of its
\* own and was skipped by psql.
RecordedMeansApplied ==
    operator # "picks" =>
        \A f \in Files : version[f] = "success" /\ Whole(f) => Creates[f] \subseteq objects

\* A server that serves requests has its cases, and its whole schema but for
\* what psql has skipped, whichever of several servers and scripts got there
\* first, and wherever the others stopped.
UpMeansReady ==
    \A s \in Servers : pc[s] = "up" =>
        /\ seeded /\ Cases \in objects
        /\ operator # "picks" => \A f \in Files : Whole(f) => Creates[f] \subseteq objects

\* Servers that start together get in each other's way, and this is the whole
\* of it: a server that exits without a fault has found the next file of its
\* list applied by another one, or has counted no cases and found them seeded
\* when it inserted its own.  Nothing that a stop, a failed statement or a
\* short list has left behind makes a server exit later.
OnlyLosersFail ==
    [][\A s \in Servers :
          operator = "none" /\ faults' = faults /\ pc[s] # "down" /\ pc'[s] = "down" =>
             \/ \E f \in todo[s] : First(f, todo[s]) /\ version[f] = "success"
             \/ pc[s] = "insert" /\ seeded]_vars

\* "If a previously-run migration has status "failed" the function returns an
\* error - manual intervention required" (db.go:16), "success" or "failed"
\* (001_schema_version.sql:4): no server gets past the check while the last run
\* of a file, ended and not cut short, had a statement that failed.
NoStartAfterFailure ==
    [][\A s \in Servers :
          pc[s] = "check" /\ pc'[s] = "list" /\ cli = "idle" => broken = {}]_vars
=============================================================================
