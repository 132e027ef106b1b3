--------------------------- MODULE StartupProofs ---------------------------
(***************************************************************************)
(* Theorems about Startup, for any consistent set of migration files, any  *)
(* number of servers, and stops, cut-off reads and lost connections of the *)
(* script at any step.                                                     *)
(***************************************************************************)
EXTENDS Startup, TLAPS

\* Unless it, or a file before it, has lost a statement, f is applied in full.
Applied(f) == Whole(f) => Creates[f] \subseteq objects

\* The types that the invariant needs.
BooksType ==
    /\ objects \subseteq Objects
    /\ version \in [Files -> {"none", "success", "failed"}]
    /\ pc \in [Servers -> {"down", "check", "list", "migrate", "insert", "up"}]
    /\ todo \in [Servers -> SUBSET Files]
    /\ cli \in {"idle", "check", "psql"}
    /\ batch \subseteq Files /\ left \subseteq Objects
    /\ skipped \subseteq Files

\* The script has applied every file it has left behind, and of the file it is
\* sending everything that it need not send any more.
ScriptInv ==
    cli # "idle" =>
        /\ \A g \in Files \ batch : Applied(g)
        /\ cli = "psql" => \E f \in batch :
              /\ First(f, batch)
              /\ left \subseteq Creates[f]
              /\ Whole(f) => Creates[f] \ left \subseteq objects

\* A server past the count has found the table of cases, and one that is up
\* has found cases in it or put them there.
CasesInv(s) ==
    /\ pc[s] \in {"insert", "up"} => Cases \in objects
    /\ pc[s] = "up" => seeded

\* A server has applied every file that is not on its list any more.
ServerInv(s) ==
    /\ pc[s] \in {"migrate", "insert", "up"} => \A f \in Files \ todo[s] : Applied(f)
    /\ pc[s] \in {"insert", "up"} => todo[s] = {}

StartupInv ==
    /\ BooksType
    /\ \A s \in Servers : CasesInv(s)
    /\ operator # "picks" =>
          /\ RecordedMeansApplied
          /\ ScriptInv
          /\ \A s \in Servers : ServerInv(s)

-----------------------------------------------------------------------------

\* A file before one that is whole is whole.
LEMMA WholeBefore ==
    ASSUME BooksType, NEW f \in Files, NEW g \in Files, g <= f, Whole(f)
    PROVE  Whole(g)
<1>1. ASSUME NEW h \in skipped PROVE g < h
  <2>1. f \in Nat /\ g \in Nat /\ h \in Nat
    BY FilesAssumption DEF BooksType
  <2>2. f < h
    BY DEF Whole
  <2> QED BY <2>1, <2>2
<1> QED BY <1>1 DEF Whole

\* What a statement of the script needs is there, if the files before its own
\* are applied and the statements before it have been sent.
LEMMA StatementWorks ==
    ASSUME BooksType, ScriptInv, cli = "psql", NEW o \in left, First(o, left),
           NEW f \in batch, First(f, batch), left \subseteq Creates[f], Whole(f),
           Creates[f] \ left \subseteq objects
    PROVE  Requires[o] \subseteq objects
<1>1. f \in Files /\ o \in Creates[f] /\ o \in Objects
  BY FilesAssumption DEF BooksType, Objects
<1>2. ASSUME NEW p \in Requires[o] PROVE p \in objects
  <2>1. PICK g \in Files : g <= f /\ p \in Creates[g] /\ p < o
    BY <1>1, <1>2, OrderAssumption
  <2>2. CASE g = f
    <3>1. p \in Nat /\ o \in Nat
      BY <1>1, <2>1, FilesAssumption
    <3>2. p \notin left
      BY <2>1, <3>1 DEF First
    <3> QED BY <2>1, <2>2, <3>2
  <2>3. CASE g # f
    <3>1. g \in Nat /\ f \in Nat
      BY <1>1, <2>1, FilesAssumption
    <3>2. g \notin batch
      BY <2>1, <2>3, <3>1 DEF First
    <3>3. Whole(g)
      BY <1>1, <2>1, WholeBefore
    <3> QED BY <2>1, <3>2, <3>3 DEF ScriptInv, Applied
  <2> QED BY <2>2, <2>3
<1> QED BY <1>2

\* Files have one first file.
LEMMA OneFirst ==
    ASSUME NEW S \in SUBSET Nat, NEW f, NEW g, First(f, S), First(g, S)
    PROVE  f = g
BY DEF First

\* A server's steps.
LEMMA BootKeepsInv ==
    ASSUME StartupInv, NEW s \in Servers, Boot(s) \/ Stop(s)
    PROVE  StartupInv'
<1> USE DEF StartupInv, BooksType, RecordedMeansApplied, ScriptInv, ServerInv, CasesInv,
            Applied, Whole, Goto, Exit, script, history
<1>1. CASE Start(s)
  BY <1>1 DEF Start, database
<1>2. CASE CheckFailed(s)
  BY <1>2 DEF CheckFailed, database
<1>3. CASE ListApplied(s)
  BY <1>3 DEF ListApplied, database
<1>4. CASE Apply(s)
  <2>1. PICK f \in todo[s] :
           \/ /\ objects' = objects \cup Creates[f]
              /\ version' = [version EXCEPT ![f] = "success"]
              /\ todo' = [todo EXCEPT ![s] = todo[s] \ {f}]
              /\ UNCHANGED pc
           \/ Exit(s) /\ UNCHANGED <<objects, version>>
    BY <1>4 DEF Apply
  <2>2. f \in Files /\ Creates[f] \subseteq Objects
    BY DEF Objects
  <2>3. CASE Exit(s) /\ UNCHANGED <<objects, version>>
    BY <1>4, <2>3 DEF Apply
  <2>4. CASE /\ objects' = objects \cup Creates[f]
             /\ version' = [version EXCEPT ![f] = "success"]
             /\ todo' = [todo EXCEPT ![s] = todo[s] \ {f}]
             /\ UNCHANGED pc
    BY <1>4, <2>2, <2>4 DEF Apply
  <2> QED BY <2>1, <2>3, <2>4
<1>5. CASE CountCases(s)
  BY <1>5 DEF CountCases, database
<1>6. CASE InsertCases(s)
  BY <1>6 DEF InsertCases
<1>7. CASE Stop(s)
  BY <1>7 DEF Stop, database
<1>8. CASE ApplyFails(s)
  BY <1>8 DEF ApplyFails, database
<1> QED BY <1>1, <1>2, <1>3, <1>4, <1>5, <1>6, <1>7, <1>8 DEF Boot

\* The script's steps.
LEMMA ScriptKeepsInv ==
    ASSUME StartupInv, Script
    PROVE  StartupInv'
<1> USE DEF StartupInv, BooksType, RecordedMeansApplied, ServerInv, CasesInv, Applied, Whole,
            database, server, history
<1>1. CASE RunAll
  BY <1>1 DEF RunAll, ScriptInv
<1>2. ASSUME NEW f \in Files, RunSpecific(f) PROVE StartupInv'
  BY <1>2 DEF RunSpecific, Objects
<1>3. CASE CliCheck
  <2>1. CASE batch = {} /\ cli' = "idle" /\ UNCHANGED <<batch, left>>
    BY <1>3, <2>1 DEF CliCheck, ScriptInv
  <2>2. ASSUME NEW f \in batch, First(f, batch), version[f] = "success",
               batch' = batch \ {f}, UNCHANGED <<cli, left>>
        PROVE  StartupInv'
    BY <1>3, <2>2 DEF CliCheck, ScriptInv
  <2>3. ASSUME NEW f \in batch, First(f, batch), cli' = "psql", left' = Creates[f],
               UNCHANGED batch
        PROVE  StartupInv'
    <3>1. left' \subseteq Objects
      BY <2>3 DEF Objects
    <3> QED BY <1>3, <2>3, <3>1 DEF CliCheck, ScriptInv, First
  <2> QED BY <1>3, <2>1, <2>2, <2>3 DEF CliCheck
<1>4. CASE Statement
  <2>1. PICK o \in left :
           /\ First(o, left)
           /\ left' = left \ {o}
           /\ \/ /\ Creatable(o)
                 /\ objects' = objects \cup {o}
                 /\ UNCHANGED history
              \/ /\ ~Creatable(o)
                 /\ UNCHANGED <<objects, skipped>>
              \/ /\ skipped' = skipped \cup Current
                 /\ UNCHANGED objects
    BY <1>4 DEF Statement
  <2>2. o \in Objects /\ Current \subseteq Files
    BY DEF Current
  <2>3. /\ objects \subseteq objects' /\ objects' \subseteq Objects
        /\ skipped \subseteq skipped' /\ skipped' \subseteq Files
    BY <2>1, <2>2
  <2>4. UNCHANGED <<version, seeded, pc, todo, operator, cli, batch>> /\ cli = "psql"
    BY <1>4 DEF Statement, server
  <2>5. BooksType' /\ \A s \in Servers : CasesInv(s)'
    BY <2>1, <2>3, <2>4
  <2>6. CASE operator = "picks"
    BY <2>4, <2>5, <2>6
  <2>7. CASE operator # "picks"
    <3>1. \A g \in Files : Applied(g) => Applied(g)'
      BY <2>3
    <3>2. PICK f \in batch : /\ First(f, batch)
                             /\ left \subseteq Creates[f]
                             /\ Whole(f) => Creates[f] \ left \subseteq objects
      BY <2>4, <2>7 DEF ScriptInv
    <3>3. Whole(f)' => Creates[f] \ left' \subseteq objects'
      <4>1. CASE Creatable(o) /\ objects' = objects \cup {o} /\ UNCHANGED history
        BY <2>1, <3>2, <4>1
      <4>2. CASE ~Creatable(o) /\ UNCHANGED <<objects, skipped>>
        <5>1. Whole(f) => o \in objects
          BY <2>1, <2>4, <2>7, <3>2, <4>2, StatementWorks DEF Creatable
        <5> QED BY <2>1, <3>2, <4>2, <5>1
      <4>3. CASE skipped' = skipped \cup Current /\ UNCHANGED objects
        <5>1. f \in skipped' /\ f \in Nat
          BY <2>4, <3>2, <4>3, FilesAssumption DEF Current
        <5> QED BY <5>1
      <4> QED BY <2>1, <4>1, <4>2, <4>3
    <3>4. ScriptInv'
      <4>1. left' \subseteq Creates[f]
        BY <2>1, <3>2
      <4> QED BY <2>4, <2>7, <3>1, <3>2, <3>3, <4>1 DEF ScriptInv, First
    <3> QED BY <2>4, <2>5, <2>7, <3>1, <3>4
  <2> QED BY <2>6, <2>7
<1>5. CASE Record
  <2>1. CASE operator = "picks"
    BY <1>5, <2>1 DEF Record
  <2>2. CASE operator # "picks"
    <3>1. PICK f \in batch : First(f, batch) /\ (Whole(f) => Creates[f] \subseteq objects)
      BY <1>5, <2>2 DEF Record, ScriptInv
    <3>2. \A g \in batch : First(g, batch) => g = f
      BY <3>1, OneFirst, FilesAssumption
    <3>3. /\ version' = [g \in Files |-> IF g = f THEN "success" ELSE version[g]]
          /\ batch' = batch \ {f}
      BY <1>5, <3>1, <3>2 DEF Record, First
    <3> QED BY <1>5, <2>2, <3>1, <3>3 DEF Record, ScriptInv
  <2> QED BY <2>1, <2>2
<1>6. CASE Disconnect
  BY <1>6 DEF Disconnect, ScriptInv
<1>7. CASE Abort
  BY <1>7 DEF Abort, ScriptInv
<1> QED BY <1>1, <1>2, <1>3, <1>4, <1>5, <1>6, <1>7 DEF Script

LEMMA StartupInvariant == Spec => []StartupInv
<1>1. Init => StartupInv
  BY DEF Init, StartupInv, BooksType, RecordedMeansApplied, ScriptInv, ServerInv, CasesInv
<1>2. StartupInv /\ [Next]_vars => StartupInv'
  <2>1. StartupInv /\ UNCHANGED vars => StartupInv'
    BY DEF StartupInv, BooksType, RecordedMeansApplied, ScriptInv, ServerInv, CasesInv, Applied,
           Whole, First, vars, database, server, script, history
  <2> QED BY <2>1, BootKeepsInv, ScriptKeepsInv DEF Next
<1> QED BY <1>1, <1>2, PTL DEF Spec

-----------------------------------------------------------------------------

\* A file recorded as a success has been applied in full (db.go:90-134,
\* migration.sh run_all), though psql's exit status says nothing about its
\* statements and servers and script may be at the same file: unless psql has
\* skipped a statement, of it or of a file before it, for a reason other than
\* the schema, or the operator picks files.
THEOREM RecordsAreTrue == Spec => []RecordedMeansApplied
<1>1. StartupInv => RecordedMeansApplied
  BY DEF StartupInv, RecordedMeansApplied
<1> QED BY <1>1, StartupInvariant, PTL

\* A server that serves requests has its cases (main.go:57-79), however many
\* start together and wherever they stop, and of its schema every file that
\* has not lost a statement in psql and does not come after one that has.
THEOREM UpIsReady == Spec => []UpMeansReady
<1>1. StartupInv => UpMeansReady
  BY DEF StartupInv, BooksType, ServerInv, CasesInv, Applied, UpMeansReady
<1> QED BY <1>1, StartupInvariant, PTL

\* What the types need beside BooksType.
RestType == /\ seeded \in BOOLEAN /\ operator \in Operators /\ faults \in Nat
            /\ broken \subseteq Files

\* The types, of which the invariant has most: nothing leads the script to an
\* object, or a server to a file, that the migrations do not name.
THEOREM StartupTypes == Spec => []TypeOK
<1>1. ASSUME Init PROVE RestType
  <2>1. seeded \in BOOLEAN /\ operator \in Operators
    BY <1>1, Zenon DEF Init
  <2>2. faults \in Nat /\ broken \subseteq Files
    BY <1>1 DEF Init
  <2> QED BY <2>1, <2>2 DEF RestType
<1>2. ASSUME StartupInv, RestType, [Next]_vars PROVE RestType'
  <2> USE DEF database, server, script, history, Fault
  <2>1. ASSUME NEW s \in Servers, Boot(s) \/ Stop(s) PROVE RestType'
    <3> USE DEF Boot, Start, CheckFailed, ListApplied, Apply, ApplyFails, CountCases,
                InsertCases, Stop
    <3>1. UNCHANGED operator
      BY <2>1
    <3>2. seeded' = seeded \/ seeded' = TRUE
      BY <2>1
    <3>3. faults' = faults \/ faults' = faults + 1
      BY <2>1
    <3>4. broken' \subseteq broken \cup todo[s]
      BY <2>1
    <3>5. seeded' \in BOOLEAN
      BY <1>2, <3>2, Zenon DEF RestType
    <3>6. faults' \in Nat /\ broken' \subseteq Files
      BY <1>2, <3>3, <3>4 DEF RestType, StartupInv, BooksType
    <3> QED BY <1>2, <3>1, <3>5, <3>6 DEF RestType
  <2>2. CASE Script
    <3> USE DEF Script, RunAll, RunSpecific, CliCheck, Statement, Record, Disconnect, Abort
    <3>1. UNCHANGED <<operator, seeded>>
      BY <2>2
    <3>2. faults' = faults \/ faults' = faults + 1
      BY <2>2
    <3>3. broken' \subseteq broken \cup batch
      BY <2>2 DEF Current
    <3>4. seeded' \in BOOLEAN /\ operator' \in Operators
      BY <1>2, <3>1, Zenon DEF RestType
    <3>5. faults' \in Nat /\ broken' \subseteq Files
      BY <1>2, <3>2, <3>3 DEF RestType, StartupInv, BooksType
    <3> QED BY <3>4, <3>5 DEF RestType
  <2>3. CASE UNCHANGED vars
    <3>1. UNCHANGED <<operator, seeded, faults, broken>>
      BY <2>3 DEF vars
    <3> QED BY <1>2, <3>1, Zenon DEF RestType
  <2> QED BY <1>2, <2>1, <2>2, <2>3 DEF Next
<1>3. StartupInv /\ RestType => TypeOK
  BY DEF StartupInv, BooksType, RestType, TypeOK
<1> QED BY <1>1, <1>2, <1>3, StartupInvariant, PTL DEF Spec

-----------------------------------------------------------------------------

\* Without an operator the books are exact: no file is on record as failed,
\* what exists was created by a file on record as a success, which created all
\* it has to, and a server has only such files behind it.
ExactBooks ==
    operator = "none" =>
        /\ cli = "idle"
        /\ \A f \in Files : version[f] # "failed"
        /\ \A f \in Files : version[f] = "success" => Creates[f] \subseteq objects
        /\ \A o \in objects : \E f \in Files : version[f] = "success" /\ o \in Creates[f]
        /\ \A s \in Servers : pc[s] \in {"migrate", "insert", "up"} =>
              \A f \in Files \ todo[s] : version[f] = "success"

\* A file is recorded by the transaction that creates its objects.
LEMMA BooksStayExact ==
    ASSUME TypeOK, ExactBooks, [Next]_vars
    PROVE  ExactBooks'
<1> USE DEF TypeOK, ExactBooks, Goto, Exit, database, server, script
<1>1. ASSUME NEW s \in Servers, Start(s) \/ CheckFailed(s) \/ CountCases(s) \/ InsertCases(s)
      PROVE  ExactBooks'
  BY <1>1 DEF Start, CheckFailed, CountCases, InsertCases
<1>2. ASSUME NEW s \in Servers, ListApplied(s) PROVE ExactBooks'
  BY <1>2 DEF ListApplied
<1>3. ASSUME NEW s \in Servers, Apply(s) PROVE ExactBooks'
  <2>1. PICK f \in todo[s] :
           \/ /\ objects' = objects \cup Creates[f]
              /\ version' = [version EXCEPT ![f] = "success"]
              /\ todo' = [todo EXCEPT ![s] = todo[s] \ {f}]
              /\ UNCHANGED pc
           \/ Exit(s) /\ UNCHANGED <<objects, version>>
    BY <1>3 DEF Apply
  <2>2. UNCHANGED <<operator, cli>> /\ f \in Files
    BY <1>3 DEF Apply
  <2>3. CASE Exit(s) /\ UNCHANGED <<objects, version>>
    BY <2>2, <2>3
  <2>4. CASE /\ objects' = objects \cup Creates[f]
             /\ version' = [version EXCEPT ![f] = "success"]
             /\ todo' = [todo EXCEPT ![s] = todo[s] \ {f}]
             /\ UNCHANGED pc
    BY <2>2, <2>4
  <2> QED BY <2>1, <2>3, <2>4
<1>4. ASSUME NEW s \in Servers, ApplyFails(s) \/ Stop(s) PROVE ExactBooks'
  BY <1>4 DEF ApplyFails, Stop
<1>5. CASE Script
  BY <1>5 DEF Script, RunAll, RunSpecific, CliCheck, Statement, Record, Disconnect, Abort
<1>6. CASE UNCHANGED vars
  BY <1>6 DEF vars
<1> QED BY <1>1, <1>2, <1>3, <1>4, <1>5, <1>6 DEF Next, Boot

\* The first file of a list works, if it is not on record yet.
LEMMA FirstWorks ==
    ASSUME TypeOK, ExactBooks, operator = "none", NEW s \in Servers, pc[s] = "migrate",
           NEW f \in todo[s], First(f, todo[s]), version[f] # "success"
    PROVE  Works(f)
<1>1. f \in Files
  BY DEF TypeOK
<1>2. ASSUME NEW o \in Creates[f] PROVE o \notin objects
  BY <1>1, OrderAssumption DEF ExactBooks
<1>3. ASSUME NEW o \in Creates[f], NEW p \in Requires[o] PROVE p \in objects \/ p \in Creates[f]
  <2>1. PICK g \in Files : g <= f /\ p \in Creates[g]
    BY <1>1, OrderAssumption
  <2>2. CASE g # f
    <3>1. g \notin todo[s]
      BY <1>1, <2>1, <2>2, FilesAssumption DEF First
    <3> QED BY <2>1, <3>1 DEF ExactBooks
  <2> QED BY <2>1, <2>2
<1> QED BY <1>2, <1>3 DEF Works

\* Without an operator, and with any number of servers, a server that exits
\* without a fault has lost a race for a file or for the cases (db.go:90-134,
\* seed.Cases): nothing that an earlier fault left behind makes one exit.
THEOREM LosersOnly == Spec => OnlyLosersFail
<1>1. Init => ExactBooks
  BY DEF Init, ExactBooks
<1>2. ASSUME TypeOK, ExactBooks, [Next]_vars
      PROVE  [\A s \in Servers :
                operator = "none" /\ faults' = faults /\ pc[s] # "down" /\ pc'[s] = "down" =>
                   \/ \E f \in todo[s] : First(f, todo[s]) /\ version[f] = "success"
                   \/ pc[s] = "insert" /\ seeded]_vars
  <2> SUFFICES ASSUME NEW s \in Servers, Next, operator = "none", faults' = faults,
                      pc[s] # "down", pc'[s] = "down"
               PROVE  \/ \E f \in todo[s] : First(f, todo[s]) /\ version[f] = "success"
                      \/ pc[s] = "insert" /\ seeded
    BY <1>2
  <2> USE <1>2 DEF TypeOK
  <2>1. CASE Script
    BY <2>1 DEF Script, RunAll, RunSpecific, CliCheck, Statement, Record, Disconnect, Abort,
                server
  <2>2. ASSUME NEW t \in Servers, Boot(t) \/ Stop(t) PROVE Boot(s) /\ ~ApplyFails(s)
    <3>1. t = s
      BY <2>2 DEF Boot, Start, CheckFailed, ListApplied, Apply, ApplyFails, CountCases,
                  InsertCases, Stop, Goto, Exit
    <3>2. ~Fault
      BY DEF Fault
    <3> QED BY <2>2, <3>1, <3>2 DEF ApplyFails, Stop
  <2>3. CASE Start(s) \/ CheckFailed(s) \/ ListApplied(s)
    BY <2>3 DEF Start, CheckFailed, ListApplied, Goto, ExactBooks
  <2>4. CASE Apply(s)
    <3>1. PICK f \in todo[s] : First(f, todo[s]) /\ (Works(f) => UNCHANGED pc)
      BY <2>4 DEF Apply
    <3>2. ~Works(f) /\ pc[s] = "migrate"
      BY <2>4, <3>1 DEF Apply
    <3> QED BY <3>1, <3>2, FirstWorks
  <2>5. CASE CountCases(s)
    <3>1. Cases \notin objects /\ pc[s] = "migrate" /\ todo[s] = {}
      BY <2>5 DEF CountCases, Goto
    <3>2. PICK f \in Files : Cases \in Creates[f]
      BY FilesAssumption DEF Objects
    <3> QED BY <3>1, <3>2 DEF ExactBooks
  <2>6. CASE InsertCases(s)
    BY <2>6 DEF InsertCases, Goto
  <2> QED BY <2>1, <2>2, <2>3, <2>4, <2>5, <2>6 DEF Next, Boot
<1>3. ASSUME TypeOK, ExactBooks, [Next]_vars PROVE ExactBooks'
  BY <1>3, BooksStayExact
<1> QED BY <1>1, <1>2, <1>3, StartupTypes, PTL DEF Spec, OnlyLosersFail
=============================================================================
