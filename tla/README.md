# A verification of the integration gateway

The gateway (`src/backend`) enriches foreclosure cases with records of three
unreliable services.  This directory holds TLA+ models of the part that is hard
to get right, the TLC configurations that check them, and proofs for TLAPS.
Paths such as `orchestrator.go` are those of `src/backend/internal/...`; the
exact lines of each definition are in the `map` of `PROJECT.json`.

    tlc -workers 2 -config LookupCrash.cfg MCApi.tla
    tlapm LookupProofs.tla

## 1. The system

| Component | State it keeps | Operations | Talks to | What makes it correct |
|---|---|---|---|---|
| Orchestrator (`lookup/orchestrator.go`) | none of its own; goroutines hold what they have read | `TriggerLookup`, `GetStatus`, `runLookup`, `processSource` | store, workers | one lookup of a case at a time; a verdict agrees with the rows; success is final; a pending run ends |
| Store (`store/lookup_store.go`) | rows of `lookup_runs` (one per case) and `lookup_sources` (three per run) in PostgreSQL | one statement per method, one transaction in `CreateLookupRun` | PostgreSQL | resets only what is retryable; loses and invents no attempts |
| Source workers (`lookup/process_*.go`) | attempts, search id | breaker, limiter, retry loop, poll loop, report, result | breakers, limiter, clients, store | report once on every path; always end; wait for the limiter |
| Circuit breaker (`resilience/circuitbreaker.go`) | state, failures, openedAt under a mutex; one per service | `Allow`, `RecordSuccess`, `RecordFailure`, `State` | workers of every case, health handler | opens at the threshold; one probe; never stuck |
| Rate limiter (`resilience/ratelimiter.go`) | ticker, a one-token channel, a goroutine; one for court records | `Wait`, `Stop` | court workers | bounded burst; who waits is served |
| Retry loop (`resilience/retry.go`) | attempt number, last error | `Do`, `DoWithResult` | workers | a bounded number of attempts, kept apart by delays; permanent errors end it |
| Clients (`client/*.go`) | none | `Fetch`, `Search`, `SubmitSearch`, `PollResult` | the services | each reply is a value, a transient or a permanent error |
| HTTP API (`api/handler.go`) | none; a bulk request has a channel of jobs and up to three goroutines | enrich, bulk, status, list, health | orchestrator, store, breakers | answers what the rows say; every request is answered |
| Server (`cmd/server/main.go`) | wiring | start, stop | all | a restart loses no work that was promised |
| Migrations, seed (`store/db.go`, `seed/seed.go`) | `schema_version`, `cases` | at startup | PostgreSQL | what is recorded was applied; who serves has schema and cases; a failed migration is not passed over |
| `scripts/migration.sh` | the same table | run-all, run | PostgreSQL, through psql | the same |
| Mock services (`mock-services/main.go`) | the table of SCRA searches | submit, results | | stands for the services; external |
| Logger, other scripts | files | | | |

How they interact.  A handler runs `TriggerLookup`, a sequence of separate
statements with no lock; it ends by starting `runLookup` in a goroutine.  That
goroutine reads the rows, starts a worker for each unsettled source, waits for
all, reads the rows again, computes the verdict and writes it.  The workers of
*all* cases share one breaker per service and one limiter for court records.
The only coordination between handlers and lookups of a case is in the rows.

Before any of that a server brings the database up, beside other servers and an
operator's script.

What is hard: handlers of one case that overlap (two clients, a bulk request
with a case twice); values read in one statement and used in a later one;
errors that are dropped; a stop between two statements; reports to a breaker
that arrive after it has changed state; a probe that never reports; ticks that
queue up; replies that are lost after the service has done its work; servers
that run the same migration.  `PROJECT.json` lists these under `hazards`, at their lines.

## 2. The modules

| Module | Models | Rests on |
|---|---|---|
| `CircuitBreaker` | the breaker as a value, one operator per method | |
| `BreakerProtocol` | one breaker and the calls that share it | `CircuitBreaker` |
| `Clients` | what each client makes of each class of reply | |
| `SourceFetch` | the workers of one service, from `Allow()` to the result | `Clients`, `BreakerProtocol` (instance) |
| `Scra` | the SCRA workers beside the searches of their service | `SourceFetch` |
| `RateLimiter` | ticker, refill goroutine, bucket, callers | |
| `Court` | the court workers behind the limiter, with retries and delays | `RateLimiter`, `Clients` |
| `Lookup` | the rows of one case, its handlers and its lookups | |
| `Api` | bulk requests and status readers around them | `Lookup` |
| `Enrichment` | what the gateway promises of one case (abstract) | |
| `Startup` | migrations and seed, with several servers and the script | |
| `BreakerProtocolProofs`, `SourceFetchProofs`, `ScraProofs`, `RateLimiterProofs` (with `Court`), `LookupProofs`, `LookupRefinement`, `ApiProofs`, `StartupProofs` | theorems | TLAPS |
| `MCSourceFetch`, `MCScra`, `MCCourt`, `MCLookup`, `MCApi`, `MCStartup` | instances for TLC | |

**CircuitBreaker.**  Every method holds the mutex throughout, so a method is an
atomic function of the record `[state, failures, cooled]`.  `cooled` stands for
`time.Since(openedAt) >= cooldown`.  `State()` is not a reader: it makes
`Allow`'s transition (`AfterState`).

**BreakerProtocol.**  `Enter` is an admitted `Allow()`; the call is then in
flight for any number of steps until `ReturnSuccess`, `ReturnFailure` or
`ReturnSilently` (the SCRA poll timeout, which reports nothing).  `Health` is
`GET /api/health`.  `probes` is a history variable.  A refused call changes
nothing and is no step here.  The module is checked and used as a part of
`SourceFetch`.

**Lookup.**  One action per statement.  `pc[r]` is the next statement of a
handler, `ids[r]` the rows it has still to reset; `look[r]` is where the
`runLookup` that it started is, `busy[r]` its workers, `base` and `made` what a
worker knows of its attempts.  `calls` is a history variable.  `Overlap` says
whether handlers of the case run at the same time, `Faults` whether statements
can fail (with or without effect; a read may be cut off before any row, since
`rows.Err()` is not checked), `MaxCrashes` how often the process stops.  A
crash clears everything but the rows.  The case itself never changes, and the
sources read for a response are not carried on, so the first reads of
`TriggerLookup` are one action, and the reload after the reset
(`orchestrator.go:137`) is none.

**SourceFetch.**  The three `process*` functions differ in the limiter (court),
the poll loop (SCRA) and what the service answers; `kind`, chosen once, selects.
Workers of different services share nothing, so one service at a time is the
whole system seen from a breaker.  The context is never cancelled, because
every function given to the errgroup returns nil; so `Do` ends only by its own
rules and `Wait` returns no error.  The breaker's steps are those of
`BreakerProtocol`, by instance; a theorem says so.

**RateLimiter.**  `ticker.C` holds one tick, `held` is a tick in the hands of
the refill goroutine, `token` the bucket.  A Go channel hands a value to the
receiver that has been blocked longest, hence `queue`.  An observer counts
ticks and grants of one stretch of time.

**Scra.**  The service keeps each search in memory until it stops
(`scraSearches`), settles it some time later, as complete or in error, and
answers polls by its status.  A submit may be carried out although its reply is
lost or unreadable; then the service has a search that no worker knows of.
`searches[w]` are those made for the worker's present source, `searchID[w]` the
one that it polls.  Every step of a worker is `SourceFetch`'s, with a conjunct
for the service; `Ask` ties the reply to the search.

**Court.**  A worker takes one token and then makes up to `MaxAttempts`
requests.  Its delays are counted in ticks of the limiter (500 ms); the jitter,
below one tick, may end a delay no earlier.  The observer counts the requests
at the service too.  The breaker, which can only refuse, is left out.

**Api.**  The entries of a bulk request are requests of `Lookup`: a worker of
the pool takes a job, lets its request run through `TriggerLookup`, and keeps
the answer until all are done.  Entries of other cases only take up workers for
a while.  A status reader reads the run in one statement and the sources in
another, and keeps both; it adds nothing to the rows.

**Startup.**  A server checks for failed migrations, reads the list of applied
ones once, applies the others each in a transaction of its own, counts the
cases and seeds.  `objects` are the tables and indexes that exist; what a file
creates and what that requires are parameters (`MCStartup` has those of
`migrations/`).  A failed file (`Apply` when an object exists already,
`ApplyFails` for any other reason) leaves nothing, not even its record, as that
is written in the transaction that failed.  The script sends a file through psql
statement by statement; psql goes on after an error and exits with 0.  A
statement of it can fail in three ways: its object exists, something it requires
does not, or for a reason that is not in the schema (a full disk, a timeout, a
deadlock, a permission).  `MayFail` says for whom the third is considered.  Two
history variables keep what the program forgets: `skipped`, the files of which
psql has left out a statement for such a reason, and `broken`, those of which
the last run, unless it was cut short, had a statement that failed for whatever
reason.  An operator is absent, keeps to `run-all`, or picks files.
`001_schema_version.sql` only creates the table that both create anyway.

**Enrichment.**  A case is untouched, pending or has a verdict; its sources are
open or settled.  In the refinement mapping of `Lookup` a row that is pending
under a run that still has its old verdict counts as failed: the resets and the
run's reset are separate statements, and the case is retried when the last of
them is done.

## 3. The checks

| Run | Instance | Shows |
|---|---|---|
| `lookup_crash` | 3 triggers, 3 sources (court not applicable), 2 calls each, 2 crashes, 1 status reader | `CompleteMeansResolved`, `StatusMatchesRows`, `AttemptsExact`, `ViewNotBehind`, `EnrichmentRefined` |
| `lookup_faults` | 3 triggers, 3 sources, any statement fails, 1 crash | `OneLookup`, `SuccessIsFinal`, `CallsOnlyUnresolved` |
| `lookup_overlap` | a bulk request with the case 3 times, a pool of 2, 2 sources | `BulkTruthful`, `BulkResponds`, `PendingHasOwner`, `AttemptsNeverOvercount`, `PendingSettles` |
| `rate_limiter` | 2 court workers, 4 attempts, delays of 2, 4 and 6 ticks, a window of 4 ticks | `BurstBound`, `CourtLoadBound`, `CourtEnds` |
| `fetch_probe` | 3 workers of any service, 2 attempts, threshold 2, no health polls | `ThresholdInv`, `OpenLoadBounded`, `ReportedProbeInPipeline`, `ReportedCircuitRecovers` |
| `fetch_scra` | 2 SCRA workers and their service, 2 submits, 1 poll, threshold 1, health polls | `OneProbePerCooldown`, `ReportedOnce`, `VerdictIsAnswer`, `SearchesBounded`, `JobEnds` |
| `startup` | 2 servers, 3 files with 5 objects, each kind of operator, 2 faults | `RecordedMeansApplied`, `UpMeansReady`, `OnlyLosersFail` |

The type invariants of `Lookup`, `Api`, `SourceFetch` (with `BreakerProtocol`),
`Court` (with `RateLimiter`) and `Startup` are in these runs; what `Scra` adds
is typed in the invariant of `ScraProofs`.

The other runs each end in a counterexample: the code does something that a
comment or a document rules out.  The `findings` of `PROJECT.json` quote the
line.

| Run | What happens |
|---|---|
| `fetch_stuck` | half-open for ever, the service cut off for good: a probe ends in the SCRA poll timeout, or a health poll puts a cooled breaker into half-open with no probe.  With `HealthPolled = FALSE` only the first is left, with `Kinds = {"property_records"}` only the second; each gives the same end |
| `lookup_overlap_reset` | a trigger resets rows that have meanwhile succeeded |
| `lookup_crash_pending` | a bulk request calls a pending case complete; after a stop that case stays pending, and triggering it again starts nothing |
| `lookup_read_fault` | a failed read completes a case whose sources are not resolved |
| `startup_failure` | a migration fails, nothing says so, and a server starts again unattended.  The trace is a server's, whose record is rolled back; with `MayFail = {"script"}` it is the script's, which records a success |

More of what overlapping triggers do can be seen by giving `Overlap = TRUE` to
the properties of `lookup_crash` and `lookup_faults`: the verdict at rest
contradicts the rows (`StatusMatchesRows`), attempts of one of two lookups are
lost (`AttemptsExact`), a service is called for a source that has succeeded
(`CallsOnlyUnresolved`).  Of two first triggers one is answered with an error,
as the INSERT fails.  A breaker knows no call from another: a call admitted
before it opened can close it early or re-open it while the probe is in flight,
so two probes may be in flight at a time, though only one per opening
(`OneProbePerCooldown`).  The limiter's burst is three, not the
"burst = 1" of its comment, and as retries take no token the court service sees
more than the 2 requests per second that were meant: up to one more per second
from every worker that is retrying (`CourtLoadBound`; the bound is reached).
`Retry-After` is ignored, so only the loop's delays keep them apart.

A bulk request calls a case complete as soon as the trigger answers 200, which
a pending run gets too; its "pending" (handler.go:217) is never used.  So
"complete" in that response says neither that the case is complete nor, after a
stop, that it will be (`lookup_crash_pending`).  What can be relied on is
`BulkTruthful`: "triggered" means that this entry started a lookup, "complete"
and "error" that somebody else did, so that no entry is turned away from a case
nobody works on.  A status can be shown as failed with the rows of the retry
that followed, never ahead of its rows (`ViewNotBehind`): a complete case is
shown with every row settled, a partial one with a success among the rows read.

What `schema_version` says can be relied on only in part.  A statement that
failed is not on record (`startup_failure`; psql's own failure is, if the script
gets through): the server's record is rolled back with the
transaction that failed (db.go:110), and the script takes psql's exit status for
that of its statements (migration.sh:135).  A success is a true record except in
two cases, which `RecordedMeansApplied` and `UpMeansReady` name: an operator who
runs a file by itself (`picks`), and a statement that psql has skipped for a
reason of its own, which falsifies the record of its file and may falsify those
of the files after it, whose statements then fail for want of it (`Whole`).
Then a server serves without a part of its schema.  The table of cases and the
cases are there in any event, since the server looks for them.

`OnlyLosersFail` says why a server exits when nothing is wrong: another one was
faster with a file or with the seed.  Nothing restarts it (`docker-compose.yml`
has no restart policy for the backend), so of two servers that start together one may stay down;
no liveness is claimed.  A script that is stopped between a file and its record
leaves a database on which no server starts again, so the property is stated for
servers alone.

**The bounds.**  A threshold of 2 (the code has 5) tells "one failure" from
"the last one"; three workers are the probe, a straggler and one who is
refused; `FailureCap` 4 lets two failures be counted after the breaker opened.
With the service's searches in the state, `fetch_scra` has two workers and a
threshold of 1: a probe and a straggler are left.
Three triggers are a first one, a retry and a third that meets either; two of
them overlapping on one run, after a first lookup failed, is where all the
consequences of overlap lie, so the pool has two workers (the code has 3) and
the third entry waits for one of them.  Two applicable sources give every
verdict, and the third row is the one that does not apply.  Two attempts are
one that is retried and one that is the last (the code has 5, and 3 for the
SCRA submit); two submits can leave one search that nobody knows of; one poll
may leave the search pending.  In `rate_limiter` four attempts reach the cap of
the delay (lowered to 6 ticks; with the real 60 it is never reached), and a
window of 4 ticks holds two delays.  Two servers race for every statement; two
faults are any two of a stop, a failing statement and a cut-off read, and the
servers are interchangeable (`Symmetry`; the run has no liveness property).
Numbers of sources, requests, callers,
workers, attempts, servers and files are parameters of the theorems.
`lookup_crash` has 8.4 million states, `startup` 5.5 million, `fetch_probe` 1.8
million, `lookup_faults` 1.5 million, the others between 0.4 and 0.8 million;
none takes more than about two minutes.

**Deadlock.**  `CHECK_DEADLOCK FALSE` where the environment may stop: every
trigger is sent once, no call, fetch or lookup need arrive, and a server that is
up has nothing more to start.  The rate limiter's run checks it.

**Fairness.**  Weak fairness of what has started, never of what starts it:
the return of a call (HTTP clients have timeouts, retry loops a last attempt,
the poll loop 30 seconds); a handler's or a goroutine's next statement; a
worker's last statement, which `SourceFetch`'s `JobEnds` shows that it reaches;
the ticker and the refill goroutine; the goroutines of a bulk request, with the
triggers they make.  No trigger of a client, crash, health poll or step of the
SCRA service is fair; nor is anything in `Startup`, where nothing restarts a
server that is down.

## 4. The proofs

| Theorem | Assuming | Says |
|---|---|---|
| `TypeAndThreshold`, `ProbePerCooldown` | | threshold exact; one probe per opening |
| `ProbePresent` | all calls report, no health polls | half-open has its probe |
| `BurstBounded`, `LimiterTypes` | | at most three grants more than ticks; types, with the queue |
| `CourtUsesLimiter`, `CourtBurstBounded`, `CourtTypes` | | the court workers are callers of the limiter, so the same for them; types |
| `CourtLoad` | | per tick one request, three for the burst, and one per first delay for each worker |
| `ReportsOnce` | | a worker reports once, or times out |
| `UsesProtocol`, `FetchThreshold`, `FetchOneProbe` | | the workers implement `BreakerProtocol`, hence threshold and one probe |
| `ScraImplementsFetch`, `ScraReportsOnce`, `ScraOneProbe` | | the SCRA workers beside their service implement `SourceFetch`, so they report once and probe once |
| `VerdictHolds`, `SearchesAreBounded` | | a worker reports its last search's status; at most `MaxAttempts` searches |
| `FetchTypes`, `OpenLoad` | | types; an open circuit costs the service no more than the other workers had still to send |
| `SuccessNeedsCall`, `NoCallUnadmitted` | | no success without a request, no request without admission |
| `ProbeNeverLost` | no health polls | half-open has its probe in the pipeline, unless the service is SCRA |
| `TypeCorrect`, `NeverOvercount` | | types; attempts are never invented |
| `PendingOwned` | no faults, no crashes | a pending run has a lookup, or a handler about to start one |
| `AtMostOneLookup`, `SuccessStays`, `ResetsRetryable`, `NoNeedlessCall` | `~Overlap` | with faults and crashes: one lookup, success final, no reset of a success, no needless call |
| `CompleteIsResolved`, `VerdictMatchesRows`, `AttemptsAreExact`, `LookupImplementsEnrichment` | `~Overlap`, `~Faults` | with crashes: complete is resolved; the verdict is that of the rows; attempts are exact; Lookup implements Enrichment |
| `ApiImplementsLookup`, `ApiTypes`, `ApiNeverOvercounts` | | bulk requests and readers leave `Lookup` what it is, so its theorems hold under them; types |
| `ApiPendingOwned`, `BulkIsTruthful` | no faults, no crashes | a pending run has an owner; the response to a bulk request tells who started a lookup from who met one |
| `ApiSuccessStays` | `~Overlap` | success is final behind the API |
| `ApiKeepsPromises`, `ViewIsNotBehind` | `~Overlap`, `~Faults` | with crashes: the case behind the API is that of `Enrichment`; no status is ahead of its rows |
| `RecordsAreTrue`, `UpIsReady` | | for any consistent files, with failing statements anywhere: what is recorded was applied and who serves is ready, with the two exceptions above, which are in the properties |
| `LosersOnly`, `StartupTypes` | | without an operator a server that exits without a fault has lost a race; types |

`~Overlap` says that handlers of one case are served one at a time, which
nothing in the code enforces; the overlap runs show what is lost without it.

The constants are assumed to be what their comments say: limits and thresholds
are natural numbers, `Workers` and `Callers` are finite sets (three errgroup
goroutines for each lookup that is running), there is at least one worker, and
the cap of the delays is not below the first (`retry.go` has 30 s and 1 s).

The arguments:

- *Breaker.*  `TypeOK /\ ThresholdInv` is inductive only together (a breaker
  that closes has no failures, one that opens has the threshold).  One probe
  per cooldown needs the count tied to the state: none has been
  admitted in an open breaker that has not been half-open since it opened.
- *Limiter.*  The bound is inductive once the potential is added: grants plus
  the tokens and ticks still in the pipe never exceed ticks plus three.  For
  the types the queue must hold exactly the callers that wait, each once
  (`QueueInv`); a caller that gives up leaves from any place in it, so `Holds`
  has a lemma for each way the queue changes.
- *Load at the court service.*  `LoadInv` charges every request either to a
  grant of the window or to the slot of `InitialDelay` ticks in which it is
  sent: the first request of a worker that got its token in the window to that
  token, every other to its slot.  No slot is charged twice for one worker,
  since no delay is shorter than a slot.  A worker has at most
  `ticksIn \div InitialDelay + 1` slots in the window, and grants are bounded by
  `BurstBounded`.
- *Workers.*  `ReportedOnce` is inductive with the types.  `UsesProtocol` needs
  only that: each action of a worker is a step of the protocol or leaves the
  breaker alone.  `ProbeNeverLost` goes the same way to a protocol in which
  every call reports, since nobody but SCRA workers polls (`NoPolls`).
  `OpenLoadBounded` is inductive once what is still to come is counted: while
  the circuit is open, the requests seen and the requests that admitted workers
  may still send (`Remaining`) stay within the others' share.  The worker whose
  failure opens the circuit has none left, every request sent is one of those
  remaining, and nobody is admitted before the circuit is half-open.
  `SuccessNeedsCall` and `NoCallUnadmitted` are what `Lookup` builds on when it
  reduces a worker to calls and a verdict.
- *SCRA.*  `ServiceInv` says that a worker has at most as many searches as
  requests, that it knows of one, the last, from the moment its submit got
  through, and that its verdict is that search's; only a settled search has a
  verdict, and a settled search is never settled again.
- *Startup.*  `StartupInv` says that the script has applied every file it has
  left behind, and of the file it is sending everything it has sent, as far as
  these files are whole (`Whole`: neither they nor a file before them has lost
  a statement).  Hence what a statement of a whole file requires is there, by an
  earlier file or an earlier statement (`StatementWorks`), so if it fails its
  object exists, and the record is true.  A server has applied every file that
  is not on its list any more.  `ExactBooks` is the stronger invariant of
  servers by themselves: no file is on record as failed, and exactly the
  objects of recorded files exist.  So the next file of a list works unless it
  is on record (`FirstWorks`), which is the race lost.
- *Serial lookups.*  `SerialInv` has four parts: one handler at a time; what a
  handler concluded from the run's status still holds (`HandlerFresh`); while a
  lookup runs, the run is pending and no handler is at work (`LookupFresh`); one
  lookup.  The last two depend on each other: a lookup keeps handlers out
  because the run is pending, and the run stays pending because no handler is
  at work.  Success and needless calls follow from it: what is reset is
  retryable, what is fetched is unsettled.
- *Refinement.*  `ResultInv` adds what rows and verdict say of each other: a
  lookup in `fetch` processes exactly the pending rows, what it is about to
  write is what the rows add up to, and a handler that has still to reset a row
  knows it.  It needs reads that are complete.  On top of it, `VerdictInv` says
  that a verdict with no row pending is that of the rows, and `ExactInv` where
  the count of a source is exact: in its row, or with the worker that is busy
  with it.

- *API.*  Every step of `Api` is a step of `Lookup` or leaves its variables
  alone (`ApiStep`), so `Lookup`'s theorems carry over.  `BulkInv` says
  that an entry is in the channel, with a worker or answered; that a result is
  what became of its request, which is final; and that a run was made by a
  handler that then started its lookup.  A request that answers 200 or an error
  has met a run (`HaveRun`), which is never deleted; that it has a verdict or an
  owner is `PendingHasOwner`.  `ViewInv` follows a reader from its first statement to its second: a
  run read as complete is complete (`StepKeeps`: a success stays), and once a
  run was partial some source has succeeded (`PartialHasData`).
- *What the hypotheses exclude.*  Each is needed: with overlap TLC violates
  `ResetsOnlyRetryable` (`lookup_overlap_reset`), with a crash
  `CompleteSettles` (`lookup_crash_pending`) and `PendingHasOwner`, with failing
  reads `CompleteMeansResolved` (`lookup_read_fault`).

Every invariant and every action property of the passing runs is proved.  Only
checked, not proved, is what needs fairness (`ReportedCircuitRecovers`,
`PendingSettles`, `BulkResponds`, `CourtEnds`, `JobEnds`), since the
prover does not reason about `ENABLED`.  No module uses a recursive operator,
and no definition computes by recursion over data, so induction over data is
not needed; `PowersOfTwo` states what is needed of the exponent in `Backoff`.

## 5. Not modelled

- Formatting of responses, logging, configuration: no decision depends on them.
- `data`, `reason`, `error_message`, timestamps: written, and never read by the
  program except to be shown.
- Real time: the cooldown is a bit, delays (but for those of `Court`) and
  deadlines are steps.  A poll's deadline can pass at any moment.
- Cancellation of lookups: their context is `context.Background()`.
- `DoWithResult` and `GetMigrationStatus`: nothing calls them.
- `ListCases`: it makes the first of the two reads of `GetStatus`, for each case.
- The fixed data and the random answers of the mock property and court
  services: the gateway sees replies, and `Clients` has their classes.
- The logger: its files hold no state that the program reads.
- The scripts but `migration.sh`: they build, start, demonstrate and show logs.
- A panic in a worker (`scra.go:177` with no result) stops the process: it is
  `Crash`.

## 6. The plan

Done, in this order: breaker and its protocol, the lookup, the limiter, the
workers, proofs of each; then `Startup`, `Api`, `Court` and `Scra`, with the
theorems that tie them to the modules they extend; then the theorems for all
the safety properties that were only checked.  Next:

1. Breaker and store together: workers of several cases as the lookups of
   `Lookup`, which refine its `Call` and `SetSourceResult`.  `SuccessNeedsCall`
   and `FetchTypes` are the first half of that.
2. The rest of the mock SCRA service, as far as a property depends on it.
