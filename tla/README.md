# TLA+ specification of the Host Monitoring server

Host Monitoring is a Rust server (`host-monitoring-server/`) with one SQLite
database.  Agents on monitored hosts pair with it and then send it reports;
administrators create invites, look at hosts and delete them in a web console.
This directory specifies the parts of the server that keep state and run
concurrently, model-checks them with TLC on small instances, and proves the most
important properties with TLAPS for all instances.

Paths below are relative to `host-monitoring-server/src/` unless they begin with
another top-level directory.

## 1. The system

### Components

| Component | Source | State | Operations |
|---|---|---|---|
| Report ingestion | `http.rs` (`report`), `telemetry.rs`, `store.rs` (`store_report_batch`, `store_report_in_transaction`) | report tables; bounded queue; batch of the writer task; shutdown flag and its notify permit | authenticate, rate-limit, reserve a slot, send, wait for the result; collect and commit a batch; shut down, drain, abort |
| Retention | `retention.rs` | `aggregated_at` marks, hourly aggregates; transaction count of the run | roll up a batch, delete a rolled-up batch, expire aggregates; shut down |
| Pairing | `http.rs` (`create_instance` … `activate`), `store.rs` | invites, pairing requests, credentials, audit events | create and cancel an invite, create and poll a request, activate, delete a host |
| Rate limits | `pairing_admission.rs`, `http.rs` (`ReportBuckets`) | bounded maps of token buckets | check |
| Database ownership | `database_lock.rs`, `database_schema.rs`, `main.rs` | two lock files; the database file | serve, doctor, admin-create, admin-reset-password; open, create, clean up |
| Host console | `http.rs`, `store.rs` (`list_hosts`, `get_host`, `history`, `update_remark`), `clients/web/src/App.tsx` | names of hosts and their audit events; in the browser the place in the list, the requests under way and the answer shown | list hosts, host detail, history, update remark; next page, previous page, refresh |
| Accounts and sessions | the external library `sarmg-admin-auth` | users, sessions | log in, bootstrap, reset password |
| Validation, errors, configuration | `model.rs`, `error.rs`, `config.rs`, `protocol/` | none | pure checks and translations |
| Release bundle and contract | `release_bundle.rs`, `release_contract.rs` | none | verify files against a manifest |
| Rest of the web console, scripts, packaging | `clients/web`, `scripts` | none on the server | |

### How they interact

Everything meets in the SQLite file, in WAL mode, through one pool of 16
connections.  Report handlers do not write to it: they hand their report through
a bounded channel to the one writer task, which stores a whole batch in a single
transaction, each report under its own savepoint, and answers each handler
through a oneshot channel.  The retention task works on the same tables in short
transactions of its own.  Console handlers (invites, deletions, remarks) write
directly.  Deleting a host cascades to its reports, aggregates and credentials
and so changes what the other two will find.  Locks beside the database file keep
administrator commands away from a running server.

### What is hard

* A handler that reserved a queue slot while the writer shuts down; a deadline or
  a client that goes away while the transaction commits; a failing report among
  good ones; COMMIT whose outcome nobody learns; a crash anywhere.
* Late, repeated and equally old reports, arriving between the transactions of
  the retention task, which must never take a host's latest report and never count
  one twice.
* Pairing transactions that decide on what they have read and write later; calls
  whose answers were lost and are made again; requests that expire on the way.
* Token buckets whose map is full, or whose clock goes backwards.
* A process killed while it creates the database.
* Reads of several statements without a transaction, and a list read page by page,
  while reports, roll-ups, activations and deletions go on; answers that come in after the
  next click.

`PROJECT.json` lists these hazards at their lines with the properties that cover
them.  One is not covered: `last_seen_at` moves only with reports that become the latest
(`store.rs:618`), so a host whose clock was set back is shown offline though it reports; the
code states no promise that a property could hold it to.

## 2. Modules

```
ReportStore ─┬─ TelemetryWriter ── (refines) IngestService      MCTelemetryWriter
             │        └─ TelemetryWriter_proofs
             ├─ Retention ─┬─ Retention_proofs                  MCRetention
             ├─ HostConsole ── HostConsole_proofs               MCHostConsole
             └─ ReportStore_proofs
HourlyMetric ──────────────┘
PairingStore ──── Pairing ── (refines) PairingService           MCPairing
                     └─ Pairing_proofs
TokenBuckets ─┬── ReportBuckets ─────┬─ RateLimits_proofs
              └── PairingAdmission ──┘                          MCPairingAdmission
DatabaseOwnership ── DatabaseOwnership_proofs                   MCDatabaseOwnership
FiniteSetLemmas (lemmas: ranks, least and greatest elements, sums, induction)
```

The `MC…` modules only define values for the constants.  The specifications in `HourlyMetric` and
`PairingAdmission` are called `MetricSpec` and `AdmissionSpec`, since a module of proofs extends each
together with another specification.

### ReportStore: the report tables

`DB` has the live hosts (with credentials), the row of every report id, the
latest pointer and latest collection time of each host, and which rows hold a
payload.  `VerdictOn` is what `store_report_in_transaction` answers (unauthorized, conflict, duplicate,
accepted), `Stored` what it does to the tables, `HostDeleted` the cascade of
`delete_host`.  `Consistent` says that a host's pointer names the newest of its
rows, by collection time and then id, and that this row alone holds a payload.

### TelemetryWriter: from handler to commit

Each request goes through `report` and `TelemetryWriter::submit`: `Authenticate`
(401, 429, 503), `Reserve` (full queue, closed queue, deadline), `Send`, `Receive`, or
`Disconnect` at any point.  The writer has one action per await of `run_writer`
(`WriterTop`, `WriterRecv`, `WriterNotified`, `WriterDrained`, `WriterFill`,
`WriterSelect`) and one per step of `persist_batch` and `store_report_batch`
(`WriterBegin`, `WriterStore`, `WriterCommit`, `WriterReply`).  A transaction works
on a private copy `tx`; commit makes it the database, and a commit that reports an
error may have done so or not (`Recovered`).  `RequestShutdown`, `NotifyShutdown`,
`JoinWriter` and `DrainTimeout` are `TelemetryWriterTask`; `notified` is the permit
that `Notify::notify_one` leaves for a later `notified()`.  `Restart` is a crash or
an orderly exit, and the next start.

Time is left out: a deadline may expire whenever the code waits under it, and the
flush timer may fire at once.  The statistics counters are left out.

### IngestService: what ingestion promises

The abstract store decides on each report in one instant and answers afterwards, or
not.  `TelemetryWriter!ImplementsService` is the refinement: the ledger is the owner
of each row, and a request's verdict is the result that is committed but not yet received.

### Retention and HourlyMetric

`BEGIN IMMEDIATE` makes each of the three transactions one action
(`AggregateRaw`, `DeleteRaw`, `DeleteExpired`); `Advance` is the loop of
`run_cycle_at` with its transaction limit.  `RunFails`, `Stop` and `Restart`
end a run with the transaction in flight rolled back or committed unseen.
`StoreReport`, `DeleteHost` and `ClockAdvances` are the rest of the server between
two transactions.  An aggregate is its sample count and time span.
`HourlyMetric` has the arithmetic of one column: recording into a batch and
merging a batch into the stored row by `hourly_upsert_sql`, with means kept as
exact fractions.

### HostConsole

`get_host` and `history` are two actions each (`GetSummary`, `GetPayload`; `CheckExists`,
`ReadHistory`), one per statement; `update_remark` is one transaction that takes the write lock with its first
statement (`UpdateRemark`, `AuditRemark`), and `Fail` is any error, after which a COMMIT may have
succeeded.  The page of `App.tsx` keeps its offset and its requests; every click aborts the
request before it (`Ask`), each request counts the hosts and then reads a page
(`Count`, `SelectPage`), and its answer arrives in any order (`Deliver`) or never (`Lose`).
`StoreReport`, `Prune`, `Activate` and `DeleteHost` are the rest of the server.  Hosts are numbered by
their place in the order of the list, since activation reads the clock before it waits for
the write lock and hosts may join anywhere.  `goneThen`, `must` and `met` are history
variables: who was gone at the last click, whom a walk has to meet, whom it met.
`must` drops the hosts behind one that was deleted or joined: there OFFSET skips or
repeats a host, by construction of the list.

### PairingStore, Pairing and PairingService

`PairingStore` says what each call answers and does to the tables, given a
snapshot and the set of requests that have expired at the call's clock.
`Pairing` runs the calls as SQLite runs them: a deferred transaction takes its snapshot
with its first statement (`Begin`), decides (`Read`), and its first write fails if
another connection committed since (`Fresh`); its writes and COMMIT are one step
(`Write`) because other writers wait and readers do not see them.  `Fail` is any
error, the busy timeout, a client that disconnects or a crash.  Calls hold one of
`PoolSize` connections.  A repeated call is another member of `Call`.  Rows are named by
the calls that made them, so that hashes and UUIDs need no model; since they cannot be
guessed, a call begins once the calls it names are over (`Known`).  Of the cleanup
in `create_pairing` the model does not fix which expired rows go (the oldest in the code).

`PairingService` lets each call take effect at most once in one instant on the current
database; `ImplementsService` says that the transactions do no more.

### TokenBuckets, ReportBuckets and PairingAdmission

`TokenBuckets` has the two copies of the bucket code: credit, refill, expiry, eviction
and Retry-After.  Credit is kept in units of time, exactly; the code's `f64` rounding
is not modelled.  `ReportBuckets` reads the clock under the lock, as `report` and
`check_invite_account` do.  In `PairingAdmission` a call reads the clock (`Arrive`)
before it waits for the mutex (`Check`), as `check_create`, `check_poll` and
`check_activation` do, and spends a token in each of two maps.  Its history variable `judged` is the time
up to which a source has its credit: that of its last refill, or, once its full bucket was
dropped or evicted, of that.  `back` adds up how far `judged` has gone back: when a late call sets the
bucket's own time back, and when a bucket that was removed is made anew at an earlier time than its
removal.

### DatabaseOwnership

Commands take the locks without waiting, open the database or create it, finish, fail or are
killed.  Of the file the model keeps whether it exists and whether the schema is in
its main image or in the WAL only, which is all that the read-only preflight
(`immutable=1`) can tell.

## 3. Runs

| Run | Properties | Instance and why it is enough |
|---|---|---|
| `ingest_retry` | `TypeOK`, `AckDurable`, `RejectionsJustified`, `AcceptedOnce`, `GracefulDrain`, `ImplementsService` | a report, its retry, and another host's report with the same id; queue and batch of 2, so that the queue fills, a batch has neighbours, and one request waits for another's batch.  The report and its retry are symmetric |
| `ingest_live` | `StoreConsistent`, `QueuedAnswered`, `ShutdownEnds` | two reports of one host collected at the same time, queue and batch of 2: both orders and all batchings, under fairness |
| `retention` | `TypeOK`, `LatestSurvives`, `Accounted`, `Visible`, `RawOutlivesRetention`, `AggregateOutlivesRetention`, `OverdueLeaves` | three reports of one host in two hours and one of another, each stored up to twice; batches of 2 and four transactions a run, one more than the configuration's minimum, so that runs are cut off; the clock passes both retentions |
| `retention_replay` | `ReplayNotAccepted` (violated) | see Findings |
| `hourly_metric` | `ExactAggregate` | every sequence of at most five values or gaps, cut into batches in every way |
| `pairing_life` | `TypeOK`, `Audited`, `AnswersHold`, `PairingsMatchHosts`, `ImplementsService` | one request, two invites, one cancellation, one deletion, one poll, on two connections |
| `pairing_race` | `PendingBounded`, `ConstraintsSuffice` | four requests of two devices (a repetition, a second one, one whose token is taken) for two places, one per device, with expiry and cleanup of one at a time; one of them is activated and its host deleted, so that the repetition may come before, between or after |
| `report_buckets` | `TypeOK`, `RateBounded`, `RetryAfterSuffices` | three hosts in a map of two, burst 2, time to 5: buckets deplete, refill, are evicted and expire |
| `admission_safe` | `AdmissionTypeOK`, `BudgetPlusSkew` | five calls of three sources for three devices, three of them of one source; maps of two buckets, so that calls of others drop or evict the bucket of a source and it is made anew, at an earlier time too |
| `admission_skew` | `BudgetBounded` (violated) | see Findings |
| `database_ownership` | `TypeOK`, `OneOwner`, `OpenedStaysCurrent`, `LeftoverOnlyIfUnclean` | two servers, two doctors and both administrator commands, again and again |
| `host_console` | `TypeOK`, `AnswersJustified`, `DetailCoherent`, `HistoryComplete`, `RemarkAudited`, `PageCurrent`, `PagesComplete` | three hosts, one a page, the page making three requests, so that it walks to the end or clicks on while two answers are under way; a detail, two histories (one with a window) of at most two rows, with three reports of the host, two of one time; two remarks of one host |

`pairing_life` has no repeated request, and neither pairing run two requests for one invite: with them the runs take
too long.  That the calls stay serializable, and hosts and requests one to one, with those too is what the
theorems `Serializable` and `MatchKept` add, which hold for any calls.

Bounds that are not in the code are the constants marked "bound" in the modules: the last
time of the clock (`MaxNow`), how often a report is stored (`MaxStored`), how often the page asks
for the list (`MaxFetches`), and `Scenarios`: the reads, the remarks and the page change nothing
another of them looks at, so a behaviour of `host_console` has the page, or one read, or the two
remarks.  Requests and calls are finite sets of attempts, each made once.

Deadlock is not checked where every call is made once and the system then rests:
the runs of `MCPairing`, `MCPairingAdmission` and `MCHostConsole`, and `HourlyMetric`, which ends after its
last value.  Everywhere else it is.

### What the properties say

* **Ingestion.**  `AckDurable`: a report answered 202 is in the committed database as long
  as its host lives.  `RejectionsJustified`: 401 (the agent gives up its pairing) and 409
  (it drops the report) never come from a race.  `AcceptedOnce`: of all attempts at a
  report one at most is told `accepted=true`.  `GracefulDrain`: a writer that ends by itself
  leaves nobody queued, reserved or waiting.  `StoreConsistent`: see `Consistent`.
* **Retention.**  `Accounted`: what an hour's aggregate counts and what is not rolled up
  yet add up to what was stored.  `Visible`: a stored report is a raw row or lies
  in its aggregate's span.  `LatestSurvives`: no host loses its latest report, nor is it marked for deletion.
* **Pairing.**  `PairingsMatchHosts`: live hosts, active requests and active invites match
  one to one.  `Audited`: the audit table alone tells the status of every instance.
  `AnswersHold`: what a caller was told happened, and a refusal had its reason.
  `PendingBounded`, `ConstraintsSuffice`: the limits hold under races, and
  no UNIQUE constraint is left to fail in `activate`.
* **Rate limits.**  `RateBounded`: in no stretch of time does a host get more than a burst
  and its refills through, whatever became of its bucket.  `RetryAfterSuffices`: who
  waits as told is admitted, unless it waited for room in the map.  `BudgetPlusSkew`: where the clock is read before
  the mutex is taken, the surplus is at most what the clock went back for the source.
* **Console.**  `DetailCoherent`: a summary that names a report comes with the payload of it or of
  a newer one.  `HistoryComplete`: a history misses no row that was there all along, except behind
  a full page of newer ones.  `RemarkAudited`: the name of a host is the one its last audit event
  tells of.  `AnswersJustified`: 404 and success say whether the host was there when the call looked.
  `PageCurrent`: late answers to earlier clicks are not shown.  `PagesComplete`: whoever clicks to the
  last page has met every host whose place did not change.
* **Ownership.**  `OneOwner`, `OpenedStaysCurrent`: see the module.  `LeftoverOnlyIfUnclean`: clean-up leaves
  nothing, and a process killed at any step, the clean-up included, leaves no WAL without its database.
  Both allow a doctor beside a server, and none says what a doctor makes of a file that is removed under it.

### Fairness

`ingest_live`: weak fairness of the writer task and of a handler about to send, both of
which the runtime polls whenever they can run; no step of the writer stays blocked for
ever unless it waits for arrivals, since a transaction that cannot proceed fails.  There is
none for clients, shutdown, deadlines or administrators, so `QueuedAnswered` and
`ShutdownEnds` do without the deadlines.
`retention`: weak fairness of the ticker, and strong fairness of the three
transactions: one that is tried again and again succeeds in the end.  Runs may fail and
the process may restart for ever.

## 4. Proofs

All constants are arbitrary within the `ASSUME`s of the modules, which say what the configuration
checks (`WriterAssumption`, `RetentionAssumption`, `BucketAssumption`, `PoolAssumption`, `ConsoleAssumption`), that
some sets are finite, and that `None` is none of the values it stands beside (also `StoreAssumption`,
`NoneAssumption`, `AdmissionAssumption`, and for `Null` `MetricAssumption`).

* `ReportStore_proofs`: `Stored` and `HostDeleted` map databases to databases, preserve
  `Consistent`, and `Stored` removes and changes no row (`Extends`).
* `TelemetryWriter_proofs`: `TypeCorrect`, `StoreIsConsistent`, `AcknowledgedIsDurable`,
  `RejectedForAReason`, `DrainIsGraceful`, from one inductive invariant.  `TypeOK` alone is
  not inductive: the control state must say what the batch and results hold
  (`WriterShape`); the writer's view must be consistent and extend the committed tables
  (`Tables`); every result, in the transaction, on its way or delivered, is justified by the
  view it was made in (`Truthful`); and every waiting handler is in the queue, in the
  batch, or has its reply (`Attended`).  `AcceptedAtMostOnce` needs more: "accepted" is claimed in
  the transaction, in a reply or in an answer, and no two claims to one report stand side by side
  unless the first owner is gone (`ClaimsApart`).
  `IngestionIsAtomic` is the refinement of `IngestService`, from one more invariant (`RInv`): a report stands
  at most once in queue and batch, and while it does its handler has no result; and inside the transaction the
  results tell all that the writer's view adds to the database (`Sequential`).  So the commit is the instant at
  which the batch takes effect (`CommitDecides`), whether its answer is delivered, lost with the process or turned
  into a failure, and every other step answers a caller, gives one up, or does nothing the service would show.
* `Retention_proofs`: `LatestAlwaysSurvives`, `RawIsRolledUpFirst`, `RunsAreBounded`.  The invariant says of
  every marked row that it exists, is past the retention and is no host's latest; a
  later arrival can only move the latest pointer to itself, so this stays true
  until the row is deleted.  `ReportsStayVisible` and `AggregatesKeptLongEnough` add that every report
  that was stored is a row still to be rolled up or within its aggregate's span (`Covered`), which an upsert
  only widens.  `EveryReportCountedOnce` keeps the books (`Balanced`): for every host and hour the
  samples of the aggregate, and of the rows not yet rolled up, sum to what was stored.  An upsert moves rows
  from one side to the other, once each since a row is marked in the same transaction, and deletion takes marked
  rows only.  `AggregatesAreExact` is about `HourlyMetric`: the stored row describes the values up to the
  last merge and the batch those after it (`MetricInv`), and a merge is exact because the weighted mean of two
  disjoint stretches is the mean of both.
* `Pairing_proofs`: `TypeCorrect`, `MatchKept`, `ConstraintsKept`, `AuditKept`, `AnswersKept`, `LimitsKept` and the
  refinement `Serializable`.  The invariant has two parts.  One is about a database value
  (`Sane`: tables and audit events tell one story) and is shown once for what each call of `PairingStore` does to
  any such database that does not yet have the call's rows (`Unborn`).  The other is about transactions (`CallOK`): a
  snapshot is a sane database of the past, and a transaction that comes to its write has read there what
  calls for one; if the snapshot is not current any more, `Fresh` stops it.  Hence each `Write` is the call's effect on the current database, which is the refinement,
  and the properties of databases carry over.
* `HostConsole_proofs`: all seven invariants.  Per call, the invariant relates what it has read to the tables
  as they are now (`CallOK`): the latest pointer only moves to newer reports, rows of a host that
  was there either stay or go for good.  For the walk (`Walk`), the page at offset `o` holds the hosts of rank
  `o` to `o + PageSize - 1`, ranks being a bijection (`FiniteSetLemmas!BeyondBijection`), and everything
  a walk has to meet before its offset has been met.
* `RateLimits_proofs`: `TypeCorrect`, `RateKept`, `RetryAfterHonest` for reports, `AdmissionTypeCorrect` and `SurplusIsSkew`
  for pairing calls.  `Outcome` says once what any check does to a map with any keys, at a time that may be earlier
  than those in the map, and to the
  *level* of each key, its credit or a full burst when it has no bucket: expiry and eviction leave it as it is.
  `RateBounded` is not inductive; `Budget` is: what was let through since any report, plus the level, is at
  most a burst plus the time since.  For Retry-After, by the promised time the host's own bucket, or one of
  the others if it had none, has earned enough (`Promised`).
  `SurplusIsSkew` has a budget of its own (`SourceBudget`): what the calls of a source since any time have
  cost, plus its credit, is at most a burst, what the time up to `judged` has earned, and `back`.  A check at time
  `t` raises `judged + back` by at least what the bucket earns by it, forwards or backwards (`CheckCredits`).
  The bound needs `judged`, not the bucket's own time: a full bucket that another call drops
  at a later time may be made anew at an earlier one, and the burst it then has was earned in between.
  `BudgetKeptInOrder` adds the hypothesis that a call is checked at the time it has read (`ClockUnderLock`, which
  the code does not keep): then no source is ahead of the clock, `back` stays 0 (`InOrder`) and `BudgetBounded` holds.
* `FiniteSetLemmas`: what the library's `Min`, `Max` and `MapThenSumSet` choose and compute.  The library's
  induction theorems take an operator as a parameter, which the provers cannot instantiate;
  `NatInductionSet` and `SubsetInduction` take the set of the numbers, or of the subsets, that a formula holds of,
  and prove that it is all of them.  So sums over finite sets, written with a fold, can be reasoned about.
* `DatabaseOwnership_proofs`: `OwnersExclude`, `OpenedIsSafe`, `InitializationCleansUp`, `LocksExclude`.
  Who holds a lock follows from where it is (`LocksHeld`); hence a creator of the
  file is the only command that may write (`OneCreator`), and nobody opened the file before (`CreatorState`).

Only model-checked: liveness (`QueuedAnswered`, `ShutdownEnds`, `OverdueLeaves`), which is out of the prover's
reach.  Every other property of a passing run is a theorem.

## 5. Findings

* `retention_replay`: the id of a report is remembered by its raw row only.  A report
  repeated after its row was rolled up and deleted is accepted again and counted twice in its hour,
  though `docs/operations.md:117` promises `accepted=false` for a replay without a time limit.
* `admission_skew`: `check_create`, `check_poll` and `check_activation` read the clock
  before they wait for the mutex, and a bucket takes over an earlier time than its
  own (`pairing_admission.rs:218`), so that the time between is credited twice.  `BudgetPlusSkew`
  bounds the surplus by how far the source was set back, in all (proved as `SurplusIsSkew`).
  Reading the clock under the mutex would be enough to keep the documented budget (`BudgetKeptInOrder`).

`LeftoverOnlyIfUnclean` has a corner worth knowing: a process killed between creating the
file and the checkpoint leaves a database that every later start rejects, since the preflight
reads the main image only; it has to be removed by hand.

## 6. Not modelled

* Accounts, sessions and the HTTP runtime: external libraries.  The locks, the background tasks and
  their shutdown are modelled, signals and the HTTP drain are not.
* Validation, error envelopes, configuration: pure.  What they establish appears as
  assumptions on the constants.
* Release verification and packaging scripts: a program that reads files once and compares them, with
  no state that another actor changes.
* The console beyond the host list (`Instances`, `HostDetails`), `list_invites` and `pairing_public`, which are
  one statement each; online and offline, which are ages on the wall clock.
* SQLite itself: transactions, snapshots, savepoints and the WAL are taken to work.
  Where the code depends on how they fail (BUSY, a COMMIT of unknown outcome, a crash), all outcomes are possible.
* `f64` rounding, the text of answers, timer lengths.
* A composition of ingestion, pairing, retention and console on one database.  They meet in the report
  tables, whose operations all of them take from `ReportStore`, and in the deletion of a host, which is an action of
  each.  A pairing after a deletion gets a new instance id and so disturbs nothing of the old host.

Two things the console does that no property forbids: a deletion between two pages lets the walk skip
a host (`PagesComplete` leaves it out), and a detail whose host is deleted between its two statements is answered
503, not 404 (`GetPayload`).

## 7. Plan

Done: ReportStore, TelemetryWriter and IngestService, Retention, HourlyMetric, Pairing, the rate limits,
DatabaseOwnership, HostConsole, and the proofs of section 4.

Worth doing next: the invite form of the web console, which shows a secret once and refreshes the host list, and
the steps of the liveness arguments that are safety properties (what a step of the writer task brings closer).
