------------------------------ MODULE Retention ------------------------------
(***************************************************************************)
(* Telemetry retention (retention.rs): the maintenance task that rolls old *)
(* raw reports up into hourly aggregates, deletes the raw rows it has      *)
(* rolled up and, later, the aggregates, in bounded batches, each in a     *)
(* transaction of its own.  Between two transactions reports arrive, hosts *)
(* are deleted, the clock advances, the task is stopped or the process     *)
(* dies.                                                                   *)
(*                                                                         *)
(* BEGIN IMMEDIATE makes each transaction one step.  Of an aggregate the   *)
(* model keeps its sample count and its interval; the metrics are in       *)
(* HourlyMetric.                                                           *)
(***************************************************************************)
EXTENDS ReportStore, FiniteSets, FiniteSetsExt

CONSTANTS Sent,               \* [ReportId -> Row]: the report that has this id
          HourLength,
          RawRetention,
          AggregateRetention,
          BatchSize,
          MaxTransactions,    \* per run
          FutureSkew,         \* how far ahead of the clock a report may be
          MaxNow,             \* bound: the last time of the clock
          MaxStored           \* bound: how often a report is stored

Aggregate == [samples : Nat \ {0}, from : Time, until : Time]

ASSUME RetentionAssumption ==   \* RetentionConfig::new
  /\ Sent \in [ReportId -> Row]
  /\ HourLength \in Nat \ {0}
  /\ RawRetention \in Nat \ {0}
  /\ AggregateRetention \in Nat /\ AggregateRetention > RawRetention
  /\ BatchSize \in Nat \ {0}
  /\ MaxTransactions \in Nat /\ MaxTransactions >= 3
  /\ {FutureSkew, MaxNow, MaxStored} \subseteq Nat
  /\ IsFiniteSet(ReportId)
  /\ None \notin Nat /\ None \notin Aggregate

VARIABLES
  db,            \* the report tables
  aggregatedAt,  \* client_metric_reports.aggregated_at
  hourly,        \* client_metric_hourly_aggregates
  now,
  pc,            \* where the task is: the transaction it runs next
  started,       \* the time its run began
  transactions,  \* of its run
  busy,          \* whether one of its round has done anything
  stopping,      \* shutdown was requested
  stored         \* history: how often a report was stored and neither its host
                 \* nor the aggregate that counts it deleted since

tables == <<db, aggregatedAt, hourly, stored>>
taskVars == <<pc, started, transactions, busy, stopping>>
vars == <<tables, now, taskVars>>

HourOf(t) == t \div HourLength

Key == Host \X {HourOf(t) : t \in Time}

KeyOf(i) == <<Sent[i].host, HourOf(Sent[i].at)>>

InRun == pc \in {"aggregate", "delete", "expire"}

Raw(i) == db.row[i] # None

Init ==
  /\ db = InitDB
  /\ aggregatedAt = [i \in ReportId |-> None]
  /\ hourly = [k \in Key |-> None]
  /\ now = 0
  /\ pc = "idle" /\ started = 0 /\ transactions = 0 /\ busy = FALSE /\ stopping = FALSE
  /\ stored = [i \in ReportId |-> 0]

-----------------------------------------------------------------------------
(* The rest of the server.                                                 *)

\* A report passes validate_report and is stored.  The other verdicts change
\* nothing here.
StoreReport(i) ==
  LET w == [host |-> Sent[i].host, id |-> i, at |-> Sent[i].at]
  IN  /\ w.at <= now + FutureSkew
      /\ stored[i] < MaxStored
      /\ VerdictOn(db, w) = "accepted"
      /\ db' = Inserted(db, w)
      /\ stored' = [stored EXCEPT ![i] = @ + 1]
      /\ UNCHANGED <<aggregatedAt, hourly, now, taskVars>>

\* The foreign keys cascade to the aggregates as well.
DeleteHost(h) ==
  /\ h \in db.live
  /\ db' = HostDeleted(db, h)
  /\ aggregatedAt' = [i \in ReportId |-> IF i \in RowsOf(db, h) THEN None ELSE aggregatedAt[i]]
  /\ hourly' = [k \in Key |-> IF k[1] = h THEN None ELSE hourly[k]]
  /\ stored' = [i \in ReportId |-> IF Sent[i].host = h THEN 0 ELSE stored[i]]
  /\ UNCHANGED <<now, taskVars>>

ClockAdvances ==
  /\ now < MaxNow
  /\ now' = now + 1
  /\ UNCHANGED <<tables, taskVars>>

-----------------------------------------------------------------------------
(* The three transactions of a run.                                        *)

\* B is what ORDER BY ... LIMIT BatchSize takes of the rows S.
IsBatch(B, S, Before(_, _)) ==
  /\ Cardinality(B) = Min({BatchSize, Cardinality(S)})
  /\ \A x \in B : \A y \in S \ B : Before(x, y)

Sooner(t, i, u, j) == t < u \/ (t = u /\ i < j)

\* Mutant: a host's latest report is rolled up too.
PendingAll == {i \in ReportId :
  Raw(i) /\ aggregatedAt[i] = None /\ db.row[i].at + RawRetention < started}

Pending == {i \in ReportId :
  /\ Raw(i) /\ aggregatedAt[i] = None
  /\ db.row[i].at + RawRetention < started
  /\ i \notin LatestIds(db)}

\* Mutant: the stored interval is overwritten.
UpsertedLastInterval(k, new) ==
  LET old == hourly[k]
  IN  IF old = None THEN new ELSE [new EXCEPT !.samples = @ + old.samples]

\* Mutant: ON CONFLICT DO NOTHING.
UpsertedOnce(k, new) == IF hourly[k] = None THEN new ELSE hourly[k]

\* hourly_upsert_sql
Upserted(k, new) ==
  LET old == hourly[k]
  IN  IF old = None THEN new
      ELSE [samples |-> old.samples + new.samples,
            from    |-> Min({old.from, new.from}),
            until   |-> Max({old.until, new.until})]

\* aggregate_raw_batch: one HourlyAggregate per host and hour of the batch.
AggregateBatch ==
  \E B \in SUBSET Pending :
    /\ IsBatch(B, Pending, LAMBDA i, j : Sooner(db.row[i].at, i, db.row[j].at, j))
    /\ LET Of(k)  == {i \in B : KeyOf(i) = k}
           New(k) == [samples |-> Cardinality(Of(k)),
                      from    |-> Min({db.row[i].at : i \in Of(k)}),
                      until   |-> Max({db.row[i].at : i \in Of(k)})]
       IN  hourly' = [k \in Key |-> IF Of(k) = {} THEN hourly[k] ELSE Upserted(k, New(k))]
    /\ aggregatedAt' = [i \in ReportId |-> IF i \in B THEN started ELSE aggregatedAt[i]]
    /\ UNCHANGED <<db, stored>>

\* Mutant: every raw row that is old enough is taken, rolled up or not.
RolledUpOrOld == {i \in ReportId :
  Raw(i) /\ i \notin LatestIds(db) /\ db.row[i].at + RawRetention < started}

RolledUp == {i \in ReportId : Raw(i) /\ aggregatedAt[i] # None /\ i \notin LatestIds(db)}

\* delete_aggregated_raw_batch
DeleteRawBatch ==
  \E B \in SUBSET RolledUp :
    /\ IsBatch(B, RolledUp, LAMBDA i, j : Sooner(aggregatedAt[i], i, aggregatedAt[j], j))
    /\ db' = RawDeleted(db, B)
    /\ aggregatedAt' = [i \in ReportId |-> IF i \in B THEN None ELSE aggregatedAt[i]]
    /\ UNCHANGED <<hourly, stored>>

\* Mutant: an aggregate goes by the start of its interval.
ExpiredFrom == {k \in Key : hourly[k] # None /\ hourly[k].from + AggregateRetention < started}

Expired == {k \in Key : hourly[k] # None /\ hourly[k].until + AggregateRetention < started}

\* delete_expired_aggregate_batch.  Aggregates of equal age go in any order.
ExpireBatch ==
  \E B \in SUBSET Expired :
    /\ IsBatch(B, Expired, LAMBDA k, l : hourly[k].until <= hourly[l].until)
    /\ hourly' = [k \in Key |-> IF k \in B THEN None ELSE hourly[k]]
    /\ stored' = [i \in ReportId |->
                    IF KeyOf(i) \notin B THEN stored[i]
                    ELSE IF Raw(i) /\ aggregatedAt[i] = None THEN 1 ELSE 0]
    /\ UNCHANGED <<db, aggregatedAt>>

Transaction ==
  \/ pc = "aggregate" /\ AggregateBatch
  \/ pc = "delete" /\ DeleteRawBatch
  \/ pc = "expire" /\ ExpireBatch

-----------------------------------------------------------------------------
(* run_maintenance, run_once_at and run_cycle_at.                          *)

StartRun ==
  /\ pc = "idle"
  /\ pc' = "aggregate" /\ started' = now /\ transactions' = 0 /\ busy' = FALSE
  /\ UNCHANGED <<tables, now, stopping>>

\* Mutant: the limit is only looked at when a round is over.
AdvanceUnbounded(next) ==
  /\ transactions' = transactions + 1
  /\ busy' = (busy \/ tables' # tables)
  /\ pc' = next
  /\ UNCHANGED <<now, started, stopping>>

\* Mutant: the run ends with the first transaction that finds nothing to do.
AdvanceWhileBusy(next) ==
  /\ transactions' = transactions + 1
  /\ busy' = (busy \/ tables' # tables)
  /\ pc' = IF transactions' >= MaxTransactions \/ tables' = tables THEN "idle" ELSE next
  /\ UNCHANGED <<now, started, stopping>>

\* The counters of the run, and which transaction is next.
Advance(next) ==
  /\ transactions' = transactions + 1
  /\ busy' = (busy \/ tables' # tables)
  /\ pc' = IF transactions' >= MaxTransactions THEN "idle" ELSE next
  /\ UNCHANGED <<now, started, stopping>>

AggregateRaw == pc = "aggregate" /\ AggregateBatch /\ Advance("delete")

DeleteRaw == pc = "delete" /\ DeleteRawBatch /\ Advance("expire")

\* The round is over; one that did nothing ends the run.
DeleteExpired ==
  /\ pc = "expire"
  /\ ExpireBatch
  /\ transactions' = transactions + 1
  /\ pc' = IF (busy \/ tables' # tables) /\ transactions' < MaxTransactions
           THEN "aggregate" ELSE "idle"
  /\ busy' = FALSE
  /\ UNCHANGED <<now, started, stopping>>

\* A transaction the task does not live to see: rolled back, or committed.
Unseen == UNCHANGED tables \/ Transaction

\* An error, or the time budget of the run; a later run retries.
RunFails ==
  /\ InRun
  /\ Unseen
  /\ pc' = "idle"
  /\ UNCHANGED <<now, started, transactions, busy, stopping>>

RequestShutdown ==
  /\ ~stopping
  /\ stopping' = TRUE
  /\ UNCHANGED <<tables, now, pc, started, transactions, busy>>

\* Either select drops whatever it waits for; abort() does the same.
Stop ==
  /\ stopping /\ pc # "stopped"
  /\ Unseen
  /\ pc' = "stopped"
  /\ UNCHANGED <<now, started, transactions, busy, stopping>>

\* The process dies, or ends after shutdown, and is started again.
Restart ==
  /\ Unseen
  /\ pc' = "idle" /\ started' = 0 /\ transactions' = 0 /\ busy' = FALSE /\ stopping' = FALSE
  /\ UNCHANGED now

Next ==
  \/ \E i \in ReportId : StoreReport(i)
  \/ \E h \in Host : DeleteHost(h)
  \/ ClockAdvances
  \/ StartRun \/ AggregateRaw \/ DeleteRaw \/ DeleteExpired \/ RunFails
  \/ RequestShutdown \/ Stop \/ Restart

Spec == Init /\ [][Next]_vars

\* The ticker fires again and again, and a transaction that is tried again and
\* again succeeds in the end.
Fairness ==
  /\ WF_vars(StartRun)
  /\ SF_vars(AggregateRaw) /\ SF_vars(DeleteRaw) /\ SF_vars(DeleteExpired)

FairSpec == Spec /\ Fairness
-----------------------------------------------------------------------------
(* Properties.                                                             *)

\* Types; a run never takes more transactions than its limit.
TypeOK ==
  /\ db \in DB
  /\ aggregatedAt \in [ReportId -> Nat \cup {None}]
  /\ hourly \in [Key -> Aggregate \cup {None}]
  /\ now \in Nat /\ started \in Nat /\ started <= now
  /\ pc \in {"idle", "aggregate", "delete", "expire", "stopped"}
  /\ transactions \in 0 .. MaxTransactions
  /\ busy \in BOOLEAN /\ stopping \in BOOLEAN
  /\ stored \in [ReportId -> Nat]

\* Retention never takes a host's latest report, marked for deletion or not, so
\* the latest pointers stay consistent however arrivals of older and newer
\* reports fall between its transactions.
LatestSurvives ==
  /\ Consistent(db)
  /\ \A i \in ReportId : aggregatedAt[i] # None => Raw(i) /\ i \notin LatestIds(db)

\* Nothing is lost or counted twice by the roll-up itself: of every hour of every
\* host, the samples of the aggregate and the raw rows not rolled up yet are
\* together as many as the reports that were stored.
Accounted ==
  \A k \in Key :
    LET samples == IF hourly[k] = None THEN 0 ELSE hourly[k].samples
        Ids     == {i \in ReportId : KeyOf(i) = k}
        waiting == {i \in Ids : Raw(i) /\ aggregatedAt[i] = None}
    IN  samples + Cardinality(waiting) = MapThenSumSet(LAMBDA i : stored[i], Ids)

\* A stored report stays visible: as a raw row, or within the interval of its
\* hour's aggregate.
Visible ==
  \A i \in ReportId :
    stored[i] > 0 =>
      \/ Raw(i)
      \/ LET a == hourly[KeyOf(i)]
         IN  a # None /\ a.from <= Sent[i].at /\ Sent[i].at <= a.until

\* A raw row disappears with its host, or once it is old enough and rolled up.
RawOutlivesRetention ==
  [][\A i \in ReportId :
       (Raw(i) /\ ~Raw(i)' /\ db.row[i].host \in db'.live)
         => db.row[i].at + RawRetention < now /\ aggregatedAt[i] # None]_vars

\* An aggregate disappears with its host, or once the newest of the reports it
\* counts is past the aggregate retention.
AggregateOutlivesRetention ==
  [][\A k \in Key :
       (hourly[k] # None /\ hourly'[k] = None /\ k[1] \in db'.live)
         => \A i \in ReportId :
              (KeyOf(i) = k /\ stored[i] > 0 /\ ~(Raw(i) /\ aggregatedAt[i] = None))
                 => Sent[i].at + AggregateRetention < now]_vars

\* A raw row that is overdue is rolled up and deleted, one batch after another,
\* unless the task is told to stop.
Overdue(i) == Raw(i) /\ i \notin LatestIds(db) /\ db.row[i].at + RawRetention < now

OverdueLeaves == \A i \in ReportId : Overdue(i) ~> (~Overdue(i) \/ stopping)

\* What docs/operations.md and HOST-009 say of a replay: the same report of the
\* same host is not accepted again, and so not counted again.
ReplayNotAccepted == \A i \in ReportId : stored[i] <= 1
=============================================================================
