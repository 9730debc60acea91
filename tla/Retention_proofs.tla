--------------------------- MODULE Retention_proofs ---------------------------
(***************************************************************************)
(* Proofs about Retention, for any hosts, reports and limits, and about    *)
(* the metrics of an hour (HourlyMetric), for any values and batches.      *)
(*                                                                         *)
(* The invariant is about the rows a roll-up has marked: they are there,   *)
(* they are past the raw retention, and none is the latest of its host,    *)
(* neither when it is marked nor ever after.  The two transactions that    *)
(* share the work need nothing else to agree on what may be deleted.       *)
(* What the aggregates need besides: each covers the reports it counts,    *)
(* and with the rows that wait its samples make up the reports stored.     *)
(***************************************************************************)
EXTENDS Retention, HourlyMetric, ReportStore_proofs, FiniteSetLemmas

MarkedFor(d, marks, t) ==
  \A i \in ReportId :
    marks[i] # None => /\ d.row[i] # None
                       /\ i \notin LatestIds(d)
                       /\ d.row[i].at + RawRetention < t

Types ==
  /\ db \in DB
  /\ aggregatedAt \in [ReportId -> Nat \cup {None}]
  /\ now \in Nat /\ started \in Nat /\ started <= now

IInv == Types /\ Consistent(db) /\ MarkedFor(db, aggregatedAt, now)

\* A report that is sent is a report that can be stored.
LEMMA SentType ==
  ASSUME NEW i \in ReportId
  PROVE  [host |-> Sent[i].host, id |-> i, at |-> Sent[i].at] \in Write
  BY RetentionAssumption DEF Row, Write

\* The time of a row is a number, and so is the retention.
LEMMA RowTime ==
  ASSUME db \in DB, NEW i \in ReportId, db.row[i] # None
  PROVE  db.row[i].at \in Nat /\ RawRetention \in Nat
  BY StoreAssumption, RetentionAssumption DEF DB, Row

\* Storing a report marks nothing, and makes none of the marked rows the latest.
LEMMA StoreKeeps ==
  ASSUME IInv, NEW i \in ReportId, StoreReport(i)
  PROVE  db' \in DB /\ Consistent(db') /\ MarkedFor(db', aggregatedAt, now)
<1> DEFINE w == [host |-> Sent[i].host, id |-> i, at |-> Sent[i].at]
<1>1. w \in Write /\ VerdictOn(db, w) = "accepted" /\ db' = Stored(db, w)
  BY SentType DEF StoreReport, Stored
<1>2. db' \in DB /\ Consistent(db') /\ Extends(db', db)
  BY <1>1, StoredType, StoredConsistent, StoredExtends DEF IInv, Types
<1>3. db.row[i] = None
  BY <1>1 DEF VerdictOn
<1>4. LatestIds(db') \subseteq LatestIds(db) \cup {i}
  <2>1. \A h \in Host : db'.latest[h] \in {db.latest[h], i}
    BY <1>1 DEF Stored, Inserted, IInv, Types, DB
  <2>2. QED
    BY <2>1 DEF LatestIds
<1>5. ASSUME NEW j \in ReportId, aggregatedAt[j] # None
      PROVE  /\ db'.row[j] # None
             /\ j \notin LatestIds(db')
             /\ db'.row[j].at + RawRetention < now
  <2>1. db.row[j] # None /\ j \notin LatestIds(db) /\ db.row[j].at + RawRetention < now
    BY <1>5 DEF IInv, MarkedFor
  <2>2. db'.row[j] = db.row[j] /\ j # i
    BY <1>2, <1>3, <2>1 DEF Extends
  <2>3. QED
    BY <1>4, <2>1, <2>2
<1>6. QED
  BY <1>2, <1>5 DEF MarkedFor

\* A deleted host takes its marked rows along.
LEMMA DeleteHostKeeps ==
  ASSUME IInv, NEW h \in Host, DeleteHost(h)
  PROVE  /\ db' \in DB /\ Consistent(db')
         /\ aggregatedAt' \in [ReportId -> Nat \cup {None}]
         /\ MarkedFor(db', aggregatedAt', now)
<1>1. db' = HostDeleted(db, h) /\ db \in DB /\ Consistent(db)
  BY DEF DeleteHost, IInv, Types
<1>2. db' \in DB /\ Consistent(db')
  BY <1>1, HostDeletedType, HostDeletedConsistent
<1>3. \A i \in ReportId : aggregatedAt'[i] = IF i \in RowsOf(db, h) THEN None ELSE aggregatedAt[i]
  BY DEF DeleteHost
<1>4. aggregatedAt' \in [ReportId -> Nat \cup {None}]
  BY DEF DeleteHost, IInv, Types
<1>5. LatestIds(db') \subseteq LatestIds(db)
  BY <1>1 DEF HostDeleted, LatestIds, DB
<1>6. \A i \in ReportId : i \notin RowsOf(db, h) => db'.row[i] = db.row[i]
  BY <1>1 DEF HostDeleted
<1>7. MarkedFor(db', aggregatedAt', now)
  BY <1>3, <1>5, <1>6 DEF IInv, MarkedFor
<1>8. QED
  BY <1>2, <1>4, <1>7

\* A roll-up marks old rows that are no host's latest.
LEMMA AggregateKeeps ==
  ASSUME IInv, AggregateBatch
  PROVE  /\ db' = db /\ aggregatedAt' \in [ReportId -> Nat \cup {None}]
         /\ MarkedFor(db', aggregatedAt', now)
<1>1. PICK B \in SUBSET Pending :
        aggregatedAt' = [i \in ReportId |-> IF i \in B THEN started ELSE aggregatedAt[i]]
  BY DEF AggregateBatch
<1>2. db' = db
  BY DEF AggregateBatch
<1>3. aggregatedAt' \in [ReportId -> Nat \cup {None}]
  BY <1>1 DEF IInv, Types
<1>4. ASSUME NEW i \in ReportId, aggregatedAt'[i] # None
      PROVE  db.row[i] # None /\ i \notin LatestIds(db) /\ db.row[i].at + RawRetention < now
  <2>1. CASE i \in B
    <3>1. db.row[i] # None /\ i \notin LatestIds(db) /\ db.row[i].at + RawRetention < started
      BY <1>1, <2>1 DEF Pending, Raw
    <3>2. db.row[i].at \in Nat /\ RawRetention \in Nat /\ started \in Nat /\ now \in Nat /\ started <= now
      BY <3>1, RowTime DEF IInv, Types
    <3>3. QED
      BY <3>1, <3>2
  <2>2. CASE i \notin B
    BY <1>1, <1>4, <2>2 DEF IInv, MarkedFor
  <2>3. QED
    BY <2>1, <2>2
<1>5. QED
  BY <1>2, <1>3, <1>4 DEF MarkedFor

\* A deletion takes marked rows, no host's latest among them.
LEMMA DeleteRawKeeps ==
  ASSUME IInv, DeleteRawBatch
  PROVE  /\ db' \in DB /\ Consistent(db')
         /\ aggregatedAt' \in [ReportId -> Nat \cup {None}]
         /\ MarkedFor(db', aggregatedAt', now)
         /\ \A i \in ReportId : db.row[i] # None /\ db'.row[i] = None => aggregatedAt[i] # None
<1>1. PICK B \in SUBSET RolledUp :
        /\ db' = RawDeleted(db, B)
        /\ aggregatedAt' = [i \in ReportId |-> IF i \in B THEN None ELSE aggregatedAt[i]]
  BY DEF DeleteRawBatch
<1>2. B \in SUBSET ReportId /\ B \cap LatestIds(db) = {} /\ \A i \in B : aggregatedAt[i] # None
  BY DEF RolledUp
<1>3. db' \in DB /\ Consistent(db')
  BY <1>1, <1>2, RawDeletedType, RawDeletedConsistent DEF IInv, Types
<1>4. aggregatedAt' \in [ReportId -> Nat \cup {None}]
  BY <1>1 DEF IInv, Types
<1>5. LatestIds(db') = LatestIds(db) /\ \A i \in ReportId : db'.row[i] = IF i \in B THEN None ELSE db.row[i]
  BY <1>1 DEF RawDeleted, LatestIds
<1>6. MarkedFor(db', aggregatedAt', now)
  BY <1>1, <1>5 DEF IInv, MarkedFor
<1>7. QED
  BY <1>2, <1>3, <1>4, <1>5, <1>6

\* No transaction of the task breaks the invariant, seen or unseen, and no other
\* row than a marked one leaves the table with it.
LEMMA UnseenKeeps ==
  ASSUME IInv, Unseen
  PROVE  /\ db' \in DB /\ Consistent(db')
         /\ aggregatedAt' \in [ReportId -> Nat \cup {None}]
         /\ MarkedFor(db', aggregatedAt', now)
         /\ \A i \in ReportId : db.row[i] # None /\ db'.row[i] = None => aggregatedAt[i] # None
<1>1. CASE UNCHANGED tables
  BY <1>1 DEF tables, IInv, Types
<1>2. CASE AggregateBatch
  BY <1>2, AggregateKeeps DEF IInv, Types
<1>3. CASE DeleteRawBatch
  BY <1>3, DeleteRawKeeps
<1>4. CASE ExpireBatch
  BY <1>4 DEF ExpireBatch, IInv, Types
<1>5. QED
  BY <1>1, <1>2, <1>3, <1>4 DEF Unseen, Transaction

\* Time only makes marked rows older.
LEMMA MarkedLater ==
  ASSUME NEW d \in DB, NEW marks, NEW s \in Nat, NEW t \in Nat, s <= t, MarkedFor(d, marks, s)
  PROVE  MarkedFor(d, marks, t)
<1>1. ASSUME NEW i \in ReportId, d.row[i] # None, d.row[i].at + RawRetention < s
      PROVE  d.row[i].at + RawRetention < t
  <2>1. d.row[i].at \in Nat /\ RawRetention \in Nat
    BY <1>1, StoreAssumption, RetentionAssumption DEF DB, Row
  <2>2. QED
    BY <1>1, <2>1
<1>2. QED
  BY <1>1 DEF MarkedFor

\* The empty server satisfies the invariant.
LEMMA InitIInv == Init => IInv
<1> SUFFICES ASSUME Init PROVE IInv
  OBVIOUS
<1>1. db \in DB /\ Consistent(db)
  BY InitDBType, InitDBConsistent DEF Init
<1>2. \A i \in ReportId : aggregatedAt[i] = None
  BY DEF Init
<1>3. Types
  BY <1>1 DEF Init, Types
<1>4. QED
  BY <1>1, <1>2, <1>3 DEF IInv, MarkedFor

\* Every step keeps the invariant.
LEMMA IInvStep == IInv /\ [Next]_vars => IInv'
<1> SUFFICES ASSUME IInv, [Next]_vars PROVE IInv'
  OBVIOUS
<1>1. ASSUME NEW i \in ReportId, StoreReport(i)
      PROVE  IInv'
  BY <1>1, StoreKeeps DEF StoreReport, IInv, Types, taskVars
<1>2. ASSUME NEW h \in Host, DeleteHost(h)
      PROVE  IInv'
  BY <1>2, DeleteHostKeeps DEF DeleteHost, IInv, Types, taskVars
<1>3. CASE ClockAdvances
  <2>1. db' = db /\ aggregatedAt' = aggregatedAt /\ started' = started /\ now' = now + 1
    BY <1>3 DEF ClockAdvances, tables, taskVars
  <2>2. now \in Nat /\ started \in Nat /\ started <= now
    BY DEF IInv, Types
  <2>3. MarkedFor(db, aggregatedAt, now + 1)
    BY <2>2, MarkedLater DEF IInv, Types
  <2>4. QED
    BY <2>1, <2>2, <2>3 DEF IInv, Types
<1>4. CASE StartRun
  BY <1>4 DEF StartRun, tables, IInv, Types
<1>5. CASE AggregateRaw \/ DeleteRaw \/ DeleteExpired \/ RunFails \/ Stop
  <2>1. Unseen /\ now' = now /\ started' = started
    BY <1>5 DEF AggregateRaw, DeleteRaw, DeleteExpired, RunFails, Stop, Advance, Unseen, Transaction
  <2>2. QED
    BY <2>1, UnseenKeeps DEF IInv, Types
<1>6. CASE Restart
  BY <1>6, UnseenKeeps DEF Restart, IInv, Types
<1>7. CASE RequestShutdown
  BY <1>7 DEF RequestShutdown, tables, IInv, Types
<1>8. CASE UNCHANGED vars
  BY <1>8 DEF vars, tables, taskVars, IInv, Types
<1>9. QED
  BY <1>1, <1>2, <1>3, <1>4, <1>5, <1>6, <1>7, <1>8 DEF Next

\* The invariant holds in every state that can be reached.
LEMMA Invariance == Spec => []IInv
  BY InitIInv, IInvStep, PTL DEF Spec

\* Retention never takes a host's latest report, whatever arrives between its
\* transactions, and so leaves the latest pointers consistent.
THEOREM LatestAlwaysSurvives == Spec => []LatestSurvives
<1>1. IInv => LatestSurvives
  BY DEF IInv, MarkedFor, LatestSurvives, Raw
<1>2. QED
  BY <1>1, Invariance, PTL

\* A raw row leaves the table with its host, or once it is past the raw retention
\* and rolled up, through every failure, shutdown and crash.
THEOREM RawIsRolledUpFirst == Spec => RawOutlivesRetention
<1> DEFINE A == \A i \in ReportId :
                  (Raw(i) /\ ~Raw(i)' /\ db.row[i].host \in db'.live)
                    => db.row[i].at + RawRetention < now /\ aggregatedAt[i] # None
<1>1. IInv /\ [Next]_vars => [A]_vars
  <2> SUFFICES ASSUME IInv, Next,
                      NEW i \in ReportId, Raw(i), ~Raw(i)', db.row[i].host \in db'.live
               PROVE  db.row[i].at + RawRetention < now /\ aggregatedAt[i] # None
    OBVIOUS
  <2>1. db.row[i] # None /\ db'.row[i] = None
    BY DEF Raw
  <2>2. SUFFICES aggregatedAt[i] # None
    BY <2>2 DEF IInv, MarkedFor
  <2>3. CASE \E j \in ReportId : StoreReport(j)
    <3>1. PICK j \in ReportId : StoreReport(j)
      BY <2>3
    <3>2. db' = Stored(db, [host |-> Sent[j].host, id |-> j, at |-> Sent[j].at])
      BY <3>1 DEF StoreReport, Stored
    <3>3. Extends(db', db)
      BY <3>2, SentType, StoredExtends DEF IInv, Types
    <3>4. QED
      BY <2>1, <3>3 DEF Extends
  <2>4. CASE \E h \in Host : DeleteHost(h)
    <3>1. PICK h \in Host : DeleteHost(h)
      BY <2>4
    <3>2. i \in RowsOf(db, h)
      BY <2>1, <3>1 DEF DeleteHost, HostDeleted
    <3>3. QED
      BY <3>1, <3>2 DEF DeleteHost, HostDeleted, RowsOf
  <2>5. CASE UNCHANGED db
    BY <2>1, <2>5
  <2>6. CASE Unseen
    BY <2>1, <2>6, UnseenKeeps
  <2>7. QED
    BY <2>3, <2>4, <2>5, <2>6
       DEF Next, ClockAdvances, StartRun, RequestShutdown, AggregateRaw, DeleteRaw, DeleteExpired,
           RunFails, Stop, Restart, Unseen, Transaction, tables
<1>2. QED
  BY <1>1, Invariance, PTL DEF Spec, RawOutlivesRetention

-----------------------------------------------------------------------------
(* The aggregates.                                                         *)

Within(i, a) == a # None /\ a.from <= Sent[i].at /\ Sent[i].at <= a.until

\* A report that is counted is within its aggregate, unless it waits to be rolled up.
Covered(i) == stored[i] > 0 => (Raw(i) /\ aggregatedAt[i] = None) \/ Within(i, hourly[KeyOf(i)])

Aggregates ==
  /\ hourly \in [Key -> Aggregate \cup {None}] /\ stored \in [ReportId -> Nat]
  /\ \A i \in ReportId : db.row[i] # None => db.row[i] = Sent[i]
  /\ \A i \in ReportId : Covered(i)

LEMMA KeyOfType ==
  ASSUME NEW i \in ReportId
  PROVE  KeyOf(i) \in Key /\ KeyOf(i)[1] = Sent[i].host /\ Sent[i] \in Row
         /\ Sent[i].host \in Host /\ Sent[i].at \in Time /\ Sent[i].at \in Nat
  BY RetentionAssumption, StoreAssumption DEF KeyOf, Key, Row

\* An upsert covers what the aggregate covered and what the new one covers.
LEMMA UpsertedCovers ==
  ASSUME Aggregates, NEW k \in Key, NEW new \in Aggregate
  PROVE  /\ Upserted(k, new) \in Aggregate
         /\ \A i \in ReportId : Within(i, new) \/ Within(i, hourly[k]) => Within(i, Upserted(k, new))
<1>1. Time \subseteq Nat /\ None \notin Aggregate
  BY StoreAssumption, RetentionAssumption
<1>2. CASE hourly[k] = None
  BY <1>2 DEF Upserted, Within
<1>3. CASE hourly[k] # None
  <2> DEFINE old == hourly[k]
             F == {old.from, new.from}
             U == {old.until, new.until}
  <2>1. old \in Aggregate
    BY <1>3 DEF Aggregates
  <2>2. /\ old.from \in Time /\ new.from \in Time /\ old.until \in Time /\ new.until \in Time
        /\ old.samples \in Nat \ {0} /\ new.samples \in Nat \ {0}
    BY <2>1 DEF Aggregate
  <2>3. IsFiniteSet(F) /\ IsFiniteSet(U)
    <3>1. ASSUME NEW x, NEW y PROVE IsFiniteSet({x, y})
      <4>1. IsFiniteSet({x})
        BY FS_Singleton
      <4>2. IsFiniteSet({x} \cup {y})
        BY <4>1, FS_AddElement
      <4>3. {x} \cup {y} = {x, y}
        OBVIOUS
      <4>4. QED
        BY <4>2, <4>3
    <3>2. QED
      BY <3>1
  <2>4. F \in SUBSET Nat /\ U \in SUBSET Nat /\ F # {} /\ U # {}
    BY <1>1, <2>2
  <2>5. /\ Min(F) \in F /\ Min(F) <= old.from /\ Min(F) <= new.from
        /\ Max(U) \in U /\ old.until <= Max(U) /\ new.until <= Max(U)
    BY <2>3, <2>4, MinMax
  <2>6. Upserted(k, new) = [samples |-> old.samples + new.samples, from |-> Min(F), until |-> Max(U)]
    BY <1>3 DEF Upserted
  <2>7. Min(F) \in Time /\ Max(U) \in Time
    BY <2>2, <2>5
  <2>8. Upserted(k, new) \in Aggregate
    <3> HIDE DEF F, U, old
    <3> QED  BY <2>2, <2>6, <2>7 DEF Aggregate
  <2>9. Upserted(k, new).from = Min(F) /\ Upserted(k, new).until = Max(U) /\ Upserted(k, new) # None
    BY <1>1, <2>6, <2>8
  <2>10. ASSUME NEW i \in ReportId, Within(i, new) \/ Within(i, old) PROVE Within(i, Upserted(k, new))
    <3>1. Sent[i].at \in Nat
      BY KeyOfType
    <3>2. /\ Min(F) \in Nat /\ Max(U) \in Nat /\ old.from \in Nat /\ new.from \in Nat
          /\ old.until \in Nat /\ new.until \in Nat
      BY <1>1, <2>2, <2>7
    <3> HIDE DEF F, U, old
    <3>3. QED
      BY <2>5, <2>9, <2>10, <3>1, <3>2 DEF Within
  <2>11. QED
    BY <2>8, <2>10
<1>4. QED
  BY <1>2, <1>3

LEMMA StoreCovers ==
  ASSUME IInv, Aggregates, NEW i \in ReportId, StoreReport(i)
  PROVE  Aggregates'
<1> DEFINE w == [host |-> Sent[i].host, id |-> i, at |-> Sent[i].at]
<1>1. /\ db.row[i] = None /\ db' = Inserted(db, w) /\ stored' = [stored EXCEPT ![i] = @ + 1]
      /\ UNCHANGED <<aggregatedAt, hourly>>
  BY DEF StoreReport, VerdictOn
<1>2. db'.row = [db.row EXCEPT ![i] = Sent[i]]
  BY <1>1, RetentionAssumption DEF Inserted, Row
<1>3. db.row \in [ReportId -> Row \cup {None}] /\ aggregatedAt[i] = None
  BY <1>1 DEF IInv, Types, DB, MarkedFor
<1>4. \A j \in ReportId : db'.row[j] = IF j = i THEN Sent[i] ELSE db.row[j]
  BY <1>2, <1>3
<1>5. db'.row[i] # None
  BY <1>4, KeyOfType, StoreAssumption DEF Row
<1>6. stored' \in [ReportId -> Nat] /\ \A j \in ReportId \ {i} : stored'[j] = stored[j]
  BY <1>1 DEF Aggregates
<1>7. ASSUME NEW j \in ReportId PROVE Covered(j)'
  BY <1>1, <1>3, <1>4, <1>5, <1>6 DEF Aggregates, Covered, Raw, Within, KeyOf, HourOf
<1>8. QED
  BY <1>1, <1>4, <1>6, <1>7 DEF Aggregates

LEMMA DeleteHostCovers ==
  ASSUME IInv, Aggregates, NEW h \in Host, DeleteHost(h)
  PROVE  Aggregates'
<1>1. /\ db'.row = [i \in ReportId |-> IF i \in RowsOf(db, h) THEN None ELSE db.row[i]]
      /\ aggregatedAt' = [i \in ReportId |-> IF i \in RowsOf(db, h) THEN None ELSE aggregatedAt[i]]
      /\ hourly' = [k \in Key |-> IF k[1] = h THEN None ELSE hourly[k]]
      /\ stored' = [i \in ReportId |-> IF Sent[i].host = h THEN 0 ELSE stored[i]]
  BY DEF DeleteHost, HostDeleted
<1>2. hourly' \in [Key -> Aggregate \cup {None}] /\ stored' \in [ReportId -> Nat]
  BY <1>1 DEF Aggregates
<1>3. \A i \in ReportId : db'.row[i] # None => db'.row[i] = Sent[i]
  BY <1>1 DEF Aggregates
<1>4. ASSUME NEW i \in ReportId PROVE Covered(i)'
  <2>1. CASE Sent[i].host = h
    BY <1>1, <2>1 DEF Covered
  <2>2. CASE Sent[i].host # h
    <3>1. i \notin RowsOf(db, h)
      BY <2>2 DEF RowsOf, Aggregates
    <3>2. hourly'[KeyOf(i)] = hourly[KeyOf(i)]
      BY <1>1, <2>2, KeyOfType
    <3>3. stored'[i] = stored[i] /\ db'.row[i] = db.row[i] /\ aggregatedAt'[i] = aggregatedAt[i]
      BY <1>1, <2>2, <3>1
    <3>4. QED
      BY <3>2, <3>3 DEF Aggregates, Covered, Raw, Within, KeyOf, HourOf
  <2>3. QED
    BY <2>1, <2>2
<1>5. QED
  BY <1>2, <1>3, <1>4 DEF Aggregates

LEMMA AggregateCovers ==
  ASSUME IInv, Aggregates, AggregateBatch
  PROVE  /\ Aggregates' /\ \A k \in Key : hourly'[k] = None => hourly[k] = None
         /\ \A i \in ReportId :
              aggregatedAt[i] = None /\ aggregatedAt'[i] # None => hourly'[KeyOf(i)] # None
<1>1. PICK B \in SUBSET Pending :
        /\ LET Of(k)  == {i \in B : KeyOf(i) = k}
               New(k) == [samples |-> Cardinality(Of(k)),
                          from    |-> Min({db.row[i].at : i \in Of(k)}),
                          until   |-> Max({db.row[i].at : i \in Of(k)})]
           IN  hourly' = [k \in Key |-> IF Of(k) = {} THEN hourly[k] ELSE Upserted(k, New(k))]
        /\ aggregatedAt' = [i \in ReportId |-> IF i \in B THEN started ELSE aggregatedAt[i]]
        /\ UNCHANGED <<db, stored>>
  BY DEF AggregateBatch
<1> DEFINE Of(k)  == {i \in B : KeyOf(i) = k}
           New(k) == [samples |-> Cardinality(Of(k)),
                      from    |-> Min({db.row[i].at : i \in Of(k)}),
                      until   |-> Max({db.row[i].at : i \in Of(k)})]
<1>2. hourly' = [k \in Key |-> IF Of(k) = {} THEN hourly[k] ELSE Upserted(k, New(k))]
  BY <1>1
<1>3. B \in SUBSET ReportId /\ \A i \in B : db.row[i] = Sent[i]
  BY DEF Pending, Raw, Aggregates
<1>4. ASSUME NEW k \in Key, Of(k) # {}
      PROVE  New(k) \in Aggregate /\ \A i \in Of(k) : Within(i, New(k))
  <2> DEFINE T == {db.row[i].at : i \in Of(k)}
  <2>1. Of(k) \in SUBSET ReportId /\ IsFiniteSet(Of(k))
    BY <1>3, RetentionAssumption, FS_Subset
  <2>2. Cardinality(Of(k)) \in Nat \ {0}
    BY <1>4, <2>1, FS_CardinalityType, FS_EmptySet
  <2>3. T \in SUBSET Time /\ T # {} /\ T \in SUBSET Nat
    BY <1>3, <1>4, KeyOfType
  <2>4. IsFiniteSet(T)
    <3> DEFINE f == [i \in Of(k) |-> db.row[i].at]
    <3>1. f \in [Of(k) -> T] /\ \A t \in T : \E i \in Of(k) : f[i] = t
      OBVIOUS
    <3>2. f \in Surjection(Of(k), T)
      <4> HIDE DEF f, T, Of
      <4> QED  BY <3>1 DEF Surjection
    <3>3. QED
      <4> HIDE DEF f, T, Of
      <4> QED  BY <2>1, <3>2, FS_Surjection
  <2>5. /\ Min(T) \in T /\ \A t \in T : Min(T) <= t
        /\ Max(T) \in T /\ \A t \in T : t <= Max(T)
    <3> HIDE DEF T
    <3> QED  BY <2>3, <2>4, MinMax
  <2>6. New(k) \in Aggregate
    <3>1. Min(T) \in Time /\ Max(T) \in Time
      BY <2>3, <2>5
    <3>2. New(k) = [samples |-> Cardinality(Of(k)), from |-> Min(T), until |-> Max(T)]
      OBVIOUS
    <3> HIDE DEF T, Of, New
    <3> QED  BY <2>2, <3>1, <3>2 DEF Aggregate
  <2>7. New(k).from = Min(T) /\ New(k).until = Max(T) /\ New(k) # None
    BY <2>6, RetentionAssumption
  <2>8. ASSUME NEW i \in Of(k) PROVE Within(i, New(k))
    <3>1. Sent[i].at \in T
      BY <1>3
    <3> HIDE DEF T, Of, New
    <3> QED  BY <2>5, <2>7, <3>1 DEF Within
  <2>9. QED
    BY <2>6, <2>8
<1>5. hourly' \in [Key -> Aggregate \cup {None}]
  <2>1. \A k \in Key : (IF Of(k) = {} THEN hourly[k] ELSE Upserted(k, New(k))) \in Aggregate \cup {None}
    <3> HIDE DEF Of, New
    <3> QED  BY <1>4, UpsertedCovers DEF Aggregates
  <2> HIDE DEF Of, New
  <2>2. QED
    BY <1>2, <2>1
<1>6. ASSUME NEW i \in ReportId, i \in B \/ Within(i, hourly[KeyOf(i)])
      PROVE  Within(i, hourly'[KeyOf(i)])
  <2> DEFINE k == KeyOf(i)
  <2>1. k \in Key /\ (i \in B => i \in Of(k))
    BY KeyOfType
  <2>2. i \in Of(k) => Within(i, New(k))
    <3> HIDE DEF Of, New, k
    <3> QED  BY <1>4, <2>1
  <2>3. hourly'[k] = IF Of(k) = {} THEN hourly[k] ELSE Upserted(k, New(k))
    <3> HIDE DEF Of, New, k
    <3> QED  BY <1>2, <2>1
  <2>4. CASE Of(k) = {}
    BY <1>6, <2>1, <2>3, <2>4
  <2>5. CASE Of(k) # {}
    <3>1. New(k) \in Aggregate
      <4> HIDE DEF Of, New, k
      <4> QED  BY <1>4, <2>1, <2>5
    <3>2. Within(i, New(k)) \/ Within(i, hourly[k])
      BY <1>6, <2>1, <2>2
    <3> HIDE DEF Of, New
    <3>3. QED
      BY <2>1, <2>3, <2>5, <3>1, <3>2, UpsertedCovers
  <2>6. QED
    BY <2>4, <2>5
<1>7. ASSUME NEW i \in ReportId PROVE Covered(i)'
  <2>1. CASE i \in B
    BY <1>6, <2>1 DEF Covered, Within, KeyOf, HourOf
  <2>2. CASE i \notin B
    <3>1. aggregatedAt'[i] = aggregatedAt[i] /\ stored' = stored /\ db' = db
      BY <1>1, <2>2
    <3>2. Within(i, hourly[KeyOf(i)]) => Within(i, hourly'[KeyOf(i)])
      BY <1>6
    <3>3. QED
      BY <3>1, <3>2 DEF Aggregates, Covered, Raw, Within, KeyOf, HourOf
  <2>3. QED
    BY <2>1, <2>2
<1>8. ASSUME NEW k \in Key, hourly'[k] = None PROVE hourly[k] = None
  <2> HIDE DEF Of, New
  <2> QED  BY <1>2, <1>4, <1>8, UpsertedCovers, RetentionAssumption
<1>9. ASSUME NEW i \in ReportId, aggregatedAt[i] = None, aggregatedAt'[i] # None
      PROVE  hourly'[KeyOf(i)] # None
  BY <1>1, <1>6, <1>9 DEF Within
<1>10. QED
  BY <1>1, <1>5, <1>7, <1>8, <1>9 DEF Aggregates

LEMMA DeleteRawCovers ==
  ASSUME IInv, Aggregates, DeleteRawBatch
  PROVE  Aggregates' /\ hourly' = hourly
<1>1. PICK B \in SUBSET RolledUp :
        /\ db' = RawDeleted(db, B)
        /\ aggregatedAt' = [i \in ReportId |-> IF i \in B THEN None ELSE aggregatedAt[i]]
        /\ UNCHANGED <<hourly, stored>>
  BY DEF DeleteRawBatch
<1>2. \A i \in ReportId : db'.row[i] = IF i \in B THEN None ELSE db.row[i]
  BY <1>1 DEF RawDeleted
<1>3. \A i \in B : aggregatedAt[i] # None
  BY DEF RolledUp
<1>4. ASSUME NEW i \in ReportId PROVE Covered(i)'
  <2>1. CASE i \in B
    BY <1>1, <1>3, <2>1 DEF Aggregates, Covered, Raw, Within, KeyOf, HourOf
  <2>2. CASE i \notin B
    BY <1>1, <1>2, <2>2 DEF Aggregates, Covered, Raw, Within, KeyOf, HourOf
  <2>3. QED
    BY <2>1, <2>2
<1>5. QED
  BY <1>1, <1>2, <1>4 DEF Aggregates

LEMMA ExpireCovers ==
  ASSUME IInv, Aggregates, ExpireBatch
  PROVE  /\ Aggregates'
         /\ \A k \in Key : hourly[k] # None /\ hourly'[k] = None =>
              hourly[k].until + AggregateRetention < started
<1>1. PICK B \in SUBSET Expired :
        /\ hourly' = [k \in Key |-> IF k \in B THEN None ELSE hourly[k]]
        /\ stored' = [i \in ReportId |->
                        IF KeyOf(i) \notin B THEN stored[i]
                        ELSE IF Raw(i) /\ aggregatedAt[i] = None THEN 1 ELSE 0]
        /\ UNCHANGED <<db, aggregatedAt>>
  BY DEF ExpireBatch
<1>2. hourly' \in [Key -> Aggregate \cup {None}]
  BY <1>1 DEF Aggregates
<1>3. stored' \in [ReportId -> Nat]
  <2>1. \A i \in ReportId : (IF KeyOf(i) \notin B THEN stored[i]
                           ELSE IF Raw(i) /\ aggregatedAt[i] = None THEN 1 ELSE 0) \in Nat
    BY DEF Aggregates
  <2>2. QED
    BY <1>1, <2>1
<1>4. ASSUME NEW i \in ReportId PROVE Covered(i)'
  <2>1. CASE KeyOf(i) \in B
    <3>1. stored'[i] = IF Raw(i) /\ aggregatedAt[i] = None THEN 1 ELSE 0
      BY <1>1, <2>1
    <3>2. QED
      BY <1>1, <3>1 DEF Covered, Raw
  <2>2. CASE KeyOf(i) \notin B
    <3>1. stored'[i] = stored[i] /\ hourly'[KeyOf(i)] = hourly[KeyOf(i)]
      BY <1>1, <2>2, KeyOfType
    <3>2. QED
      BY <1>1, <3>1 DEF Aggregates, Covered, Raw, Within, KeyOf, HourOf
  <2>3. QED
    BY <2>1, <2>2
<1>5. \A k \in Key : hourly[k] # None /\ hourly'[k] = None =>
        hourly[k].until + AggregateRetention < started
  BY <1>1 DEF Expired
<1>6. QED
  BY <1>1, <1>2, <1>3, <1>4, <1>5 DEF Aggregates

\* A transaction of the task, seen or unseen.
LEMMA UnseenCovers ==
  ASSUME IInv, Aggregates, Unseen
  PROVE  /\ Aggregates'
         /\ \A k \in Key : hourly[k] # None /\ hourly'[k] = None =>
              hourly[k].until + AggregateRetention < started
<1>1. CASE UNCHANGED tables
  BY <1>1 DEF tables, Aggregates, Covered, Raw, Within, KeyOf, HourOf
<1>2. CASE AggregateBatch
  BY <1>2, AggregateCovers
<1>3. CASE DeleteRawBatch
  BY <1>3, DeleteRawCovers
<1>4. CASE ExpireBatch
  BY <1>4, ExpireCovers
<1>5. QED
  BY <1>1, <1>2, <1>3, <1>4 DEF Unseen, Transaction

\* Which steps are transactions, and which leave the tables alone.
LEMMA Kinds ==
  /\ AggregateRaw \/ DeleteRaw \/ DeleteExpired \/ RunFails \/ Stop \/ Restart => Unseen
  /\ ClockAdvances \/ StartRun \/ RequestShutdown \/ UNCHANGED vars => UNCHANGED tables
<1>1. UNCHANGED tables => Unseen
  BY DEF Unseen
<1>2. QED
  BY DEF AggregateRaw, DeleteRaw, DeleteExpired, RunFails, Stop, Restart, Unseen, Transaction,
         ClockAdvances, StartRun, RequestShutdown, vars

LEMMA AggregatesStep ==
  ASSUME IInv, Aggregates, [Next]_vars
  PROVE  Aggregates'
<1>1. ASSUME UNCHANGED tables PROVE Unseen
  BY <1>1 DEF Unseen
<1>2. QED
  BY <1>1, StoreCovers, DeleteHostCovers, UnseenCovers, Kinds DEF Next

LEMMA InitAggregates == Init => Aggregates
<1> SUFFICES ASSUME Init PROVE Aggregates
  OBVIOUS
<1>1. \A i \in ReportId : stored[i] = 0 /\ db.row[i] = None
  BY DEF Init, InitDB
<1>2. hourly \in [Key -> Aggregate \cup {None}] /\ stored \in [ReportId -> Nat]
  BY DEF Init
<1>3. QED
  BY <1>1, <1>2 DEF Aggregates, Covered

LEMMA AggregatesInvariant == Spec => []Aggregates
<1>1. IInv /\ Aggregates /\ [Next]_vars => Aggregates'
  BY AggregatesStep
<1>2. QED
  BY <1>1, InitAggregates, Invariance, PTL DEF Spec

\* A report that was stored is never lost from view by a roll-up, a deletion or a
\* crash between the two: it is there as a row or within its hour's aggregate
\* (aggregate_raw_batch, delete_aggregated_raw_batch, hourly_upsert_sql).
THEOREM ReportsStayVisible == Spec => []Visible
<1>1. Aggregates => Visible
  BY DEF Aggregates, Covered, Within, Visible
<1>2. QED
  BY <1>1, AggregatesInvariant, PTL

\* An aggregate goes with its host, or once the newest report it counts is past
\* the aggregate retention (delete_expired_aggregate_batch).
THEOREM AggregatesKeptLongEnough == Spec => AggregateOutlivesRetention
<1> DEFINE A == \A k \in Key :
                  (hourly[k] # None /\ hourly'[k] = None /\ k[1] \in db'.live)
                    => \A i \in ReportId :
                         (KeyOf(i) = k /\ stored[i] > 0 /\ ~(Raw(i) /\ aggregatedAt[i] = None))
                           => Sent[i].at + AggregateRetention < now
<1>1. IInv /\ Aggregates /\ [Next]_vars => [A]_vars
  <2> SUFFICES ASSUME IInv, Aggregates, Next,
                      NEW k \in Key, hourly[k] # None, hourly'[k] = None, k[1] \in db'.live,
                      NEW i \in ReportId, KeyOf(i) = k, stored[i] > 0,
                      ~(Raw(i) /\ aggregatedAt[i] = None)
               PROVE  Sent[i].at + AggregateRetention < now
    OBVIOUS
  <2>1. ASSUME NEW h \in Host, DeleteHost(h) PROVE FALSE
    BY <2>1 DEF DeleteHost, HostDeleted
  <2>2. ASSUME NEW j \in ReportId, StoreReport(j) PROVE FALSE
    BY <2>2 DEF StoreReport
  <2>3. Unseen
    BY <2>1, <2>2, Kinds DEF Next, tables
  <2>4. hourly[k].until + AggregateRetention < started
    BY <2>3, UnseenCovers
  <2>5. Within(i, hourly[k])
    BY DEF Aggregates, Covered
  <2>6. hourly[k].until \in Nat /\ Sent[i].at \in Nat
    BY KeyOfType, StoreAssumption DEF Aggregates, Aggregate
  <2>7. QED
    BY <2>4, <2>5, <2>6, RetentionAssumption DEF Within, IInv, Types
<1>2. QED
  BY <1>1, Invariance, AggregatesInvariant, PTL DEF Spec, AggregateOutlivesRetention

-----------------------------------------------------------------------------
(* The limit of a run.                                                     *)

RunState ==
  /\ pc \in {"idle", "aggregate", "delete", "expire", "stopped"}
  /\ transactions \in 0 .. MaxTransactions
  /\ InRun => transactions < MaxTransactions
  /\ busy \in BOOLEAN /\ stopping \in BOOLEAN

LEMMA RunStateStep ==
  ASSUME RunState, [Next]_vars
  PROVE  RunState'
<1>1. MaxTransactions \in Nat /\ MaxTransactions >= 3 /\ 0 \in 0 .. MaxTransactions /\ 0 < MaxTransactions
  BY RetentionAssumption
<1>2. ASSUME UNCHANGED taskVars PROVE RunState'
  BY <1>2 DEF taskVars, RunState, InRun
<1>3. ASSUME NEW next \in {"delete", "expire"}, InRun, Advance(next) PROVE RunState'
  <2>1. /\ transactions' = transactions + 1
        /\ pc' = IF transactions' >= MaxTransactions THEN "idle" ELSE next
    BY <1>3 DEF Advance
  <2>2. transactions \in Nat /\ transactions < MaxTransactions
    BY <1>3 DEF RunState
  <2>3. busy' \in BOOLEAN /\ stopping' \in BOOLEAN
    <3>1. busy' = (busy \/ tables' # tables) /\ stopping' = stopping
      BY <1>3 DEF Advance
    <3>2. QED
      BY <3>1, Zenon DEF RunState
  <2>4. /\ pc' \in {"idle", "aggregate", "delete", "expire", "stopped"}
        /\ transactions' \in 0 .. MaxTransactions
        /\ pc' # "idle" => transactions' < MaxTransactions
    BY <1>1, <2>1, <2>2
  <2>5. QED
    BY <2>3, <2>4 DEF RunState, InRun
<1>4. ASSUME DeleteExpired PROVE RunState'
  <2>1. /\ transactions' = transactions + 1 /\ busy' = FALSE /\ stopping' = stopping
        /\ pc' \in {"aggregate", "idle"} /\ (pc' = "aggregate" => transactions' < MaxTransactions)
        /\ pc = "expire"
    BY <1>4 DEF DeleteExpired
  <2>2. transactions \in Nat /\ transactions < MaxTransactions
    BY <2>1 DEF RunState, InRun
  <2>3. transactions' \in 0 .. MaxTransactions
    BY <1>1, <2>1, <2>2
  <2>4. QED
    BY <2>1, <2>3 DEF RunState, InRun
<1>5. ASSUME StartRun \/ Restart PROVE RunState'
  <2>1. /\ transactions' = 0 /\ pc' \in {"aggregate", "idle"} /\ busy' = FALSE
        /\ stopping' \in {FALSE, stopping}
    BY <1>5 DEF StartRun, Restart
  <2>2. busy' \in BOOLEAN /\ stopping' \in BOOLEAN
    BY <2>1, Zenon DEF RunState
  <2>3. /\ transactions' \in 0 .. MaxTransactions /\ transactions' < MaxTransactions
        /\ pc' \in {"idle", "aggregate", "delete", "expire", "stopped"}
    BY <1>1, <2>1
  <2>4. QED
    BY <2>2, <2>3 DEF RunState
<1>6. ASSUME RunFails \/ RequestShutdown \/ Stop PROVE RunState'
  <2>1. /\ UNCHANGED <<transactions, busy>> /\ pc' \in {"idle", "stopped", pc}
        /\ stopping' \in {TRUE, stopping}
    BY <1>6 DEF RunFails, RequestShutdown, Stop
  <2>2. busy' \in BOOLEAN /\ stopping' \in BOOLEAN
    BY <2>1, Zenon DEF RunState
  <2>3. QED
    BY <2>1, <2>2 DEF RunState, InRun
<1>7. AggregateRaw => InRun /\ Advance("delete")
  BY DEF AggregateRaw, InRun
<1>8. DeleteRaw => InRun /\ Advance("expire")
  BY DEF DeleteRaw, InRun
<1>9. ASSUME ClockAdvances \/ UNCHANGED vars
             \/ (\E i \in ReportId : StoreReport(i)) \/ (\E h \in Host : DeleteHost(h))
      PROVE  RunState'
  BY <1>2, <1>9 DEF ClockAdvances, StoreReport, DeleteHost, vars
<1>10. QED
  BY <1>3, <1>4, <1>5, <1>6, <1>7, <1>8, <1>9 DEF Next

\* No run takes more transactions than its limit, however its rounds, failures and
\* restarts fall (run_cycle_at).
THEOREM RunsAreBounded == Spec => []TypeOK
<1>1. Init => RunState
  <2>1. 0 \in 0 .. MaxTransactions
    BY RetentionAssumption
  <2>2. QED
    BY <2>1 DEF Init, RunState, InRun
<1>2. RunState /\ [Next]_vars => RunState'
  BY RunStateStep
<1>3. IInv /\ Aggregates /\ RunState => TypeOK
  BY DEF IInv, Types, Aggregates, RunState, TypeOK
<1>4. QED
  BY <1>1, <1>2, <1>3, Invariance, AggregatesInvariant, PTL DEF Spec

-----------------------------------------------------------------------------
(* The samples of the aggregates.                                          *)

Ids(k) == {i \in ReportId : KeyOf(i) = k}

Waits(i) == Raw(i) /\ aggregatedAt[i] = None

Waiting(k) == {i \in Ids(k) : Waits(i)}

Samples(k) == IF hourly[k] = None THEN 0 ELSE hourly[k].samples

Balanced(k) == Samples(k) + Cardinality(Waiting(k)) = SumOver(stored, Ids(k))

\* An hour has finitely many reports.
LEMMA IdsFinite ==
  ASSUME NEW k
  PROVE  IsFiniteSet(Ids(k)) /\ IsFiniteSet(Waiting(k)) /\ Cardinality(Waiting(k)) \in Nat
<1>1. Ids(k) \in SUBSET ReportId /\ Waiting(k) \in SUBSET ReportId
  BY DEF Ids, Waiting
<1>2. QED
  BY <1>1, RetentionAssumption, FS_Subset, FS_CardinalityType

\* Whether a report waits, from what is stored of it.
LEMMA WaitsNext ==
  ASSUME NEW i \in ReportId, db'.row[i] = db.row[i], aggregatedAt'[i] = aggregatedAt[i]
  PROVE  Waits(i)' <=> Waits(i)
  BY DEF Waits, Raw

\* The sum after a step.
LEMMA SumNext ==
  ASSUME NEW k
  PROVE  SumOver(stored, Ids(k))' = SumOver(stored', Ids(k))
  BY DEF SumOver, MapThenSumSet, MapThenFoldSet, Ids, KeyOf, HourOf

\* Nothing that the balance of an hour is about has changed.
LEMMA BalanceUntouched ==
  ASSUME Aggregates, NEW k \in Key, Balanced(k), hourly'[k] = hourly[k],
         \A i \in Ids(k) : (Waits(i)' <=> Waits(i)) /\ stored'[i] = stored[i]
  PROVE  Balanced(k)'
<1>1. Waiting(k)' = Waiting(k)
  BY DEF Waiting, Ids, KeyOf, HourOf
<1>2. \A i \in Ids(k) : stored[i] \in Int /\ stored'[i] = stored[i]
  BY DEF Aggregates, Ids
<1>3. SumOver(stored', Ids(k)) = SumOver(stored, Ids(k))
  BY <1>2, IdsFinite, SumSame
<1>4. Samples(k)' = Samples(k)
  BY DEF Samples
<1>5. QED
  BY <1>1, <1>3, <1>4, SumNext DEF Balanced

\* The balance of an hour, from what its three parts have become.
LEMMA BalanceNext ==
  ASSUME NEW k, NEW samples, NEW W, NEW sum,
         Samples(k)' = samples, Waiting(k)' = W, SumOver(stored', Ids(k)) = sum,
         samples + Cardinality(W) = sum
  PROVE  Balanced(k)'
BY SumNext DEF Balanced

\* A report that is stored waits, and is one more.
LEMMA StoreBalances ==
  ASSUME IInv, Aggregates, NEW i \in ReportId, StoreReport(i), NEW k \in Key, Balanced(k)
  PROVE  Balanced(k)'
<1> DEFINE w == [host |-> Sent[i].host, id |-> i, at |-> Sent[i].at]
<1>1. /\ VerdictOn(db, w) = "accepted" /\ db' = Inserted(db, w)
      /\ stored' = [stored EXCEPT ![i] = @ + 1] /\ aggregatedAt' = aggregatedAt /\ hourly' = hourly
  BY DEF StoreReport
<1>2. db.row[i] = None /\ aggregatedAt[i] = None
  BY <1>1 DEF VerdictOn, IInv, MarkedFor
<1>3. \A j \in ReportId : db'.row[j] = IF j = i THEN [host |-> Sent[i].host, at |-> Sent[i].at] ELSE db.row[j]
  BY <1>1 DEF Inserted, IInv, Types, DB
<1>4. ~Waits(i) /\ Waits(i)'
  <2>1. [host |-> Sent[i].host, at |-> Sent[i].at] # None
    BY KeyOfType, StoreAssumption
  <2>2. QED
    BY <1>1, <1>2, <1>3, <2>1 DEF Waits, Raw
<1>5. \A j \in ReportId : j # i => (Waits(j)' <=> Waits(j)) /\ stored'[j] = stored[j]
  BY <1>1, <1>3, WaitsNext DEF Aggregates
<1>6. CASE KeyOf(i) # k
  BY <1>1, <1>5, <1>6, BalanceUntouched DEF Ids
<1>7. CASE KeyOf(i) = k
  <2>1. i \in Ids(k) /\ i \notin Waiting(k)
    BY <1>4, <1>7 DEF Ids, Waiting
  <2>2. Waiting(k)' = Waiting(k) \cup {i}
    BY <1>4, <1>5, <2>1 DEF Waiting, Ids, KeyOf, HourOf
  <2>3. Cardinality(Waiting(k) \cup {i}) = Cardinality(Waiting(k)) + 1
    BY <2>1, IdsFinite, FS_AddElement
  <2>4. /\ \A j \in Ids(k) : stored[j] \in Int /\ stored'[j] \in Int /\ (j # i => stored'[j] = stored[j])
        /\ stored'[i] - stored[i] = 1
    BY <1>1 DEF Aggregates, Ids
  <2>5. SumOver(stored', Ids(k)) = SumOver(stored, Ids(k)) + (stored'[i] - stored[i])
    BY <2>1, <2>4, IdsFinite, SumChange
  <2>6. Samples(k)' = Samples(k) /\ Samples(k) \in Nat
    BY <1>1 DEF Samples, Aggregates, Aggregate
  <2>7. Samples(k) + Cardinality(Waiting(k) \cup {i}) = SumOver(stored, Ids(k)) + (stored'[i] - stored[i])
    BY <2>3, <2>4, <2>6, IdsFinite DEF Balanced
  <2>8. QED
    BY <2>2, <2>5, <2>6, <2>7, BalanceNext
<1>8. QED
  BY <1>6, <1>7

\* A deleted host leaves empty hours behind.
LEMMA DeleteHostBalances ==
  ASSUME IInv, Aggregates, NEW h \in Host, DeleteHost(h), NEW k \in Key, Balanced(k)
  PROVE  Balanced(k)'
<1>1. /\ db' = HostDeleted(db, h)
      /\ aggregatedAt' = [i \in ReportId |-> IF i \in RowsOf(db, h) THEN None ELSE aggregatedAt[i]]
      /\ hourly' = [l \in Key |-> IF l[1] = h THEN None ELSE hourly[l]]
      /\ stored' = [i \in ReportId |-> IF Sent[i].host = h THEN 0 ELSE stored[i]]
  BY DEF DeleteHost
<1>2. \A i \in ReportId : db'.row[i] = IF i \in RowsOf(db, h) THEN None ELSE db.row[i]
  BY <1>1 DEF HostDeleted
<1>3. \A i \in ReportId : i \in RowsOf(db, h) <=> db.row[i] # None /\ Sent[i].host = h
  BY DEF Aggregates, RowsOf
<1>4. \A i \in Ids(k) : i \in ReportId /\ Sent[i].host = k[1]
  BY KeyOfType DEF Ids
<1>5. CASE k[1] # h
  <2>1. \A i \in Ids(k) : (Waits(i)' <=> Waits(i)) /\ stored'[i] = stored[i]
    BY <1>1, <1>2, <1>3, <1>4, <1>5, WaitsNext
  <2>2. QED
    BY <1>1, <1>5, <2>1, BalanceUntouched
<1>6. CASE k[1] = h
  <2>1. Samples(k)' = 0
    BY <1>1, <1>6 DEF Samples
  <2>2. \A i \in Ids(k) : stored'[i] = 0 /\ ~Waits(i)'
    BY <1>1, <1>2, <1>3, <1>4, <1>6 DEF Waits, Raw
  <2>3. Waiting(k)' = {}
    BY <2>2 DEF Waiting, Ids, KeyOf, HourOf
  <2>4. SumOver(stored', Ids(k)) = 0
    <3>1. SumOver(stored', Ids(k)) = Cardinality({i \in Ids(k) : i \in {}})
      BY <2>2, IdsFinite, SumCounts
    <3>2. {i \in Ids(k) : i \in {}} = {}
      OBVIOUS
    <3>3. QED
      BY <3>1, <3>2, FS_EmptySet
  <2>5. QED
    BY <2>1, <2>3, <2>4, BalanceNext, FS_EmptySet
<1>7. QED
  BY <1>5, <1>6

\* A roll-up makes samples of the reports it takes.
LEMMA AggregateBalances ==
  ASSUME IInv, Aggregates, AggregateBatch, NEW k \in Key, Balanced(k)
  PROVE  Balanced(k)'
<1>1. PICK B \in SUBSET Pending :
        /\ LET Of(l)  == {i \in B : KeyOf(i) = l}
               New(l) == [samples |-> Cardinality(Of(l)),
                          from    |-> Min({db.row[i].at : i \in Of(l)}),
                          until   |-> Max({db.row[i].at : i \in Of(l)})]
           IN  hourly' = [l \in Key |-> IF Of(l) = {} THEN hourly[l] ELSE Upserted(l, New(l))]
        /\ aggregatedAt' = [i \in ReportId |-> IF i \in B THEN started ELSE aggregatedAt[i]]
        /\ UNCHANGED <<db, stored>>
  BY DEF AggregateBatch
<1> DEFINE Of  == {i \in B : KeyOf(i) = k}
           New == [samples |-> Cardinality(Of),
                   from    |-> Min({db.row[i].at : i \in Of}),
                   until   |-> Max({db.row[i].at : i \in Of})]
<1>2. hourly'[k] = IF Of = {} THEN hourly[k] ELSE Upserted(k, New)
  BY <1>1
<1>3. /\ B \in SUBSET ReportId /\ \A i \in B : Waits(i)
      /\ \A i \in ReportId : i \notin B => (Waits(i)' <=> Waits(i))
      /\ \A i \in B : ~Waits(i)'
  <2>1. started # None
    BY RetentionAssumption DEF IInv, Types
  <2>2. QED
    BY <1>1, <2>1 DEF Pending, Waits, Raw
<1>4. CASE Of = {}
  BY <1>1, <1>2, <1>3, <1>4, BalanceUntouched DEF Ids
<1>5. CASE Of # {}
  <2>1. Of \in SUBSET Waiting(k) /\ Waiting(k)' = Waiting(k) \ Of
    BY <1>3 DEF Waiting, Ids, KeyOf, HourOf
  <2>2. /\ IsFiniteSet(Of) /\ Cardinality(Of) \in Nat
        /\ Cardinality(Waiting(k) \ Of) = Cardinality(Waiting(k)) - Cardinality(Of)
    <3> HIDE DEF Of
    <3>1. IsFiniteSet(Of) /\ Waiting(k) \cap Of = Of
      BY <2>1, IdsFinite, FS_Subset
    <3>2. QED
      BY <3>1, IdsFinite, FS_CardinalityType, FS_Difference
  <2>3. Samples(k)' = Samples(k) + Cardinality(Of) /\ Samples(k) \in Nat
    <3>1. hourly'[k] # None
      <4>1. PICK i \in Of : TRUE
        BY <1>5
      <4>2. i \in ReportId /\ KeyOf(i) = k /\ aggregatedAt[i] = None /\ aggregatedAt'[i] # None
        BY <1>1, <1>3 DEF Waits, Raw
      <4>3. QED
        BY <4>2, AggregateCovers
    <3>2. hourly'[k].samples = Samples(k) + Cardinality(Of)
      <4>1. New.samples = Cardinality(Of)
        OBVIOUS
      <4> HIDE DEF Of, New
      <4>2. Upserted(k, New).samples = Samples(k) + Cardinality(Of)
        BY <2>2, <4>1 DEF Upserted, Samples
      <4>3. QED
        BY <1>2, <1>5, <4>2
    <3>3. QED
      BY <3>1, <3>2 DEF Samples, Aggregates, Aggregate
  <2>4. SumOver(stored', Ids(k)) = SumOver(stored, Ids(k))
    BY <1>1
  <2>5. Samples(k) + Cardinality(Of) + Cardinality(Waiting(k) \ Of) = SumOver(stored, Ids(k))
    <3> HIDE DEF Of
    <3> QED  BY <2>2, <2>3, IdsFinite DEF Balanced
  <2> HIDE DEF Of
  <2>6. QED
    BY <2>1, <2>3, <2>4, <2>5, BalanceNext
<1>6. QED
  BY <1>4, <1>5

\* What is deleted had been rolled up.
LEMMA DeleteRawBalances ==
  ASSUME IInv, Aggregates, DeleteRawBatch, NEW k \in Key, Balanced(k)
  PROVE  Balanced(k)'
<1>1. PICK B \in SUBSET RolledUp :
        /\ db' = RawDeleted(db, B)
        /\ aggregatedAt' = [i \in ReportId |-> IF i \in B THEN None ELSE aggregatedAt[i]]
        /\ UNCHANGED <<hourly, stored>>
  BY DEF DeleteRawBatch
<1>2. \A i \in ReportId : db'.row[i] = IF i \in B THEN None ELSE db.row[i]
  BY <1>1 DEF RawDeleted
<1>3. \A i \in ReportId : Waits(i)' <=> Waits(i)
  BY <1>1, <1>2 DEF RolledUp, Waits, Raw
<1>4. QED
  BY <1>1, <1>3, BalanceUntouched DEF Ids

\* An aggregate that expires takes along the reports it counts, not those that wait.
LEMMA ExpireBalances ==
  ASSUME IInv, Aggregates, ExpireBatch, NEW k \in Key, Balanced(k)
  PROVE  Balanced(k)'
<1>1. PICK B \in SUBSET Expired :
        /\ hourly' = [l \in Key |-> IF l \in B THEN None ELSE hourly[l]]
        /\ stored' = [i \in ReportId |->
                        IF KeyOf(i) \notin B THEN stored[i]
                        ELSE IF Raw(i) /\ aggregatedAt[i] = None THEN 1 ELSE 0]
        /\ UNCHANGED <<db, aggregatedAt>>
  BY DEF ExpireBatch
<1>2. \A i \in ReportId : Waits(i)' <=> Waits(i)
  BY <1>1, WaitsNext
<1>3. CASE k \notin B
  BY <1>1, <1>2, <1>3, BalanceUntouched DEF Ids
<1>4. CASE k \in B
  <2>1. Samples(k)' = 0
    BY <1>1, <1>4 DEF Samples
  <2>2. Waiting(k)' = Waiting(k)
    BY <1>2 DEF Waiting, Ids, KeyOf, HourOf
  <2>3. \A i \in Ids(k) : stored'[i] = IF i \in Waiting(k) THEN 1 ELSE 0
    BY <1>1, <1>4 DEF Waiting, Ids, Waits
  <2>4. SumOver(stored', Ids(k)) = Cardinality(Waiting(k))
    <3>1. SumOver(stored', Ids(k)) = Cardinality({i \in Ids(k) : i \in Waiting(k)})
      BY <2>3, IdsFinite, SumCounts
    <3>2. {i \in Ids(k) : i \in Waiting(k)} = Waiting(k)
      BY DEF Waiting
    <3>3. QED
      BY <3>1, <3>2
  <2>5. QED
    BY <2>1, <2>2, <2>4, BalanceNext, IdsFinite
<1>5. QED
  BY <1>3, <1>4

LEMMA BalanceStep ==
  ASSUME IInv, Aggregates, [Next]_vars, NEW k \in Key, Balanced(k)
  PROVE  Balanced(k)'
<1>1. ASSUME UNCHANGED tables PROVE Balanced(k)'
  BY <1>1, WaitsNext, BalanceUntouched DEF tables, Ids
<1>2. ASSUME Unseen PROVE Balanced(k)'
  BY <1>1, <1>2, AggregateBalances, DeleteRawBalances, ExpireBalances DEF Unseen, Transaction
<1>3. QED
  BY <1>1, <1>2, StoreBalances, DeleteHostBalances, Kinds DEF Next

LEMMA InitBalance == Init => \A k \in Key : Balanced(k)
<1> SUFFICES ASSUME Init, NEW k \in Key PROVE Balanced(k)
  OBVIOUS
<1>1. \A i \in ReportId : stored[i] = 0 /\ db.row[i] = None
  BY DEF Init, InitDB
<1>2. Samples(k) = 0
  BY DEF Init, Samples
<1>3. Waiting(k) = {}
  BY <1>1 DEF Waiting, Ids, Waits, Raw
<1>4. SumOver(stored, Ids(k)) = 0
  <2>1. SumOver(stored, Ids(k)) = Cardinality({i \in Ids(k) : i \in {}})
    <3>1. \A i \in Ids(k) : stored[i] = 0
      BY <1>1 DEF Ids
    <3>2. QED
      BY <3>1, IdsFinite, SumCounts
  <2>2. {i \in Ids(k) : i \in {}} = {}
    OBVIOUS
  <2>3. QED
    BY <2>1, <2>2, FS_EmptySet
<1>5. QED
  BY <1>2, <1>3, <1>4, FS_EmptySet DEF Balanced

\* The roll-up itself neither loses a report nor counts one twice, however
\* arrivals, batches, failures, crashes and deletions fall between its
\* transactions (aggregate_raw_batch, delete_expired_aggregate_batch).
THEOREM EveryReportCountedOnce == Spec => []Accounted
<1> DEFINE Inv == \A k \in Key : Balanced(k)
<1>1. IInv /\ Aggregates /\ Inv /\ [Next]_vars => Inv'
  <2> SUFFICES ASSUME IInv, Aggregates, Inv, [Next]_vars, NEW k \in Key PROVE Balanced(k)'
    BY DEF Key, HourOf
  <2> QED  BY BalanceStep
<1>2. Inv => Accounted
  BY DEF Accounted, Balanced, Samples, Waiting, Waits, Ids, SumOver
<1>3. QED
  BY <1>1, <1>2, InitBalance, AggregatesInvariant, Invariance, PTL DEF Spec

-----------------------------------------------------------------------------
(* The metrics of an aggregate.                                            *)

\* The fraction q is the mean of n values with the sum T.
IsMean(q, n, T) == q \in Int \X Int /\ q[2] > 0 /\ q[1] * n = T * q[2]

\* a holds the number, the bounds and the mean of the values r of V.
Sums(a, r, V) ==
  /\ a.count = Cardinality(V)
  /\ V = {} => a.min = Null /\ a.max = Null /\ a.avg = Null
  /\ V # {} => /\ \E i \in V : a.min = r[i]
               /\ \E i \in V : a.max = r[i]
               /\ \A i \in V : a.min <= r[i] /\ r[i] <= a.max
               /\ IsMean(a.avg, a.count, SumOver(r, V))

\* Moving the mean of n values by 1 / (n + 1) of its distance to v makes it the
\* mean of these and v.
LEMMA MeanOfOneMore ==
  ASSUME NEW q, NEW T \in Int, NEW v \in Int, NEW n \in Nat, IsMean(q, n, T)
  PROVE  IsMean(Towards(q, <<v, 1>>, 1, n + 1), n + 1, T + v)
<1>0. PICK q1 \in Int, q2 \in Int : q = <<q1, q2>> /\ q2 > 0 /\ q1 * n = T * q2
  BY DEF IsMean
<1> DEFINE avg == Towards(<<q1, q2>>, <<v, 1>>, 1, n + 1)
           m == n + 1
<1>1. avg = <<q1 * 1 * m + (v * q2 - q1 * 1) * 1, q2 * 1 * m>>
  BY DEF Towards
<1>2. q1 * 1 * m + (v * q2 - q1 * 1) * 1 = q1 * n + v * q2
  OBVIOUS
<1>3. q1 * n + v * q2 = (T + v) * q2
  BY <1>0
<1>4. q2 * 1 * m = q2 * m /\ q2 * m > 0
  BY <1>0
<1>5. ((T + v) * q2) * m = (T + v) * (q2 * m)
  OBVIOUS
<1>6. avg = <<(T + v) * q2, q2 * m>> /\ (T + v) * q2 \in Int /\ q2 * m \in Int
  BY <1>1, <1>2, <1>3, <1>4
<1> HIDE DEF avg
<1>7. QED
  BY <1>0, <1>4, <1>5, <1>6 DEF avg, IsMean

\* The mean of two groups of m and n values.
LEMMA MeanOfBoth ==
  ASSUME NEW q, NEW p, NEW T \in Int, NEW U \in Int, NEW m \in Nat, NEW n \in Nat,
         m + n > 0, IsMean(q, m, T), IsMean(p, n, U)
  PROVE  IsMean(Towards(q, p, n, m + n), m + n, T + U)
<1>0. PICK q1 \in Int, q2 \in Int, p1 \in Int, p2 \in Int :
        /\ q = <<q1, q2>> /\ q2 > 0 /\ q1 * m = T * q2
        /\ p = <<p1, p2>> /\ p2 > 0 /\ p1 * n = U * p2
  BY DEF IsMean
<1> DEFINE avg == Towards(<<q1, q2>>, <<p1, p2>>, n, m + n)
           w == m + n
           a == q1 * p2
           b == p1 * q2
           d == q2 * p2
<1>1. avg = <<a * w + (b - a) * n, d * w>>
  BY DEF Towards
<1>2. a \in Int /\ b \in Int /\ d \in Int /\ w \in Int /\ d > 0
  BY <1>0
<1>3. a * w + (b - a) * n = a * m + b * n
  <2> HIDE DEF a, b
  <2>1. a * w = a * m + a * n
    BY <1>2
  <2>2. (b - a) * n = b * n - a * n
    BY <1>2
  <2>3. a * m \in Int /\ a * n \in Int /\ b * n \in Int
    BY <1>2
  <2>4. QED
    BY <2>1, <2>2, <2>3
<1>4. a * m = T * d
  <2>1. a * m = (q1 * m) * p2
    OBVIOUS
  <2>2. (T * q2) * p2 = T * d
    OBVIOUS
  <2>3. QED
    BY <1>0, <2>1, <2>2
<1>5. b * n = U * d
  <2>1. b * n = (p1 * n) * q2
    OBVIOUS
  <2>2. (U * p2) * q2 = U * d
    OBVIOUS
  <2>3. QED
    BY <1>0, <2>1, <2>2
<1> HIDE DEF a, b, d, avg
<1>6. T * d + U * d = (T + U) * d
  BY <1>2
<1>7. avg = <<(T + U) * d, d * w>>
  BY <1>1, <1>3, <1>4, <1>5, <1>6
<1>8. (T + U) * d \in Int /\ d * w \in Int /\ d * w > 0
  BY <1>2
<1>9. ((T + U) * d) * w = (T + U) * (d * w)
  BY <1>2
<1>10. QED
  BY <1>0, <1>7, <1>8, <1>9 DEF avg, IsMean

\* ScalarAggregate::record adds one value.
LEMMA RecordSums ==
  ASSUME NEW r, NEW V, IsFiniteSet(V), NEW x, x \notin V,
         \A i \in V \cup {x} : r[i] \in Int, r[x] # Null,
         NEW a, Sums(a, r, V)
  PROVE  Sums(Record(a, r[x]), r, V \cup {x})
<1> DEFINE v == r[x]
           b == Record(a, v)
           U == V \cup {x}
<1>1. v \in Int /\ v # Null /\ U # {}
  OBVIOUS
<1>2. Cardinality(U) = Cardinality(V) + 1 /\ Cardinality(V) \in Nat /\ (Cardinality(V) = 0 <=> V = {})
  BY FS_AddElement, FS_CardinalityType, FS_EmptySet
<1>3. SumOver(r, U) = SumOver(r, V) + v /\ SumOver(r, V) \in Int
  BY SumAdd, SumChosen
<1>4. b.count = Cardinality(U)
  BY <1>1, <1>2 DEF Record, Sums
<1>5. CASE V = {}
  <2>1. b = [count |-> a.count + 1, min |-> v, max |-> v, avg |-> <<v, 1>>] /\ a.count = 0
    BY <1>1, <1>2, <1>5 DEF Record, Sums
  <2>2. b.min = v /\ b.max = v /\ b.avg = <<v, 1>> /\ b.count = 1
    BY <2>1
  <2>3. U = {x} /\ SumOver(r, U) = v
    BY <1>1, <1>3, <1>5, FS_EmptySet, SumChosen
  <2>4. IsMean(b.avg, b.count, SumOver(r, U))
    BY <1>1, <2>2, <2>3 DEF IsMean
  <2>5. \A i \in U : b.min <= r[i] /\ r[i] <= b.max
    BY <1>1, <2>2, <2>3
  <2> HIDE DEF b
  <2>6. QED
    BY <1>4, <2>2, <2>3, <2>4, <2>5 DEF Sums, b
<1>6. CASE V # {}
  <2>1. /\ b = [count |-> a.count + 1, min |-> Lower(a.min, v), max |-> Upper(a.max, v),
                avg |-> Towards(a.avg, <<v, 1>>, 1, a.count + 1)]
        /\ a.count = Cardinality(V) /\ a.count \in Nat
    BY <1>1, <1>2, <1>6 DEF Record, Sums
  <2>2. IsMean(a.avg, a.count, SumOver(r, V))
    BY <1>6 DEF Sums
  <2>3. IsMean(b.avg, b.count, SumOver(r, U))
    <3>1. b.avg = Towards(a.avg, <<v, 1>>, 1, a.count + 1) /\ b.count = a.count + 1
      BY <2>1
    <3> HIDE DEF b, v, U
    <3>2. QED
      BY <1>1, <1>3, <2>1, <2>2, <3>1, MeanOfOneMore
  <2>4. /\ a.min \in Int /\ a.max \in Int
        /\ \E i \in V : a.min = r[i]
        /\ \E i \in V : a.max = r[i]
        /\ \A i \in V : a.min <= r[i] /\ r[i] <= a.max
    BY <1>6 DEF Sums
  <2>5. b.min = Lower(a.min, v) /\ b.max = Upper(a.max, v)
    BY <2>1
  <2>6. /\ \E i \in U : b.min = r[i]
        /\ \E i \in U : b.max = r[i]
    BY <2>4, <2>5 DEF Lower, Upper
  <2>7. \A i \in U : b.min <= r[i] /\ r[i] <= b.max
    <3>1. b.min \in Int /\ b.max \in Int /\ b.min <= a.min /\ b.min <= v /\ a.max <= b.max /\ v <= b.max
      <4> HIDE DEF b, v
      <4> QED  BY <1>1, <2>4, <2>5 DEF Lower, Upper
    <3>2. ASSUME NEW i \in V PROVE b.min <= r[i] /\ r[i] <= b.max
      <4>1. r[i] \in Int /\ a.min <= r[i] /\ r[i] <= a.max
        BY <2>4
      <4> HIDE DEF b, v
      <4>2. QED
        BY <2>4, <3>1, <4>1
    <3> HIDE DEF b
    <3>3. QED
      BY <3>1, <3>2
  <2> HIDE DEF b, v
  <2>8. QED
    BY <1>1, <1>4, <2>3, <2>6, <2>7 DEF Sums, b, v
<1>7. QED
  BY <1>5, <1>6

\* hourly_upsert_sql adds the values of a batch.
LEMMA MergedSums ==
  ASSUME NEW r, NEW V, IsFiniteSet(V), NEW W, IsFiniteSet(W), V \cap W = {},
         \A i \in V \cup W : r[i] \in Int,
         NEW a, Sums(a, r, V), NEW b, Sums(b, r, W)
  PROVE  Sums(Merged(a, b), r, V \cup W)
<1> DEFINE c == Merged(a, b)
           U == V \cup W
<1>1. /\ Cardinality(V) \in Nat /\ Cardinality(W) \in Nat
      /\ (Cardinality(V) = 0 <=> V = {}) /\ (Cardinality(W) = 0 <=> W = {})
  BY FS_CardinalityType, FS_EmptySet
<1>2. Cardinality(U) = Cardinality(V) + Cardinality(W)
  <2>1. Cardinality(V \cup W) = Cardinality(V) + Cardinality(W) - Cardinality(V \cap W)
    BY FS_Union
  <2>2. Cardinality(V \cap W) = 0
    BY FS_EmptySet
  <2>3. QED
    BY <1>1, <2>1, <2>2
<1>3. a.count = Cardinality(V) /\ b.count = Cardinality(W)
  BY DEF Sums
<1>4. CASE V = {}
  <2>1. c = b /\ U = W
    BY <1>1, <1>3, <1>4 DEF Merged
  <2>2. QED
    BY <2>1
<1>5. CASE V # {} /\ W = {}
  <2>1. c = a /\ U = V
    BY <1>1, <1>3, <1>5 DEF Merged
  <2>2. QED
    BY <2>1
<1>6. CASE V # {} /\ W # {}
  <2>1. c = [count |-> a.count + b.count, min |-> Lower(a.min, b.min), max |-> Upper(a.max, b.max),
             avg |-> Towards(a.avg, b.avg, b.count, a.count + b.count)]
    BY <1>1, <1>3, <1>6 DEF Merged
  <2>2. /\ c.count = a.count + b.count /\ c.min = Lower(a.min, b.min) /\ c.max = Upper(a.max, b.max)
        /\ c.avg = Towards(a.avg, b.avg, b.count, a.count + b.count)
    BY <2>1
  <2> HIDE DEF c
  <2>3. IsMean(a.avg, a.count, SumOver(r, V))
    BY <1>6 DEF Sums
  <2>4. IsMean(b.avg, b.count, SumOver(r, W))
    BY <1>6 DEF Sums
  <2>5. SumOver(r, U) = SumOver(r, V) + SumOver(r, W) /\ SumOver(r, V) \in Int /\ SumOver(r, W) \in Int
    BY SumUnion, SumChosen
  <2>6. IsMean(c.avg, c.count, SumOver(r, U))
    <3>1. a.count \in Nat /\ b.count \in Nat /\ a.count + b.count > 0
      BY <1>1, <1>3, <1>6
    <3> HIDE DEF U
    <3>2. QED
      BY <2>2, <2>3, <2>4, <2>5, <3>1, MeanOfBoth
  <2>7. /\ a.min \in Int /\ a.max \in Int
        /\ \E i \in V : a.min = r[i]
        /\ \E i \in V : a.max = r[i]
        /\ \A i \in V : a.min <= r[i] /\ r[i] <= a.max
    BY <1>6 DEF Sums
  <2>8. /\ b.min \in Int /\ b.max \in Int
        /\ \E i \in W : b.min = r[i]
        /\ \E i \in W : b.max = r[i]
        /\ \A i \in W : b.min <= r[i] /\ r[i] <= b.max
    BY <1>6 DEF Sums
  <2>9. /\ \E i \in U : c.min = r[i]
        /\ \E i \in U : c.max = r[i]
    BY <2>2, <2>7, <2>8 DEF Lower, Upper
  <2>10. /\ c.min \in Int /\ c.max \in Int /\ c.min <= a.min /\ c.min <= b.min
         /\ a.max <= c.max /\ b.max <= c.max
    BY <2>2, <2>7, <2>8 DEF Lower, Upper
  <2>11. ASSUME NEW i \in U PROVE c.min <= r[i] /\ r[i] <= c.max
    <3>1. CASE i \in V
      <4>1. r[i] \in Int /\ a.min <= r[i] /\ r[i] <= a.max
        BY <2>7, <3>1
      <4>2. QED
        BY <2>7, <2>10, <4>1
    <3>2. CASE i \in W
      <4>1. r[i] \in Int /\ b.min <= r[i] /\ r[i] <= b.max
        BY <2>8, <3>2
      <4>2. QED
        BY <2>8, <2>10, <4>1
    <3>3. QED
      BY <3>1, <3>2
  <2>12. U # {}
    BY <1>6
  <2> HIDE DEF U
  <2>13. Sums(c, r, U)
    BY <1>2, <1>3, <2>2, <2>6, <2>9, <2>11, <2>12 DEF Sums
  <2>14. QED
    BY <2>13 DEF U, c
<1>7. QED
  BY <1>4, <1>5, <1>6

\* What the invariant below says of the reports does not depend on others.
LEMMA SumsSame ==
  ASSUME NEW V, IsFiniteSet(V), NEW r, NEW s, \A i \in V : r[i] \in Int /\ s[i] = r[i],
         NEW a, Sums(a, r, V)
  PROVE  Sums(a, s, V)
<1>1. SumOver(r, V) = SumOver(s, V)
  BY SumSame
<1>2. QED
  BY <1>1 DEF Sums

Valued(r, I) == {i \in I : r[i] # Null}

MetricInv ==
  /\ reports \in Seq(Value \cup {Null}) /\ flushed \in 0 .. Len(reports)
  /\ Sums(columns, reports, Valued(reports, 1 .. flushed))
  /\ Sums(aggregate, reports, Valued(reports, flushed + 1 .. Len(reports)))

\* The reports with a value are finitely many, and their values are numbers.
LEMMA ValuedType ==
  ASSUME reports \in Seq(Value \cup {Null}), NEW m \in Nat, NEW n \in Nat, n <= Len(reports)
  PROVE  LET V == Valued(reports, m + 1 .. n)
         IN  IsFiniteSet(V) /\ \A i \in V : reports[i] \in Int /\ i \in 1 .. Len(reports)
<1>1. IsFiniteSet(m + 1 .. n) /\ Valued(reports, m + 1 .. n) \in SUBSET (m + 1 .. n)
  BY FS_Interval DEF Valued
<1>2. \A i \in m + 1 .. n : reports[i] \in Value \cup {Null} /\ i \in 1 .. Len(reports)
  OBVIOUS
<1>3. QED
  BY <1>1, <1>2, FS_Subset, MetricAssumption DEF Valued

LEMMA InitMetric == MetricInit => MetricInv
<1> SUFFICES ASSUME MetricInit PROVE MetricInv
  OBVIOUS
<1>1. /\ reports = <<>> /\ flushed = 0 /\ columns = Empty /\ aggregate = Empty /\ Len(reports) = 0
      /\ reports \in Seq(Value \cup {Null})
  BY DEF MetricInit
<1>2. Valued(reports, 1 .. flushed) = {} /\ Valued(reports, flushed + 1 .. Len(reports)) = {}
  BY <1>1 DEF Valued
<1>3. Sums(Empty, reports, {})
  BY FS_EmptySet DEF Sums, Empty
<1>4. Sums(columns, reports, Valued(reports, 1 .. flushed))
      /\ Sums(aggregate, reports, Valued(reports, flushed + 1 .. Len(reports)))
  BY <1>1, <1>2, <1>3, Zenon
<1>5. flushed \in 0 .. Len(reports)
  BY <1>1
<1>6. QED
  BY <1>1, <1>4, <1>5 DEF MetricInv

LEMMA RecordStep ==
  ASSUME MetricInv, NEW value \in Value \cup {Null}, RecordReport(value)
  PROVE  MetricInv'
<1> DEFINE n == Len(reports)
           x == n + 1
           s == Append(reports, value)
           V == Valued(reports, 1 .. flushed)
           W == Valued(reports, flushed + 1 .. n)
<1>1. /\ reports \in Seq(Value \cup {Null}) /\ n \in Nat /\ flushed \in Nat /\ flushed <= n
      /\ Sums(columns, reports, V) /\ Sums(aggregate, reports, W)
  BY DEF MetricInv
<1>2. /\ reports' = s /\ flushed' = flushed /\ columns' = columns
      /\ aggregate' = Record(aggregate, value)
  BY DEF RecordReport
<1>3. /\ s \in Seq(Value \cup {Null}) /\ Len(s) = n + 1 /\ s[x] = value
      /\ \A i \in 1 .. n : s[i] = reports[i]
  BY <1>1
<1>4. /\ IsFiniteSet(V) /\ \A i \in V : reports[i] \in Int /\ i \in 1 .. n
      /\ IsFiniteSet(W) /\ \A i \in W : reports[i] \in Int /\ i \in 1 .. n
  <2>1. V = Valued(reports, 0 + 1 .. flushed)
    OBVIOUS
  <2> HIDE DEF V
  <2>2. QED
    BY <1>1, <2>1, ValuedType
<1>5. Sums(columns, s, V) /\ Sums(aggregate, s, W)
  <2> HIDE DEF V, W, s, n
  <2> QED  BY <1>1, <1>3, <1>4, SumsSame
<1>6. Valued(s, 1 .. flushed) = V
  BY <1>1, <1>3 DEF Valued
<1>7. Valued(s, flushed + 1 .. x) = IF value = Null THEN W ELSE W \cup {x}
  <2>1. flushed + 1 .. x = (flushed + 1 .. n) \cup {x}
    BY <1>1
  <2>2. \A i \in flushed + 1 .. n : s[i] = reports[i]
    BY <1>1, <1>3
  <2> HIDE DEF s, x
  <2>3. QED
    BY <1>3, <2>1, <2>2 DEF Valued
<1>8. Sums(Record(aggregate, value), s, Valued(s, flushed + 1 .. x))
  <2>1. CASE value = Null
    BY <1>5, <1>7, <2>1 DEF Record
  <2>2. CASE value # Null
    <3>1. value \in Int /\ x \notin W /\ \A i \in W \cup {x} : s[i] \in Int
      BY <1>1, <1>3, <1>4, <2>2, MetricAssumption
    <3> HIDE DEF W, s, x
    <3>2. Sums(Record(aggregate, s[x]), s, W \cup {x})
      BY <1>3, <1>4, <1>5, <2>2, <3>1, RecordSums
    <3>3. QED
      BY <1>3, <1>7, <2>2, <3>2
  <2>3. QED
    BY <2>1, <2>2
<1>9. flushed \in 0 .. Len(s)
  BY <1>1, <1>3
<1> HIDE DEF s, V, W
<1>10. QED
  BY <1>2, <1>3, <1>5, <1>6, <1>8, <1>9 DEF MetricInv, Valued

LEMMA UpsertStep ==
  ASSUME MetricInv, Upsert
  PROVE  MetricInv'
<1> DEFINE n == Len(reports)
           V == Valued(reports, 1 .. flushed)
           W == Valued(reports, flushed + 1 .. n)
<1>1. /\ reports \in Seq(Value \cup {Null}) /\ n \in Nat /\ flushed \in Nat /\ flushed <= n
      /\ Sums(columns, reports, V) /\ Sums(aggregate, reports, W)
  BY DEF MetricInv
<1>2. /\ reports' = reports /\ flushed' = n /\ columns' = Merged(columns, aggregate)
      /\ aggregate' = Empty
  BY DEF Upsert
<1>3. /\ IsFiniteSet(V) /\ \A i \in V : reports[i] \in Int /\ i \in 1 .. n
      /\ IsFiniteSet(W) /\ \A i \in W : reports[i] \in Int /\ i \in 1 .. n
  <2>1. V = Valued(reports, 0 + 1 .. flushed)
    OBVIOUS
  <2> HIDE DEF V
  <2>2. QED
    BY <1>1, <2>1, ValuedType
<1>4. V \cap W = {} /\ V \cup W = Valued(reports, 1 .. n)
  BY <1>1 DEF Valued
<1>5. Sums(Merged(columns, aggregate), reports, Valued(reports, 1 .. n))
  <2>1. Sums(Merged(columns, aggregate), reports, V \cup W)
    <3>1. \A i \in V \cup W : reports[i] \in Int
      BY <1>3
    <3> HIDE DEF V, W
    <3>2. QED
      BY <1>1, <1>3, <1>4, <3>1, MergedSums
  <2>2. QED
    BY <1>4, <2>1
<1>6. Sums(Empty, reports, Valued(reports, n + 1 .. n))
  <2>1. Valued(reports, n + 1 .. n) = {}
    BY <1>1 DEF Valued
  <2>2. QED
    BY <2>1, FS_EmptySet DEF Sums, Empty
<1>7. n \in 0 .. n
  BY <1>1
<1>8. QED
  BY <1>1, <1>2, <1>5, <1>6, <1>7 DEF MetricInv, Valued

\* However an hour is cut into batches, the stored columns are the count, minimum,
\* maximum and mean of all its values (ScalarAggregate::record, hourly_upsert_sql).
THEOREM AggregatesAreExact == MetricSpec => []ExactAggregate
<1>1. MetricInv /\ [MetricNext]_metricVars => MetricInv'
  <2>1. ASSUME MetricInv, UNCHANGED metricVars PROVE MetricInv'
    BY <2>1 DEF metricVars, MetricInv, Valued
  <2>2. QED
    BY <2>1, RecordStep, UpsertStep DEF MetricNext
<1>2. MetricInv => ExactAggregate
  BY DEF MetricInv, ExactAggregate, Describes, Sums, IsMean, Valued, SumOver
<1>3. QED
  BY <1>1, <1>2, InitMetric, PTL DEF MetricSpec
===============================================================================
