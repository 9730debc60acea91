----------------------------- MODULE ReportStore -----------------------------
(***************************************************************************)
(* The report tables of the SQLite database and the statements that        *)
(* store_report_in_transaction and delete_host run on them (store.rs).     *)
(*                                                                         *)
(* A database is a value, so that a transaction can work on a private copy *)
(* of it and commit by installing the copy.  Of a report row the model     *)
(* keeps its key, its owner and its collection time; of monitored_hosts    *)
(* the latest_* columns.  A host is "live" while its row is there, active, *)
(* with the unrevoked credential its client holds: nothing revokes a       *)
(* credential but the cascade of delete_host.                              *)
(***************************************************************************)
EXTENDS Naturals

CONSTANTS Host,      \* hosts that were paired before the run starts
          ReportId,  \* report UUIDs, ordered as SQLite orders them
          Time,      \* collection times
          None       \* SQL NULL, and "no such row"

ASSUME StoreAssumption ==
  /\ ReportId \subseteq Nat
  /\ Time \subseteq Nat
  /\ None \notin ReportId
  /\ None \notin Time
  /\ None \notin Host
  /\ None \notin [host : Host, at : Time]

Write == [host : Host, id : ReportId, at : Time]

Row == [host : Host, at : Time]

DB == [live     : SUBSET Host,
       row      : [ReportId -> Row \cup {None}],
       payload  : SUBSET ReportId,
       latest   : [Host -> ReportId \cup {None}],
       latestAt : [Host -> Time \cup {None}]]

InitDB == [live     |-> Host,
           row      |-> [i \in ReportId |-> None],
           payload  |-> {},
           latest   |-> [h \in Host |-> None],
           latestAt |-> [h \in Host |-> None]]

RowsOf(db, h) == {i \in ReportId : db.row[i] # None /\ db.row[i].host = h}

-----------------------------------------------------------------------------
(* store_report_in_transaction: the verdict, and the database it leaves.   *)

Verdict == {"accepted", "duplicate", "conflict", "unauthorized"}

\* Mutant: a tie on collected_at goes to whichever report arrives last.
LatestOnTie(db, w) ==
  LET collected == db.latestAt[w.host]
  IN  collected = None \/ w.at >= collected

BecomesLatest(db, w) ==
  LET previous == db.latest[w.host]
      collected == db.latestAt[w.host]
  IN  \/ collected = None
      \/ w.at > collected
      \/ w.at = collected /\ (previous = None \/ w.id > previous)

\* Mutant: the owner of an existing row is not compared.
VerdictAnyOwner(db, w) ==
  IF w.host \notin db.live THEN "unauthorized"
  ELSE IF db.row[w.id] = None THEN "accepted" ELSE "duplicate"

\* Mutant: every existing row is a conflict, the sender's own too.
VerdictNoRetry(db, w) ==
  IF w.host \notin db.live THEN "unauthorized"
  ELSE IF db.row[w.id] = None THEN "accepted" ELSE "conflict"

\* Mutant: the row is upserted instead of left alone.
VerdictUpsert(db, w) ==
  IF w.host \notin db.live THEN "unauthorized"
  ELSE IF db.row[w.id] = None \/ db.row[w.id].host = w.host THEN "accepted"
  ELSE "conflict"

VerdictOn(db, w) ==
  IF w.host \notin db.live THEN "unauthorized"
  ELSE IF db.row[w.id] = None THEN "accepted"
  ELSE IF db.row[w.id].host = w.host THEN "duplicate"
  ELSE "conflict"

\* The row is inserted; a report that becomes the latest keeps its payload and
\* takes it from the previous one.
Inserted(db, w) ==
  LET host == w.host
      new  == BecomesLatest(db, w)
  IN  [live     |-> db.live,
       row      |-> [db.row EXCEPT ![w.id] = [host |-> host, at |-> w.at]],
       payload  |-> IF new THEN (db.payload \ {db.latest[host]}) \cup {w.id} ELSE db.payload,
       latest   |-> IF new THEN [db.latest EXCEPT ![host] = w.id] ELSE db.latest,
       latestAt |-> IF new THEN [db.latestAt EXCEPT ![host] = w.at] ELSE db.latestAt]

\* Mutant: INSERT OR REPLACE, which takes the row of another host.
StoredReplacing(db, w) ==
  IF VerdictOn(db, w) \in {"accepted", "conflict"} THEN Inserted(db, w) ELSE db

Stored(db, w) == IF VerdictOn(db, w) = "accepted" THEN Inserted(db, w) ELSE db

-----------------------------------------------------------------------------
(* delete_host: the foreign keys cascade to reports and credentials.       *)

HostDeleted(db, h) ==
  [live     |-> db.live \ {h},
   row      |-> [i \in ReportId |-> IF i \in RowsOf(db, h) THEN None ELSE db.row[i]],
   payload  |-> db.payload \ RowsOf(db, h),
   latest   |-> [db.latest EXCEPT ![h] = None],
   latestAt |-> [db.latestAt EXCEPT ![h] = None]]

-----------------------------------------------------------------------------
(* retention.rs: raw rows leave the table, their payload with them.        *)

LatestIds(db) == {db.latest[h] : h \in Host} \ {None}

RawDeleted(db, B) ==
  [live     |-> db.live,
   row      |-> [i \in ReportId |-> IF i \in B THEN None ELSE db.row[i]],
   payload  |-> db.payload \ B,
   latest   |-> db.latest,
   latestAt |-> db.latestAt]

-----------------------------------------------------------------------------
(* What every reader of the tables relies on.                              *)

\* i is the newest report of its host: the greatest (collected_at, report_id).
Newest(db, i) ==
  \A j \in RowsOf(db, db.row[i].host) :
     \/ db.row[j].at < db.row[i].at
     \/ db.row[j].at = db.row[i].at /\ j <= i

LatestPointer(db, h) ==
  IF RowsOf(db, h) = {} THEN db.latest[h] = None /\ db.latestAt[h] = None
  ELSE /\ db.latest[h] \in RowsOf(db, h)
       /\ db.latestAt[h] = db.row[db.latest[h]].at
       /\ Newest(db, db.latest[h])

\* The latest pointer of every host names its newest report, exactly these
\* reports keep their payload, and a deleted host leaves no row behind.
Consistent(db) ==
  /\ \A h \in Host : LatestPointer(db, h)
  /\ db.payload = {db.latest[h] : h \in Host} \ {None}
  /\ \A i \in ReportId : db.row[i] # None => db.row[i].host \in db.live
=============================================================================
