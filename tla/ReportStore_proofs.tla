-------------------------- MODULE ReportStore_proofs --------------------------
(***************************************************************************)
(* What the operators of ReportStore preserve, for any hosts, report ids   *)
(* and times.                                                              *)
(***************************************************************************)
EXTENDS ReportStore, TLAPS

(***************************************************************************)
(* The operators of ReportStore map databases to databases.                *)
(***************************************************************************)
\* The empty database is a database.
LEMMA InitDBType == InitDB \in DB
  BY DEF InitDB, DB, Row

\* A report gets one of the four verdicts, whatever the database.
LEMMA VerdictType == ASSUME NEW d, NEW w PROVE VerdictOn(d, w) \in Verdict
  BY DEF VerdictOn, Verdict

\* Storing a report yields a database.
LEMMA StoredType ==
  ASSUME NEW d \in DB, NEW w \in Write
  PROVE  Stored(d, w) \in DB
<1>1. w.host \in Host /\ w.id \in ReportId /\ w.at \in Time
  BY DEF Write
<1>2. [d.row EXCEPT ![w.id] = [host |-> w.host, at |-> w.at]] \in [ReportId -> Row \cup {None}]
  BY <1>1 DEF DB, Row
<1>3. Inserted(d, w) \in DB
  BY <1>1, <1>2 DEF Inserted, DB
<1>4. QED
  BY <1>3 DEF Stored

\* Deleting a host yields a database.
LEMMA HostDeletedType ==
  ASSUME NEW d \in DB, NEW h \in Host
  PROVE  HostDeleted(d, h) \in DB
<1>1. [i \in ReportId |-> IF i \in RowsOf(d, h) THEN None ELSE d.row[i]]
        \in [ReportId -> Row \cup {None}]
  BY DEF DB
<1>2. QED
  BY <1>1 DEF HostDeleted, DB

(***************************************************************************)
(* Storing a report keeps every row that is there.                         *)
(***************************************************************************)
Extends(e, d) ==
  /\ e.live = d.live
  /\ \A i \in ReportId : d.row[i] # None => e.row[i] = d.row[i]

\* Storing a report removes nothing and changes no row that is there.
LEMMA StoredExtends ==
  ASSUME NEW d \in DB, NEW w \in Write
  PROVE  Extends(Stored(d, w), d)
<1>1. w.id \in ReportId
  BY DEF Write
<1>2. d.row \in [ReportId -> Row \cup {None}]
  BY DEF DB
<1>3. CASE VerdictOn(d, w) = "accepted"
  <2>1. d.row[w.id] = None
    BY <1>3 DEF VerdictOn
  <2>2. /\ Stored(d, w).live = d.live
        /\ Stored(d, w).row = [d.row EXCEPT ![w.id] = [host |-> w.host, at |-> w.at]]
    BY <1>3 DEF Stored, Inserted
  <2>3. QED
    BY <1>1, <1>2, <2>1, <2>2 DEF Extends
<1>4. CASE VerdictOn(d, w) # "accepted"
  BY <1>4 DEF Stored, Extends
<1>5. QED
  BY <1>3, <1>4

\* A batch of stored reports extends what was there before it.
LEMMA ExtendsTransitive ==
  ASSUME NEW d, NEW e, NEW f, Extends(e, d), Extends(f, e)
  PROVE  Extends(f, d)
  BY DEF Extends

(***************************************************************************)
(* Storing a report and deleting a host keep the tables consistent.        *)
(***************************************************************************)
\* The empty tables are consistent.
LEMMA InitDBConsistent == Consistent(InitDB)
<1>1. ASSUME NEW h \in Host PROVE LatestPointer(InitDB, h)
  BY DEF InitDB, LatestPointer, RowsOf
<1>2. InitDB.payload = {InitDB.latest[h] : h \in Host} \ {None}
  BY DEF InitDB
<1>3. QED
  BY <1>1, <1>2 DEF Consistent, InitDB

\* The latest pointer of a consistent database is a report or NULL.
LEMMA LatestIsReport ==
  ASSUME NEW d \in DB, Consistent(d), NEW h \in Host, d.latest[h] # None
  PROVE  d.latest[h] \in RowsOf(d, h)
  BY DEF Consistent, LatestPointer

\* store_report_in_transaction keeps the tables consistent, in any order of
\* collection times and ids.
LEMMA StoredConsistent ==
  ASSUME NEW d \in DB, NEW w \in Write, Consistent(d)
  PROVE  Consistent(Stored(d, w))
<1> DEFINE e == Inserted(d, w)
           host == w.host
           id == w.id
<1>1. CASE VerdictOn(d, w) # "accepted"
  BY <1>1 DEF Stored
<1>2. CASE VerdictOn(d, w) = "accepted"
  <2>1. Stored(d, w) = e
    BY <1>2 DEF Stored
  <2>2. host \in d.live /\ d.row[id] = None
    BY <1>2 DEF VerdictOn
  <2>3. /\ host \in Host /\ id \in ReportId /\ w.at \in Time
        /\ id \in Nat /\ w.at \in Nat /\ None \notin ReportId /\ None \notin Time
        /\ d.row \in [ReportId -> Row \cup {None}]
        /\ d.latest \in [Host -> ReportId \cup {None}]
        /\ d.latestAt \in [Host -> Time \cup {None}]
    BY StoreAssumption DEF Write, DB
  <2>4. /\ e.live = d.live
        /\ e.row = [d.row EXCEPT ![id] = [host |-> host, at |-> w.at]]
        /\ e.payload = IF BecomesLatest(d, w) THEN (d.payload \ {d.latest[host]}) \cup {id} ELSE d.payload
        /\ e.latest = IF BecomesLatest(d, w) THEN [d.latest EXCEPT ![host] = id] ELSE d.latest
        /\ e.latestAt = IF BecomesLatest(d, w) THEN [d.latestAt EXCEPT ![host] = w.at] ELSE d.latestAt
    BY DEF Inserted
  <2> HIDE DEF e, host, id
  <2>5. [host |-> host, at |-> w.at] # None
    BY StoreAssumption, <2>3
  <2>6. /\ e.row[id] # None /\ e.row[id].host = host /\ e.row[id].at = w.at
        /\ \A i \in ReportId \ {id} : e.row[i] = d.row[i]
    BY <2>3, <2>4, <2>5
  <2>7. RowsOf(e, host) = RowsOf(d, host) \cup {id}
    BY <2>2, <2>3, <2>6 DEF RowsOf
  <2>8. \A h \in Host \ {host} : RowsOf(e, h) = RowsOf(d, h)
    <3>1. SUFFICES ASSUME NEW h \in Host \ {host}, NEW i \in ReportId
          PROVE  i \in RowsOf(e, h) <=> i \in RowsOf(d, h)
      BY DEF RowsOf
    <3>2. CASE i = id
      BY <2>2, <2>6, <3>2 DEF RowsOf
    <3>3. CASE i # id
      BY <2>6, <3>3 DEF RowsOf
    <3>4. QED
      BY <3>2, <3>3
  <2>9. id \notin RowsOf(d, host) /\ (\A h \in Host : id \notin RowsOf(d, h))
    BY <2>2 DEF RowsOf
  <2>10. \A h \in Host : LatestPointer(d, h)
    BY DEF Consistent
  <2>11. ASSUME NEW h \in Host, h # host
         PROVE  LatestPointer(e, h)
    <3>1. e.latest[h] = d.latest[h] /\ e.latestAt[h] = d.latestAt[h]
      BY <2>3, <2>4, <2>11
    <3>2. CASE RowsOf(d, h) = {}
      BY <2>8, <2>10, <2>11, <3>1, <3>2 DEF LatestPointer
    <3>3. CASE RowsOf(d, h) # {}
      <4>1. d.latest[h] \in RowsOf(d, h) /\ d.latestAt[h] = d.row[d.latest[h]].at /\ Newest(d, d.latest[h])
        BY <2>10, <3>3 DEF LatestPointer
      <4>2. \A j \in RowsOf(d, h) : e.row[j] = d.row[j]
        BY <2>6, <2>9 DEF RowsOf
      <4>3. d.row[d.latest[h]].host = h /\ e.row[d.latest[h]].host = h
        BY <4>1, <4>2 DEF RowsOf
      <4>4. Newest(e, e.latest[h])
        BY <2>8, <2>11, <3>1, <4>1, <4>2, <4>3 DEF Newest
      <4>5. QED
        BY <2>8, <2>11, <3>1, <3>3, <4>1, <4>2, <4>4 DEF LatestPointer
    <3>4. QED
      BY <3>2, <3>3
  <2>12. LatestPointer(e, host)
    <3> DEFINE prev == d.latest[host]
    <3>1. \A j \in RowsOf(d, host) :
             /\ j \in ReportId /\ j \in Nat /\ j # id
             /\ e.row[j] = d.row[j] /\ d.row[j].host = host
             /\ d.row[j].at \in Time /\ d.row[j].at \in Nat
      BY <2>3, <2>6, <2>9, StoreAssumption DEF RowsOf, Row
    <3>2. CASE RowsOf(d, host) = {}
      <4>1. BecomesLatest(d, w)
        BY <2>3, <2>10, <3>2 DEF LatestPointer, BecomesLatest, host
      <4>2. e.latest[host] = id /\ e.latestAt[host] = w.at
        BY <2>3, <2>4, <4>1
      <4>3. Newest(e, id)
        BY <2>3, <2>6, <2>7, <3>2 DEF Newest
      <4>4. QED
        BY <2>6, <2>7, <4>2, <4>3 DEF LatestPointer
    <3>3. CASE RowsOf(d, host) # {}
      <4>1. prev \in RowsOf(d, host) /\ d.latestAt[host] = d.row[prev].at /\ Newest(d, prev)
        BY <2>3, <2>10, <3>3 DEF LatestPointer
      <4>2. /\ prev \in Nat /\ prev # None /\ d.row[prev].at \in Nat /\ d.latestAt[host] # None
            /\ d.row[prev].host = host
        BY <2>3, <3>1, <4>1 DEF RowsOf
      <4>3. \A j \in RowsOf(d, host) :
               d.row[j].at < d.row[prev].at \/ (d.row[j].at = d.row[prev].at /\ j <= prev)
        BY <4>1, <4>2 DEF Newest
      <4>4. BecomesLatest(d, w) <=> (w.at > d.row[prev].at \/ (w.at = d.row[prev].at /\ id > prev))
        BY <4>1, <4>2 DEF BecomesLatest, host, id
      <4>5. CASE BecomesLatest(d, w)
        <5>1. e.latest[host] = id /\ e.latestAt[host] = w.at
          BY <2>3, <2>4, <4>5
        <5>2. \A j \in RowsOf(d, host) : e.row[j].at < w.at \/ (e.row[j].at = w.at /\ j <= id)
          BY <2>3, <3>1, <4>2, <4>3, <4>4, <4>5
        <5>3. Newest(e, id)
          BY <2>3, <2>6, <2>7, <5>2 DEF Newest
        <5>4. QED
          BY <2>6, <2>7, <5>1, <5>3 DEF LatestPointer
      <4>6. CASE ~BecomesLatest(d, w)
        <5>1. e.latest[host] = prev /\ e.latestAt[host] = d.row[prev].at
          BY <2>4, <4>1, <4>6
        <5>2. w.at < d.row[prev].at \/ (w.at = d.row[prev].at /\ id <= prev)
          BY <2>3, <4>2, <4>4, <4>6
        <5>3. e.row[prev] = d.row[prev] /\ e.row[prev].host = host
          BY <3>1, <4>1
        <5>4. \A j \in RowsOf(e, host) :
                 e.row[j].at < e.row[prev].at \/ (e.row[j].at = e.row[prev].at /\ j <= prev)
          BY <2>6, <2>7, <3>1, <4>3, <5>2, <5>3
        <5>5. Newest(e, prev)
          BY <5>3, <5>4 DEF Newest
        <5>6. QED
          BY <2>7, <4>1, <5>1, <5>3, <5>5 DEF LatestPointer
      <4>7. QED
        BY <4>5, <4>6
    <3>4. QED
      BY <3>2, <3>3
  <2>13. e.payload = {e.latest[h] : h \in Host} \ {None}
    <3>1. d.payload = {d.latest[h] : h \in Host} \ {None}
      BY DEF Consistent
    <3>2. CASE ~BecomesLatest(d, w)
      BY <2>4, <3>1, <3>2
    <3>3. CASE BecomesLatest(d, w)
      <4>1. \A h \in Host : d.latest[h] # None => d.latest[h] \in RowsOf(d, h)
        BY LatestIsReport
      <4>2. \A g, h \in Host : g # h /\ d.latest[g] = d.latest[h] => d.latest[h] = None
        BY <4>1 DEF RowsOf
      <4>3. /\ e.payload = (d.payload \ {d.latest[host]}) \cup {id}
            /\ e.latest[host] = id
            /\ \A h \in Host \ {host} : e.latest[h] = d.latest[h]
        BY <2>3, <2>4, <3>3
      <4>4. \A x : x \in e.payload <=> (x = id \/ (x # None /\ \E h \in Host \ {host} : x = d.latest[h]))
        BY <2>3, <3>1, <4>2, <4>3
      <4>5. \A x : x \in {e.latest[h] : h \in Host} \ {None} <=> (x = id \/ (x # None /\ \E h \in Host \ {host} : x = d.latest[h]))
        BY <2>3, <4>3
      <4>6. QED
        BY <4>4, <4>5
    <3>4. QED
      BY <3>2, <3>3
  <2>14. \A i \in ReportId : e.row[i] # None => e.row[i].host \in e.live
    BY <2>2, <2>4, <2>6 DEF Consistent
  <2>15. QED
    BY <2>1, <2>11, <2>12, <2>13, <2>14 DEF Consistent
<1>3. QED
  BY <1>1, <1>2

\* delete_host keeps the tables consistent.
LEMMA HostDeletedConsistent ==
  ASSUME NEW d \in DB, NEW g \in Host, Consistent(d)
  PROVE  Consistent(HostDeleted(d, g))
<1> DEFINE e == HostDeleted(d, g)
<1>1. /\ d.row \in [ReportId -> Row \cup {None}]
      /\ d.latest \in [Host -> ReportId \cup {None}]
      /\ d.latestAt \in [Host -> Time \cup {None}]
  BY DEF DB
<1>2. /\ e.live = d.live \ {g}
      /\ e.row = [i \in ReportId |-> IF i \in RowsOf(d, g) THEN None ELSE d.row[i]]
      /\ e.payload = d.payload \ RowsOf(d, g)
      /\ e.latest = [d.latest EXCEPT ![g] = None]
      /\ e.latestAt = [d.latestAt EXCEPT ![g] = None]
  BY DEF HostDeleted
<1> HIDE DEF e
<1>3. RowsOf(e, g) = {}
  BY <1>2 DEF RowsOf
<1>4. \A h \in Host \ {g} : RowsOf(e, h) = RowsOf(d, h)
  BY <1>2 DEF RowsOf
<1>5. \A h \in Host \ {g} : \A j \in RowsOf(d, h) : e.row[j] = d.row[j]
  BY <1>2 DEF RowsOf
<1>6. \A h \in Host : LatestPointer(d, h)
  BY DEF Consistent
<1>7. LatestPointer(e, g)
  BY <1>1, <1>2, <1>3 DEF LatestPointer
<1>8. ASSUME NEW h \in Host \ {g}
      PROVE  LatestPointer(e, h)
  <2>1. e.latest[h] = d.latest[h] /\ e.latestAt[h] = d.latestAt[h]
    BY <1>1, <1>2
  <2>2. CASE RowsOf(d, h) = {}
    BY <1>4, <1>6, <2>1, <2>2 DEF LatestPointer
  <2>3. CASE RowsOf(d, h) # {}
    <3>1. d.latest[h] \in RowsOf(d, h) /\ d.latestAt[h] = d.row[d.latest[h]].at /\ Newest(d, d.latest[h])
      BY <1>6, <2>3 DEF LatestPointer
    <3>2. d.row[d.latest[h]].host = h /\ e.row[d.latest[h]] = d.row[d.latest[h]]
      BY <1>5, <3>1 DEF RowsOf
    <3>3. Newest(e, e.latest[h])
      BY <1>4, <1>5, <2>1, <3>1, <3>2 DEF Newest
    <3>4. QED
      BY <1>4, <2>1, <2>3, <3>1, <3>2, <3>3 DEF LatestPointer
  <2>4. QED
    BY <2>2, <2>3
<1>9. e.payload = {e.latest[h] : h \in Host} \ {None}
  <2>1. d.payload = {d.latest[h] : h \in Host} \ {None}
    BY DEF Consistent
  <2>2. \A h \in Host : d.latest[h] # None => d.latest[h] \in RowsOf(d, h)
    BY LatestIsReport
  <2>3. \A h \in Host \ {g} : d.latest[h] # None => d.latest[h] \notin RowsOf(d, g)
    BY <2>2 DEF RowsOf
  <2>4. /\ e.latest[g] = None
        /\ \A h \in Host \ {g} : e.latest[h] = d.latest[h]
    BY <1>1, <1>2
  <2>5. \A x : x \in e.payload <=> (x # None /\ \E h \in Host \ {g} : x = d.latest[h])
    BY <1>2, <2>1, <2>2, <2>3
  <2>6. \A x : x \in {e.latest[h] : h \in Host} \ {None} <=> (x # None /\ \E h \in Host \ {g} : x = d.latest[h])
    BY <2>4
  <2>7. QED
    BY <2>5, <2>6
<1>10. \A i \in ReportId : e.row[i] # None => e.row[i].host \in e.live
  BY <1>2 DEF Consistent, RowsOf
<1>11. QED
  BY <1>7, <1>8, <1>9, <1>10 DEF Consistent, e

-----------------------------------------------------------------------------

(***************************************************************************)
(* Deleting raw rows.                                                      *)
(***************************************************************************)
\* Deleting raw rows yields a database.
LEMMA RawDeletedType ==
  ASSUME NEW d \in DB, NEW B \in SUBSET ReportId
  PROVE  RawDeleted(d, B) \in DB
  BY DEF RawDeleted, DB

\* Deleting raw rows that are no host's latest report keeps the tables
\* consistent: the latest report of a host is newest among fewer.
LEMMA RawDeletedConsistent ==
  ASSUME NEW d \in DB, NEW B \in SUBSET ReportId, Consistent(d), B \cap LatestIds(d) = {}
  PROVE  Consistent(RawDeleted(d, B))
<1> DEFINE e == RawDeleted(d, B)
<1>1. /\ e.live = d.live /\ e.payload = d.payload \ B
      /\ e.latest = d.latest /\ e.latestAt = d.latestAt
      /\ \A i \in ReportId : e.row[i] = IF i \in B THEN None ELSE d.row[i]
  BY DEF RawDeleted
<1>2. \A h \in Host : RowsOf(e, h) = RowsOf(d, h) \ B
  BY <1>1 DEF RowsOf
<1>3. e.payload = {e.latest[h] : h \in Host} \ {None}
  BY <1>1 DEF Consistent, LatestIds
<1>4. ASSUME NEW i \in ReportId, e.row[i] # None
      PROVE  e.row[i].host \in e.live
  BY <1>1, <1>4 DEF Consistent
<1>5. ASSUME NEW h \in Host
      PROVE  LatestPointer(e, h)
  <2>1. LatestPointer(d, h)
    BY DEF Consistent
  <2>2. CASE RowsOf(d, h) = {}
    BY <1>1, <1>2, <2>1, <2>2 DEF LatestPointer
  <2>3. CASE RowsOf(d, h) # {}
    <3>1. /\ d.latest[h] \in RowsOf(d, h) /\ d.latest[h] \in ReportId
          /\ d.latestAt[h] = d.row[d.latest[h]].at /\ Newest(d, d.latest[h])
      BY <2>1, <2>3 DEF LatestPointer, RowsOf
    <3>2. d.latest[h] \notin B
      BY <3>1, StoreAssumption DEF LatestIds
    <3>3. e.latest[h] = d.latest[h] /\ e.row[e.latest[h]] = d.row[d.latest[h]]
      BY <1>1, <3>1, <3>2
    <3>4. e.latest[h] \in RowsOf(e, h)
      BY <1>2, <3>1, <3>2, <3>3
    <3>5. d.row[d.latest[h]].host = h
      BY <3>1 DEF RowsOf
    <3>6. Newest(e, e.latest[h])
      <4>1. ASSUME NEW j \in RowsOf(e, h)
            PROVE  \/ e.row[j].at < e.row[e.latest[h]].at
                   \/ e.row[j].at = e.row[e.latest[h]].at /\ j <= e.latest[h]
        <5>1. j \in RowsOf(d, h) /\ j \in ReportId /\ e.row[j] = d.row[j]
          BY <1>1, <1>2, <4>1 DEF RowsOf
        <5>2. QED
          BY <3>1, <3>3, <3>5, <5>1 DEF Newest
      <4>2. QED
        BY <3>3, <3>5, <4>1 DEF Newest
    <3>7. QED
      BY <1>1, <3>1, <3>3, <3>4, <3>6 DEF LatestPointer
  <2>4. QED
    BY <2>2, <2>3
<1>6. QED
  BY <1>3, <1>4, <1>5 DEF Consistent
=============================================================================
