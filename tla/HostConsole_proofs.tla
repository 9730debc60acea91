--------------------------- MODULE HostConsole_proofs ---------------------------
(***************************************************************************)
(* Proofs about HostConsole, for any hosts, reports, calls, limits and     *)
(* clicks.  Each part of the invariant speaks of one group of variables:   *)
(* the tables, the calls, the remarks and the page.                        *)
(***************************************************************************)
EXTENDS HostConsole, ReportStore_proofs, FiniteSetLemmas

Types ==
  /\ db \in DB /\ gone \in SUBSET Host /\ stored \in SUBSET ReportId
  /\ name \in [Host -> Call \cup {None}] /\ trail \in Seq(Call)
  /\ tx \in [by : Call \cup {None}, name : [Host -> Call \cup {None}]]
  /\ pc \in [Call -> {"never", "first", "second", "done"}]
  /\ status \in [Call -> Status]
  /\ summary \in [Call -> ReportId \cup {None}]
  /\ payload \in [Call -> ReportId \cup {None}]
  /\ points \in [Call -> SUBSET ReportId]
  /\ before \in [Call -> (SUBSET ReportId) \cup {None}]
  /\ open \in BOOLEAN /\ offset \in Nat
  /\ fetches \in Seq(Fetch)
  /\ response \in Response \cup {None}
  /\ goneThen \in SUBSET Host /\ must \in SUBSET Host /\ met \in SUBSET Host

\* A report is stored at most once, as it was sent, and a host is paired at most once.
Tables ==
  /\ Consistent(db)
  /\ \A i \in ReportId : db.row[i] # None => db.row[i] = Sent[i] /\ i \in stored
  /\ db.live \cap gone = {}

-----------------------------------------------------------------------------
(* The writes of the rest of the server.                                   *)

LEMMA SentType ==
  ASSUME NEW i \in ReportId
  PROVE  /\ Sent[i] \in Row /\ Sent[i].host \in Host /\ Sent[i].at \in Time /\ Sent[i].at \in Nat
         /\ i \in Nat /\ i # None /\ Sent[i].at # None
         /\ [host |-> Sent[i].host, id |-> i, at |-> Sent[i].at] \in Write
         /\ [host |-> Sent[i].host, at |-> Sent[i].at] = Sent[i]
BY ConsoleAssumption, StoreAssumption DEF Row, Write

LEMMA OpHost ==
  ASSUME NEW c \in Call
  PROVE  Op[c].host \in Host
BY ConsoleAssumption DEF DetailOp, RemarkOp, HistoryOp

\* What storing a new report does to the tables.
LEMMA StoreReportDoes ==
  ASSUME Types, Tables, NEW i \in ReportId, StoreReport(i)
  PROVE  /\ db' \in DB /\ Consistent(db') /\ db'.live = db.live
         /\ db'.row = [db.row EXCEPT ![i] = Sent[i]]
         /\ \A h \in Host : \/ db'.latest[h] = db.latest[h]
                            \/ /\ h = Sent[i].host /\ db'.latest[h] = i
                               /\ db.latest[h] # None => Older(db.latest[h], i)
<1> DEFINE w == [host |-> Sent[i].host, id |-> i, at |-> Sent[i].at]
<1>1. w \in Write /\ db' = Stored(db, w) /\ db \in DB /\ Consistent(db)
  BY SentType DEF Types, Tables, StoreReport
<1>2. VerdictOn(db, w) = "accepted"
  BY DEF StoreReport, VerdictOn, Tables
<1>3. db' = Inserted(db, w)
  BY <1>1, <1>2 DEF Stored
<1>4. db' \in DB /\ Consistent(db')
  BY <1>1, StoredType, StoredConsistent
<1>5. db'.live = db.live /\ db'.row = [db.row EXCEPT ![i] = Sent[i]]
  BY <1>3, SentType DEF Inserted
<1>6. db'.latest = IF BecomesLatest(db, w) THEN [db.latest EXCEPT ![Sent[i].host] = i] ELSE db.latest
  BY <1>3 DEF Inserted
<1>7. ASSUME BecomesLatest(db, w), db.latest[Sent[i].host] # None
      PROVE  Older(db.latest[Sent[i].host], i)
  <2> DEFINE j == db.latest[Sent[i].host]
  <2>1. /\ j \in RowsOf(db, Sent[i].host) /\ db.latestAt[Sent[i].host] = db.row[j].at
    BY <1>7, SentType DEF Tables, Consistent, LatestPointer
  <2>2. j \in ReportId /\ db.row[j] = Sent[j]
    BY <2>1 DEF RowsOf, Tables
  <2>3. Sent[j].at \in Nat /\ Sent[j].at # None /\ j \in Nat /\ i \in Nat /\ Sent[i].at \in Nat
    BY <2>2, SentType
  <2>4. Sent[i].at > Sent[j].at \/ (Sent[i].at = Sent[j].at /\ i > j)
    BY <1>7, <2>1, <2>2, <2>3 DEF BecomesLatest
  <2>5. QED
    BY <2>3, <2>4 DEF Older
<1>8. \A h \in Host : \/ db'.latest[h] = db.latest[h]
                      \/ /\ h = Sent[i].host /\ db'.latest[h] = i
                         /\ db.latest[h] # None => Older(db.latest[h], i)
  BY <1>1, <1>6, <1>7, SentType DEF DB
<1>9. QED
  BY <1>4, <1>5, <1>8

\* And deleting an old one.
LEMMA PruneDoes ==
  ASSUME Types, Tables, NEW i \in ReportId, Prune(i)
  PROVE  /\ db' \in DB /\ Consistent(db') /\ db'.live = db.live /\ db'.latest = db.latest
         /\ \A j \in ReportId : db'.row[j] \in {None, db.row[j]}
<1>1. db' = RawDeleted(db, {i}) /\ {i} \in SUBSET ReportId /\ {i} \cap LatestIds(db) = {}
  BY DEF Prune
<1>2. db' \in DB /\ Consistent(db')
  BY <1>1, RawDeletedType, RawDeletedConsistent DEF Types, Tables
<1>3. QED
  BY <1>1, <1>2 DEF RawDeleted

\* Pairing and deleting a host.
LEMMA ActivateDoes ==
  ASSUME Types, Tables, NEW h \in Host, Activate(h)
  PROVE  /\ db' \in DB /\ Consistent(db') /\ db'.live = db.live \cup {h}
         /\ db'.row = db.row /\ db'.latest = db.latest
<1>1. db \in DB /\ Consistent(db)
  BY DEF Types, Tables
<1>2. db' = [db EXCEPT !.live = db.live \cup {h}]
  BY DEF Activate
<1>3. /\ db'.live = db.live \cup {h} /\ db'.row = db.row /\ db'.payload = db.payload
      /\ db'.latest = db.latest /\ db'.latestAt = db.latestAt
  BY <1>1, <1>2 DEF DB
<1>4. db' \in DB
  BY <1>1, <1>2 DEF DB
<1>5. Consistent(db')
  BY <1>1, <1>3 DEF Consistent, LatestPointer, RowsOf, Newest
<1>6. QED
  BY <1>3, <1>4, <1>5

LEMMA DeleteHostDoes ==
  ASSUME Types, Tables, NEW h \in Host, DeleteHost(h)
  PROVE  /\ db' \in DB /\ Consistent(db') /\ db'.live = db.live \ {h}
         /\ \A j \in ReportId : db'.row[j] = IF j \in RowsOf(db, h) THEN None ELSE db.row[j]
         /\ \A g \in Host \ {h} : db'.latest[g] = db.latest[g]
<1>1. db \in DB /\ Consistent(db) /\ db' = HostDeleted(db, h)
  BY DEF Types, Tables, DeleteHost
<1>2. db' \in DB /\ Consistent(db')
  BY <1>1, HostDeletedType, HostDeletedConsistent
<1>3. /\ db'.live = db.live \ {h}
      /\ db'.row = [j \in ReportId |-> IF j \in RowsOf(db, h) THEN None ELSE db.row[j]]
      /\ db'.latest = [db.latest EXCEPT ![h] = None]
  BY <1>1 DEF HostDeleted
<1>4. QED
  BY <1>1, <1>2, <1>3 DEF DB

-----------------------------------------------------------------------------
(* Types and tables are kept.                                              *)

\* Who does not change which variables.
LEMMA Frames ==
  /\ \A c \in Call : Handler(c) => UNCHANGED <<storeVars, pageVars>>
  /\ Page => UNCHANGED <<storeVars, remarkVars, callVars>>
  /\ \A i \in ReportId : StoreReport(i) \/ Prune(i) => UNCHANGED <<remarkVars, callVars, pageVars>>
  /\ \A h \in Host : Activate(h) \/ DeleteHost(h) =>
       UNCHANGED <<stored, trail, tx, callVars, open, offset, fetches, response, goneThen, met>>
  /\ \A h \in Host : Activate(h) => UNCHANGED name
  /\ UNCHANGED vars => UNCHANGED <<storeVars, remarkVars, callVars, pageVars>>
<1>1. \A c \in Call : Handler(c) => UNCHANGED <<storeVars, pageVars>>
  BY DEF Handler, GetSummary, GetPayload, CheckExists, ReadHistory, UpdateRemark, AuditRemark, Fail
<1>2. Page => UNCHANGED <<storeVars, remarkVars, callVars>>
  BY DEF Page, Count, SelectPage, Deliver, Lose, NextPage, PreviousPage, Refresh, Ask
<1>3. QED
  BY <1>1, <1>2 DEF StoreReport, Prune, Activate, DeleteHost, vars, remarkVars

LEMMA TablesStep ==
  ASSUME Types, Tables, [Next]_vars
  PROVE  db' \in DB /\ gone' \in SUBSET Host /\ stored' \in SUBSET ReportId /\ Tables'
<1>1. ASSUME NEW i \in ReportId, StoreReport(i)
      PROVE  db' \in DB /\ gone' \in SUBSET Host /\ stored' \in SUBSET ReportId /\ Tables'
  <2>1. \A j \in ReportId : db'.row[j] = IF j = i THEN Sent[i] ELSE db.row[j]
    <3>1. db.row \in [ReportId -> Row \cup {None}]
      BY DEF Types, DB
    <3>2. db'.row = [db.row EXCEPT ![i] = Sent[i]]
      BY <1>1, StoreReportDoes
    <3>3. QED
      BY <3>1, <3>2
  <2>2. db' \in DB /\ Consistent(db') /\ db'.live = db.live
        /\ gone' = gone /\ stored' = stored \cup {i}
    BY <1>1, StoreReportDoes DEF StoreReport
  <2>3. QED
    BY <2>1, <2>2 DEF Types, Tables
<1>2. ASSUME NEW i \in ReportId, Prune(i)
      PROVE  db' \in DB /\ gone' \in SUBSET Host /\ stored' \in SUBSET ReportId /\ Tables'
  <2>1. db' \in DB /\ Consistent(db') /\ db'.live = db.live /\ UNCHANGED <<gone, stored>>
    BY <1>2, PruneDoes DEF Prune
  <2>2. \A j \in ReportId : db'.row[j] # None => db'.row[j] = db.row[j]
    BY <1>2, PruneDoes
  <2>3. QED
    BY <2>1, <2>2 DEF Types, Tables
<1>3. ASSUME NEW h \in Host, Activate(h)
      PROVE  db' \in DB /\ gone' \in SUBSET Host /\ stored' \in SUBSET ReportId /\ Tables'
  <2>1. db' \in DB /\ Consistent(db') /\ db'.live = db.live \cup {h} /\ db'.row = db.row
        /\ gone' = gone /\ stored' = stored /\ h \notin gone
    BY <1>3, ActivateDoes DEF Activate
  <2>2. QED
    BY <2>1 DEF Types, Tables
<1>4. ASSUME NEW h \in Host, DeleteHost(h)
      PROVE  db' \in DB /\ gone' \in SUBSET Host /\ stored' \in SUBSET ReportId /\ Tables'
  <2>1. db' \in DB /\ Consistent(db') /\ db'.live = db.live \ {h}
        /\ gone' = gone \cup {h} /\ stored' = stored
    BY <1>4, DeleteHostDoes DEF DeleteHost
  <2>2. \A j \in ReportId : db'.row[j] # None => db'.row[j] = db.row[j]
    BY <1>4, DeleteHostDoes
  <2>3. QED
    BY <2>1, <2>2 DEF Types, Tables
<1>5. CASE UNCHANGED storeVars
  BY <1>5 DEF storeVars, Types, Tables
<1>6. (\E c \in Call : Handler(c)) \/ Page \/ UNCHANGED vars => UNCHANGED storeVars
  BY Frames
<1>7. QED
  BY <1>1, <1>2, <1>3, <1>4, <1>5, <1>6 DEF Next

\* The variables of the calls and of the remarks.
LEMMA CallTypesStep ==
  ASSUME Types, [Next]_vars
  PROVE  /\ name' \in [Host -> Call \cup {None}] /\ trail' \in Seq(Call)
         /\ tx' \in [by : Call \cup {None}, name : [Host -> Call \cup {None}]]
         /\ pc' \in [Call -> {"never", "first", "second", "done"}]
         /\ status' \in [Call -> Status]
         /\ summary' \in [Call -> ReportId \cup {None}]
         /\ payload' \in [Call -> ReportId \cup {None}]
         /\ points' \in [Call -> SUBSET ReportId]
         /\ before' \in [Call -> (SUBSET ReportId) \cup {None}]
<1> DEFINE CT == /\ name \in [Host -> Call \cup {None}] /\ trail \in Seq(Call)
                 /\ tx \in [by : Call \cup {None}, name : [Host -> Call \cup {None}]]
                 /\ pc \in [Call -> {"never", "first", "second", "done"}]
                 /\ status \in [Call -> Status]
                 /\ summary \in [Call -> ReportId \cup {None}]
                 /\ payload \in [Call -> ReportId \cup {None}]
                 /\ points \in [Call -> SUBSET ReportId]
                 /\ before \in [Call -> (SUBSET ReportId) \cup {None}]
<1>1. CT
  BY DEF Types
<1>2. ASSUME UNCHANGED <<callVars, remarkVars>> PROVE CT'
  BY <1>1, <1>2 DEF callVars, remarkVars
<1>3. ASSUME NEW h \in Host, DeleteHost(h) PROVE CT'
  BY <1>1, <1>3 DEF DeleteHost, callVars
<1>4. ASSUME NEW c \in Call, Begun(c) PROVE before' \in [Call -> (SUBSET ReportId) \cup {None}]
  <2>1. RowsOf(db, Op[c].host) \in SUBSET ReportId
    BY DEF RowsOf
  <2>2. QED
    BY <1>1, <1>4, <2>1 DEF Begun
<1>5. ASSUME NEW c \in Call, Commit(c) PROVE /\ name' \in [Host -> Call \cup {None}] /\ trail' \in Seq(Call)
                                             /\ tx' \in [by : Call \cup {None}, name : [Host -> Call \cup {None}]]
  BY <1>1, <1>5 DEF Commit, Idle
<1>6. ASSUME NEW c \in Call, NEW s \in Status, Answer(c, s)
      PROVE  status' \in [Call -> Status] /\ pc' \in [Call -> {"never", "first", "second", "done"}]
  BY <1>1, <1>6 DEF Answer, Goto
<1>7. ASSUME NEW c \in Call, GetSummary(c) PROVE CT'
  <2>1. db.latest[Op[c].host] \in ReportId \cup {None}
    BY OpHost DEF Types, DB
  <2>2. summary' \in [Call -> ReportId \cup {None}] /\ status' \in [Call -> Status]
        /\ pc' \in [Call -> {"never", "first", "second", "done"}]
    BY <1>1, <1>6, <1>7, <2>1 DEF GetSummary, Goto, Status
  <2>3. QED
    BY <1>1, <1>4, <1>7, <2>2 DEF GetSummary, remarkVars
<1>8. ASSUME NEW c \in Call, GetPayload(c) PROVE CT'
  <2>1. PayloadOf(c) \in ReportId \cup {None}
    BY OpHost DEF PayloadOf, Types, DB
  <2>2. payload' \in [Call -> ReportId \cup {None}] /\ status' \in [Call -> Status]
        /\ pc' \in [Call -> {"never", "first", "second", "done"}]
    BY <1>1, <1>6, <1>8, <2>1 DEF GetPayload, Status
  <2>3. QED
    BY <1>1, <1>8, <2>2 DEF GetPayload, remarkVars
<1>9. ASSUME NEW c \in Call, CheckExists(c) PROVE CT'
  <2>1. status' \in [Call -> Status] /\ pc' \in [Call -> {"never", "first", "second", "done"}]
    BY <1>1, <1>6, <1>9 DEF CheckExists, Goto, Status
  <2>2. QED
    BY <1>1, <1>4, <1>9, <2>1 DEF CheckExists, remarkVars
<1>10. ASSUME NEW c \in Call, ReadHistory(c) PROVE CT'
  <2>1. \A S \in SUBSET ReportId : NewestOf(S) \in SUBSET ReportId
    BY DEF NewestOf
  <2>2. {i \in RowsOf(db, Op[c].host) : InWindow(i, Op[c])} \in SUBSET ReportId
    BY DEF RowsOf
  <2>3. points' \in [Call -> SUBSET ReportId]
    BY <1>1, <1>10, <2>1, <2>2 DEF ReadHistory
  <2>4. status' \in [Call -> Status] /\ pc' \in [Call -> {"never", "first", "second", "done"}]
    BY <1>6, <1>10 DEF ReadHistory, Status
  <2>5. QED
    BY <1>1, <1>10, <2>3, <2>4 DEF ReadHistory, remarkVars
<1>11. ASSUME NEW c \in Call, UpdateRemark(c) PROVE CT'
  <2>1. status' \in [Call -> Status] /\ pc' \in [Call -> {"never", "first", "second", "done"}]
    BY <1>1, <1>6, <1>11 DEF UpdateRemark, Goto, Status
  <2>2. tx' \in [by : Call \cup {None}, name : [Host -> Call \cup {None}]] /\ name' = name
    BY <1>1, <1>11, OpHost DEF UpdateRemark, SetName
  <2>3. QED
    BY <1>1, <1>4, <1>11, <2>1, <2>2 DEF UpdateRemark
<1>12. ASSUME NEW c \in Call, AuditRemark(c) PROVE CT'
  <2>1. status' \in [Call -> Status] /\ pc' \in [Call -> {"never", "first", "second", "done"}]
    BY <1>6, <1>12 DEF AuditRemark, Status
  <2>2. QED
    BY <1>1, <1>5, <1>12, <2>1 DEF AuditRemark
<1>13. ASSUME NEW c \in Call, Fail(c) PROVE CT'
  <2>1. status' \in [Call -> Status] /\ pc' \in [Call -> {"never", "first", "second", "done"}]
    BY <1>6, <1>13 DEF Fail, Status
  <2>2. /\ name' \in [Host -> Call \cup {None}] /\ trail' \in Seq(Call)
        /\ tx' \in [by : Call \cup {None}, name : [Host -> Call \cup {None}]]
    <3>1. CASE Commit(c)
      BY <1>5, <3>1
    <3>2. CASE tx' = Idle /\ UNCHANGED <<name, trail>>
      BY <1>1, <3>2 DEF Idle
    <3>3. QED
      BY <1>1, <1>13, <3>1, <3>2 DEF Fail, remarkVars
  <2>3. QED
    BY <1>1, <1>13, <2>1, <2>2 DEF Fail
<1> HIDE DEF CT
<1>14. ASSUME NEW c \in Call, Handler(c) PROVE CT'
  BY <1>7, <1>8, <1>9, <1>10, <1>11, <1>12, <1>13, <1>14 DEF Handler
<1>16. CT'
  BY <1>2, <1>3, <1>14, Frames DEF Next, remarkVars
<1>17. QED
  BY <1>16 DEF CT

-----------------------------------------------------------------------------
(* The history query.                                                      *)

LEMMA OlderOrders ==
  /\ \A i \in ReportId : ~Older(i, i)
  /\ \A i, j, k \in ReportId : Older(i, j) /\ Older(j, k) => Older(i, k)
  /\ \A i, j \in ReportId : i # j => Older(i, j) \/ Older(j, i)
<1>1. \A i \in ReportId : i \in Nat /\ Sent[i].at \in Nat
  BY SentType
<1>2. QED
  BY <1>1 DEF Older

\* What a history leaves out, it leaves out for HistoryLimit newer rows.
LEMMA NewestOfLimits ==
  ASSUME NEW S \in SUBSET ReportId
  PROVE  /\ Cardinality(NewestOf(S)) <= HistoryLimit /\ NewestOf(S) \in SUBSET S
         /\ \A i \in S \ NewestOf(S) : /\ Cardinality(NewestOf(S)) = HistoryLimit
                                       /\ \A j \in NewestOf(S) : Older(i, j)
<1> DEFINE R == {p \in ReportId \X ReportId : Older(p[1], p[2])}
<1>1. IsFiniteSet(S)
  BY ConsoleAssumption, FS_Subset
<1>2. \A i, j \in ReportId : <<i, j>> \in R <=> Older(i, j)
  OBVIOUS
<1>3. Orders(R, S)
  <2> HIDE DEF R
  <2> QED  BY <1>2, OlderOrders DEF Orders
<1>4. \A i \in S : Beyond(R, S, i) = Cardinality({j \in S : Older(i, j)})
  <2>1. SUFFICES ASSUME NEW i \in S PROVE {j \in S : <<i, j>> \in R} = {j \in S : Older(i, j)}
    BY DEF Beyond
  <2>2. QED
    BY <1>2
<1>5. HistoryLimit \in Nat /\ HistoryLimit > 0
  BY ConsoleAssumption
<1> HIDE DEF R
<1>6. \A i \in S : Beyond(R, S, i) \in Nat /\ Beyond(R, S, i) < Cardinality(S)
  BY <1>1, <1>3, BeyondType
<1>7. NewestOf(S) = {i \in S : Beyond(R, S, i) \in 0 .. 0 + HistoryLimit - 1}
  BY <1>4, <1>5, <1>6 DEF NewestOf
<1>8. /\ Cardinality(NewestOf(S)) <= HistoryLimit
      /\ 0 + HistoryLimit <= Cardinality(S) => Cardinality(NewestOf(S)) = HistoryLimit
  <2>1. 0 \in Nat
    OBVIOUS
  <2>2. QED
    BY <1>1, <1>3, <1>5, <1>7, <2>1, BeyondInterval
<1>9. ASSUME NEW i \in S \ NewestOf(S)
      PROVE  /\ Cardinality(NewestOf(S)) = HistoryLimit
             /\ \A j \in NewestOf(S) : Older(i, j)
  <2>1. Beyond(R, S, i) >= HistoryLimit
    BY <1>5, <1>6, <1>7
  <2>2. Cardinality(S) \in Nat
    BY <1>1, FS_CardinalityType
  <2>3. 0 + HistoryLimit <= Cardinality(S)
    BY <1>5, <1>6, <2>1, <2>2
  <2>4. ASSUME NEW j \in NewestOf(S) PROVE Older(i, j)
    <3>1. j \in S /\ Beyond(R, S, j) < HistoryLimit /\ i # j
      BY <1>5, <1>6, <1>7
    <3>2. ASSUME Older(j, i) PROVE FALSE
      <4>1. Beyond(R, S, i) < Beyond(R, S, j)
        BY <1>1, <1>2, <1>3, <3>1, <3>2, BeyondDecreases
      <4>2. QED
        BY <1>5, <1>6, <2>1, <3>1, <4>1
    <3>3. QED
      BY <3>1, <3>2, OlderOrders
  <2>5. QED
    BY <1>8, <2>3, <2>4
<1>10. NewestOf(S) \in SUBSET S
  BY DEF NewestOf
<1>11. QED
  BY <1>8, <1>9, <1>10

-----------------------------------------------------------------------------
(* The list query.                                                         *)

\* The place of a host in the list.
Rank(h) == Cardinality({g \in db.live : Precedes(g, h)})

LEMMA RankType ==
  ASSUME db \in DB
  PROVE  /\ IsFiniteSet(db.live) /\ Cardinality(db.live) \in Nat
         /\ \A h \in db.live : Rank(h) \in Nat /\ Rank(h) < Cardinality(db.live)
         /\ \A o \in Nat : PageAt(o) \in SUBSET db.live /\ Cardinality(PageAt(o)) <= PageSize
<1> DEFINE R == {p \in Host \X Host : Precedes(p[2], p[1])}
           S == db.live
<1>1. S \in SUBSET Host /\ IsFiniteSet(S) /\ Cardinality(S) \in Nat
  <2>1. db.live \in SUBSET Host
    BY DEF DB
  <2>2. QED
    BY <2>1, ConsoleAssumption, FS_Subset, FS_CardinalityType
<1>2. \A g, h \in Host : <<h, g>> \in R <=> Precedes(g, h)
  OBVIOUS
<1>3. /\ \A g \in Host : ~Precedes(g, g)
      /\ \A g, h, k \in Host : Precedes(g, h) /\ Precedes(h, k) => Precedes(g, k)
      /\ \A g, h \in Host : g # h => Precedes(g, h) \/ Precedes(h, g)
  BY ConsoleAssumption DEF Precedes
<1> HIDE DEF R, S
<1>4. Orders(R, S)
  BY <1>1, <1>2, <1>3 DEF Orders
<1>5. \A h \in S : Beyond(R, S, h) = Rank(h)
  <2>1. SUFFICES ASSUME NEW h \in S PROVE {g \in S : <<h, g>> \in R} = {g \in S : Precedes(g, h)}
    BY DEF Beyond, Rank, S
  <2>2. QED
    BY <1>1, <1>2
<1>6. \A h \in S : Rank(h) \in Nat /\ Rank(h) < Cardinality(S)
  BY <1>1, <1>4, <1>5, BeyondType
<1>7. ASSUME NEW o \in Nat PROVE PageAt(o) \in SUBSET S /\ Cardinality(PageAt(o)) <= PageSize
  <2>1. PageAt(o) = {h \in S : Beyond(R, S, h) \in o .. o + PageSize - 1}
    BY <1>5 DEF PageAt, Rank, S
  <2>2. PageSize \in Nat
    BY ConsoleAssumption
  <2>3. QED
    BY <1>1, <1>4, <2>1, <2>2, BeyondInterval
<1>8. QED
  BY <1>1, <1>6, <1>7 DEF S

-----------------------------------------------------------------------------
(* The page.                                                               *)

\* What the requests of the page do to the one they are about.
LEMMA FetchDoes ==
  ASSUME Types, NEW k \in DOMAIN fetches
  PROVE  /\ fetches[k] \in Fetch
         /\ Count(k) => \E f \in Fetch :
              /\ fetches' = [fetches EXCEPT ![k] = f] /\ f.offset = fetches[k].offset
              /\ f.at = "page" /\ f.total = Cardinality(db.live) /\ f.hosts = fetches[k].hosts
         /\ SelectPage(k) => \E f \in Fetch :
              /\ fetches' = [fetches EXCEPT ![k] = f] /\ f.offset = fetches[k].offset
              /\ f.at = "answered" /\ f.total = fetches[k].total
              /\ f.hosts = PageAt(fetches[k].offset)
         /\ Over(k) = [fetches EXCEPT ![k] =
                         [offset |-> 0, at |-> "over", total |-> 0, hosts |-> {}]]
         /\ [offset |-> 0, at |-> "over", total |-> 0, hosts |-> {}] \in Fetch
         /\ \A f \in Fetch : /\ [fetches EXCEPT ![k] = f] \in Seq(Fetch)
                             /\ Len([fetches EXCEPT ![k] = f]) = Len(fetches)
<1>1. fetches[k] \in Fetch /\ fetches \in Seq(Fetch)
  BY DEF Types
<1>2. db \in DB /\ Cardinality(db.live) \in Nat
  BY RankType DEF Types
<1>3. ASSUME NEW f \in Fetch
      PROVE  [fetches EXCEPT ![k] = f] \in Seq(Fetch) /\ Len([fetches EXCEPT ![k] = f]) = Len(fetches)
  BY <1>1, <1>3
<1>4. ASSUME Count(k)
      PROVE  LET f == [fetches[k] EXCEPT !.at = "page", !.total = Cardinality(db.live)]
             IN  /\ f \in Fetch /\ fetches' = [fetches EXCEPT ![k] = f] /\ f.offset = fetches[k].offset
                 /\ f.at = "page" /\ f.total = Cardinality(db.live) /\ f.hosts = fetches[k].hosts
  <2>1. LET f == [fetches[k] EXCEPT !.at = "page", !.total = Cardinality(db.live)]
        IN  /\ f \in Fetch /\ f.offset = fetches[k].offset
            /\ f.at = "page" /\ f.total = Cardinality(db.live) /\ f.hosts = fetches[k].hosts
    BY <1>1, <1>2 DEF Fetch
  <2>2. QED
    BY <1>4, <2>1 DEF Count
<1>5. ASSUME SelectPage(k)
      PROVE  LET f == [fetches[k] EXCEPT !.at = "answered", !.hosts = PageAt(fetches[k].offset)]
             IN  /\ f \in Fetch /\ fetches' = [fetches EXCEPT ![k] = f] /\ f.offset = fetches[k].offset
                 /\ f.at = "answered" /\ f.total = fetches[k].total
                 /\ f.hosts = PageAt(fetches[k].offset)
  <2>1. PageAt(fetches[k].offset) \in SUBSET Host
    BY <1>1, <1>2, RankType DEF Fetch, DB
  <2>2. LET f == [fetches[k] EXCEPT !.at = "answered", !.hosts = PageAt(fetches[k].offset)]
        IN  /\ f \in Fetch /\ f.offset = fetches[k].offset
            /\ f.at = "answered" /\ f.total = fetches[k].total /\ f.hosts = PageAt(fetches[k].offset)
    BY <1>1, <2>1 DEF Fetch
  <2>3. QED
    BY <1>5, <2>2 DEF SelectPage
<1>6. [offset |-> 0, at |-> "over", total |-> 0, hosts |-> {}] \in Fetch
  BY DEF Fetch
<1>7. QED
  BY <1>1, <1>3, <1>4, <1>5, <1>6 DEF Over

LEMMA PageTypesStep ==
  ASSUME Types, [Next]_vars
  PROVE  /\ open' \in BOOLEAN /\ offset' \in Nat
         /\ fetches' \in Seq(Fetch)
         /\ response' \in Response \cup {None}
         /\ goneThen' \in SUBSET Host /\ must' \in SUBSET Host /\ met' \in SUBSET Host
<1> DEFINE PT == /\ open \in BOOLEAN /\ offset \in Nat
                 /\ fetches \in Seq(Fetch)
                 /\ response \in Response \cup {None}
                 /\ goneThen \in SUBSET Host /\ must \in SUBSET Host /\ met \in SUBSET Host
<1>1. PT /\ PageSize \in Nat /\ db.live \in SUBSET Host /\ gone \in SUBSET Host
  BY ConsoleAssumption DEF Types, DB
<1>2. ASSUME UNCHANGED pageVars PROVE PT'
  BY <1>1, <1>2 DEF pageVars, walkVars
<1>3. ASSUME NEW h \in Host, Activate(h) \/ DeleteHost(h) PROVE PT'
  BY <1>1, <1>3, Frames DEF Activate, DeleteHost, Moved
<1>4. ASSUME NEW o \in Nat, Ask(o) PROVE PT'
  <2>1. [offset |-> o, at |-> "count", total |-> 0, hosts |-> {}] \in Fetch
    BY DEF Fetch
  <2>2. fetches' \in Seq(Fetch) /\ open' = open
    BY <1>1, <1>4, <2>1 DEF Ask
  <2>3. QED
    BY <1>1, <1>4, <2>2 DEF Ask
<1>5. ASSUME NEW k \in DOMAIN fetches, Count(k) \/ SelectPage(k) PROVE PT'
  <2>1. \E f \in Fetch : fetches' = [fetches EXCEPT ![k] = f]
    BY <1>5, FetchDoes
  <2>2. fetches' \in Seq(Fetch)
    BY <2>1, FetchDoes
  <2>3. QED
    BY <1>1, <1>5, <2>2 DEF Count, SelectPage, walkVars
<1>6. ASSUME NEW k \in DOMAIN fetches, Lose(k) PROVE PT'
  <2>1. fetches' \in Seq(Fetch)
    <3>1. fetches' = Over(k)
      BY <1>6 DEF Lose
    <3>2. Over(k) \in Seq(Fetch)
      BY FetchDoes
    <3>3. QED
      BY <3>1, <3>2
  <2>2. QED
    BY <1>1, <1>6, <2>1 DEF Lose, walkVars
<1>7. ASSUME NEW k \in DOMAIN fetches, Deliver(k) PROVE PT'
  <2>1. fetches' \in Seq(Fetch) /\ fetches[k] \in Fetch /\ UNCHANGED <<open, offset, goneThen, must>>
    <3>1. fetches' = Over(k) /\ UNCHANGED <<open, offset, goneThen, must>>
      BY <1>7 DEF Deliver
    <3>2. Over(k) \in Seq(Fetch) /\ fetches[k] \in Fetch
      BY FetchDoes
    <3>3. QED
      BY <3>1, <3>2
  <2>2. [offset |-> fetches[k].offset, total |-> fetches[k].total, hosts |-> fetches[k].hosts] \in Response
        /\ fetches[k].hosts \in SUBSET Host
    BY <2>1 DEF Fetch, Response
  <2>3. response' \in Response \cup {None} /\ met' \in SUBSET Host
    BY <1>1, <1>7, <2>2 DEF Deliver
  <2>4. QED
    BY <1>1, <2>1, <2>3
<1>8. ASSUME NextPage \/ PreviousPage \/ Refresh PROVE \E o \in Nat : Ask(o)
  <2>1. NextPage => Ask(offset + PageSize)
    BY DEF NextPage
  <2>2. PreviousPage => Ask(IF offset > PageSize THEN offset - PageSize ELSE 0)
    BY DEF PreviousPage
  <2>3. Refresh => Ask(offset)
    BY DEF Refresh
  <2>4. /\ offset \in Nat /\ offset + PageSize \in Nat
        /\ (IF offset > PageSize THEN offset - PageSize ELSE 0) \in Nat
    BY <1>1
  <2>5. QED
    BY <1>8, <2>1, <2>2, <2>3, <2>4
<1> HIDE DEF PT
<1>9. ASSUME Page PROVE PT'
  BY <1>4, <1>5, <1>6, <1>7, <1>8, <1>9 DEF Page
<1>10. PT'
  BY <1>2, <1>3, <1>9, Frames DEF Next
<1>11. QED
  BY <1>10 DEF PT

LEMMA TypesStep ==
  ASSUME Types, Tables, [Next]_vars
  PROVE  Types' /\ Tables'
BY TablesStep, CallTypesStep, PageTypesStep DEF Types

-----------------------------------------------------------------------------
(* The walk.  "must" holds the hosts whose rank has not changed since the  *)
(* walk began, and those behind the page were met.                         *)

\* What the request that was made last brings may be shown.
Showable(f) ==
  /\ f.offset = offset /\ f.hosts \cap goneThen = {}
  /\ f.at \in {"page", "answered"} => \A g \in must : Rank(g) < f.total
  /\ f.at = "answered" =>
       \A g \in must : Rank(g) >= offset /\ Rank(g) < offset + PageSize => g \in f.hosts

Shown ==
  /\ response.offset = offset /\ response.hosts \cap goneThen = {}
  /\ Cardinality(response.hosts) <= PageSize
  /\ \A g \in must : Rank(g) < response.total /\ (Rank(g) < offset + PageSize => g \in met)

Walk ==
  /\ goneThen \subseteq gone /\ must \subseteq db.live
  /\ \A g \in must : Rank(g) < offset => g \in met
  /\ \A k \in DOMAIN fetches : Cardinality(fetches[k].hosts) <= PageSize
  /\ \A k \in DOMAIN fetches : NotAborted(k) /\ fetches[k].at # "over" => Showable(fetches[k])
  /\ response # None => Shown

\* What the rest of the server does leaves the ranks of those that must be met.
LEMMA WalkKept ==
  ASSUME Walk, must' \subseteq must, must' \subseteq db'.live, gone \subseteq gone',
         \A g \in must' : Rank(g)' = Rank(g),
         UNCHANGED <<open, offset, fetches, response, goneThen, met>>
  PROVE  Walk'
<1>1. ASSUME NEW k \in DOMAIN fetches, Showable(fetches[k]) PROVE Showable(fetches[k])'
  BY <1>1 DEF Showable
<1>2. Shown => Shown'
  BY DEF Shown
<1>3. \A k \in DOMAIN fetches : NotAborted(k)' <=> NotAborted(k)
  BY DEF NotAborted
<1> HIDE DEF Showable, Shown, NotAborted
<1>4. QED
  BY <1>1, <1>2, <1>3 DEF Walk

\* A host that joins or leaves changes no rank before its own.
LEMMA WalkMoved ==
  ASSUME Types, Tables, Walk, NEW h \in Host, Activate(h) \/ DeleteHost(h)
  PROVE  Walk'
<1>1. must' = must \cap {g \in Host : g < h} /\ gone \subseteq gone'
  BY DEF Activate, DeleteHost, Moved
<1>2. db'.live = db.live \cup {h} \/ db'.live = db.live \ {h}
  BY ActivateDoes, DeleteHostDoes
<1>3. h \in Nat /\ Host \subseteq Nat
  BY ConsoleAssumption
<1>4. must \subseteq db.live
  BY DEF Walk
<1>5. must' \subseteq must /\ must' \subseteq db'.live
  BY <1>1, <1>2, <1>3, <1>4
<1>6. ASSUME NEW g \in must' PROVE Rank(g)' = Rank(g)
  <2>1. g \in Nat /\ g < h
    BY <1>1, <1>3
  <2>2. {x \in db'.live : Precedes(x, g)} = {x \in db.live : Precedes(x, g)}
    BY <1>2, <1>3, <2>1 DEF Precedes
  <2>3. QED
    BY <2>2 DEF Rank, Precedes
<1>7. UNCHANGED <<open, offset, fetches, response, goneThen, met>>
  BY Frames
<1>8. QED
  BY <1>1, <1>5, <1>6, <1>7, WalkKept

\* A click.
LEMMA WalkAsk ==
  ASSUME Types, Tables, Walk, NEW o \in Nat, Ask(o),
         o <= offset \/ (response # None /\ o = offset + PageSize)
  PROVE  Walk'
<1>1. UNCHANGED <<db, gone, open>> /\ offset' = o /\ response' = None /\ goneThen' = gone
  BY DEF Ask, storeVars
<1>2. offset \in Nat /\ db \in DB /\ fetches \in Seq(Fetch) /\ db.live \cap gone = {}
  BY DEF Types, Tables
<1>3. must' \subseteq db.live
  BY DEF Ask, Walk
<1>4. \A g \in db.live : Rank(g)' = Rank(g) /\ Rank(g) \in Nat /\ Rank(g) < Cardinality(db.live)
  BY <1>1, <1>2, RankType DEF Rank
<1>5. ASSUME NEW g \in must', Rank(g) < o PROVE g \in met'
  <2>1. o # 0
    BY <1>3, <1>4, <1>5
  <2>2. must' = must /\ met' = met
    BY <2>1 DEF Ask
  <2>3. Rank(g) < offset \/ (response # None /\ Rank(g) < offset + PageSize)
    BY <1>2, <1>3, <1>4, <1>5
  <2>4. QED
    BY <1>5, <2>2, <2>3 DEF Walk, Shown
<1>6. /\ Len(fetches') = Len(fetches) + 1
      /\ \A k \in DOMAIN fetches' : fetches'[k] = IF k = Len(fetches) + 1
           THEN [offset |-> o, at |-> "count", total |-> 0, hosts |-> {}] ELSE fetches[k]
      /\ \A k \in DOMAIN fetches' : k # Len(fetches) + 1 => k \in DOMAIN fetches
  BY <1>2 DEF Ask
<1>7. PageSize \in Nat /\ Cardinality({}) = 0
  BY ConsoleAssumption, FS_EmptySet
<1>8. ASSUME NEW k \in DOMAIN fetches' PROVE Cardinality(fetches'[k].hosts) <= PageSize
  <2>1. CASE k = Len(fetches) + 1
    <3>1. fetches'[k].hosts = {}
      BY <1>6, <2>1
    <3>2. QED
      BY <1>7, <3>1
  <2>2. CASE k # Len(fetches) + 1
    BY <1>6, <2>2 DEF Walk
  <2>3. QED
    BY <2>1, <2>2
<1>9. ASSUME NEW k \in DOMAIN fetches', NotAborted(k)' PROVE Showable(fetches[k])'
  <2>1. fetches'[k] = [offset |-> o, at |-> "count", total |-> 0, hosts |-> {}]
    BY <1>6, <1>9 DEF NotAborted
  <2>2. QED
    BY <1>1, <2>1 DEF Showable
<1>10. QED
  BY <1>1, <1>3, <1>4, <1>5, <1>8, <1>9 DEF Walk

\* A request goes on.
LEMMA WalkFetch ==
  ASSUME Types, Tables, Walk, NEW k \in DOMAIN fetches, NEW f \in Fetch,
         fetches' = [fetches EXCEPT ![k] = f],
         Cardinality(f.hosts) <= PageSize,
         NotAborted(k) /\ f.at # "over" => Showable(f),
         UNCHANGED <<db, gone, open, offset, response, walkVars>>
  PROVE  Walk'
<1>1. \A g : Rank(g)' = Rank(g)
  BY DEF Rank
<1>2. UNCHANGED <<goneThen, must, met>>
  BY DEF walkVars
<1>3. fetches \in Seq(Fetch)
  BY DEF Types
<1>4. DOMAIN fetches' = DOMAIN fetches /\ Len(fetches') = Len(fetches)
      /\ \A m \in DOMAIN fetches : fetches'[m] = IF m = k THEN f ELSE fetches[m]
  BY <1>3
<1>5. \A x : Showable(x) => Showable(x)'
  BY <1>1, <1>2 DEF Showable
<1>6. Shown => Shown'
  BY <1>1, <1>2 DEF Shown
<1>7. \A m \in DOMAIN fetches : NotAborted(m)' <=> NotAborted(m)
  BY <1>4 DEF NotAborted
<1>8. ASSUME NEW m \in DOMAIN fetches', NotAborted(m)', fetches'[m].at # "over"
      PROVE  Showable(fetches[m])'
  <2>1. CASE m = k
    <3>1. Showable(f)
      BY <1>4, <1>7, <1>8, <2>1
    <3>2. Showable(f)'
      BY <3>1, <1>1, <1>2 DEF Showable
    <3>3. QED
      BY <1>4, <2>1, <3>2 DEF Showable
  <2>2. CASE m # k
    <3>1. Showable(fetches[m])
      BY <1>4, <1>7, <1>8, <2>2 DEF Walk
    <3>2. QED
      BY <1>1, <1>2, <1>4, <1>8, <2>2, <3>1 DEF Showable
  <2>3. QED
    BY <2>1, <2>2
<1>9. \A m \in DOMAIN fetches' : Cardinality(fetches'[m].hosts) <= PageSize
  BY <1>4 DEF Walk
<1>10. \A g \in must' : Rank(g)' < offset' => g \in met'
  BY <1>1, <1>2 DEF Walk
<1>11. response' # None => Shown'
  BY <1>6 DEF Walk
<1>12. goneThen' \subseteq gone' /\ must' \subseteq db'.live
  BY <1>2 DEF Walk
<1>13. QED
  BY <1>8, <1>9, <1>10, <1>11, <1>12 DEF Walk

LEMMA WalkStep ==
  ASSUME Types, Tables, Walk, [Next]_vars
  PROVE  Walk'
<1>1. offset \in Nat /\ PageSize \in Nat /\ db \in DB
  BY ConsoleAssumption DEF Types
<1>2. must \subseteq db.live /\ db.live \cap gone = {} /\ goneThen \subseteq gone
  BY DEF Tables, Walk
<1>3. \A g \in must : Rank(g) \in Nat /\ Rank(g) < Cardinality(db.live)
  BY <1>1, <1>2, RankType
<1>4. ASSUME UNCHANGED <<db, gone, pageVars>> PROVE Walk'
  BY <1>2, <1>4, WalkKept DEF pageVars, walkVars, Rank
<1>5. ASSUME NEW i \in ReportId, StoreReport(i) \/ Prune(i) PROVE Walk'
  <2>1. db'.live = db.live /\ UNCHANGED <<gone, pageVars>>
    BY <1>5, StoreReportDoes, PruneDoes DEF StoreReport, Prune
  <2>2. \A g \in must : Rank(g)' = Rank(g)
    BY <2>1 DEF Rank, Precedes
  <2>3. QED
    BY <1>2, <2>1, <2>2, WalkKept DEF pageVars, walkVars
<1>6. ASSUME NEW k \in DOMAIN fetches, Count(k) PROVE Walk'
  <2>1. PICK f \in Fetch :
          /\ fetches' = [fetches EXCEPT ![k] = f] /\ f.offset = fetches[k].offset
          /\ f.at = "page" /\ f.total = Cardinality(db.live) /\ f.hosts = fetches[k].hosts
    BY <1>6, FetchDoes
  <2>2. NotAborted(k) => Showable(f)
    BY <1>3, <1>6, <2>1 DEF Walk, Showable, Count
  <2>3. Cardinality(f.hosts) <= PageSize
    BY <2>1 DEF Walk
  <2>4. UNCHANGED <<db, gone, open, offset, response, walkVars>>
    BY <1>6 DEF Count, storeVars
  <2>5. QED
    BY <2>1, <2>2, <2>3, <2>4, WalkFetch
<1>7. ASSUME NEW k \in DOMAIN fetches, SelectPage(k) PROVE Walk'
  <2>1. PICK f \in Fetch :
          /\ fetches' = [fetches EXCEPT ![k] = f] /\ f.offset = fetches[k].offset
          /\ f.at = "answered" /\ f.total = fetches[k].total /\ f.hosts = PageAt(fetches[k].offset)
    BY <1>7, FetchDoes
  <2>2. f.offset \in Nat
    BY DEF Fetch
  <2>3. f.hosts \in SUBSET db.live /\ Cardinality(f.hosts) <= PageSize
    BY <1>1, <2>1, <2>2, RankType
  <2>4. ASSUME NotAborted(k) PROVE Showable(f)
    <3>1. Showable(fetches[k]) /\ fetches[k].at = "page"
      BY <1>7, <2>4 DEF Walk, SelectPage
    <3>2. f.offset = offset /\ f.hosts \cap goneThen = {} /\ \A g \in must : Rank(g) < f.total
      BY <1>2, <2>1, <2>3, <3>1 DEF Showable
    <3>3. \A g \in must : Rank(g) >= offset /\ Rank(g) < offset + PageSize => g \in f.hosts
      BY <1>1, <1>2, <1>3, <2>1, <3>2 DEF PageAt, Rank
    <3>4. QED
      BY <2>1, <3>2, <3>3 DEF Showable
  <2>5. UNCHANGED <<db, gone, open, offset, response, walkVars>>
    BY <1>7 DEF SelectPage, storeVars
  <2>6. QED
    BY <2>1, <2>3, <2>4, <2>5, WalkFetch
<1>8. ASSUME NEW k \in DOMAIN fetches, Lose(k) PROVE Walk'
  <2> DEFINE f == [offset |-> 0, at |-> "over", total |-> 0, hosts |-> {}]
  <2>1. f \in Fetch /\ f.at = "over" /\ fetches' = [fetches EXCEPT ![k] = f]
    BY <1>8, FetchDoes DEF Lose
  <2>2. Cardinality(f.hosts) <= PageSize
    BY <1>1, FS_EmptySet
  <2>3. UNCHANGED <<db, gone, open, offset, response, walkVars>>
    BY <1>8 DEF Lose, storeVars
  <2>4. QED
    BY <2>1, <2>2, <2>3, WalkFetch
<1>9. ASSUME NEW k \in DOMAIN fetches, Deliver(k) PROVE Walk'
  <2> DEFINE f == [offset |-> 0, at |-> "over", total |-> 0, hosts |-> {}]
  <2>1. /\ fetches' = [fetches EXCEPT ![k] = f]
        /\ fetches \in Seq(Fetch) /\ fetches[k] \in Fetch
        /\ UNCHANGED <<db, gone, open, offset, goneThen, must>>
    BY <1>9, FetchDoes DEF Deliver, storeVars, Types
  <2>2. \A m \in DOMAIN fetches' : /\ m \in DOMAIN fetches
                                   /\ fetches'[m] = IF m = k THEN f ELSE fetches[m]
    BY <2>1
  <2>3. f.at = "over" /\ f.hosts = {} /\ Cardinality({}) = 0
    BY FS_EmptySet
  <2>4. \A m \in DOMAIN fetches' : Cardinality(fetches'[m].hosts) <= PageSize
    <3> HIDE DEF f
    <3> QED  BY <1>1, <2>2, <2>3 DEF Walk
  <2>5. \A m \in DOMAIN fetches : NotAborted(m)' <=> NotAborted(m)
    BY <2>1 DEF NotAborted
  <2>6. \A g : Rank(g)' = Rank(g)
    BY <2>1 DEF Rank
  <2>7. ASSUME NEW m \in DOMAIN fetches', NotAborted(m)', fetches'[m].at # "over"
        PROVE  Showable(fetches[m])'
    <3>1. m # k /\ fetches'[m] = fetches[m] /\ m \in DOMAIN fetches
      BY <2>2, <2>3, <2>7
    <3>2. Showable(fetches[m])
      BY <2>5, <2>7, <3>1 DEF Walk
    <3>3. QED
      BY <2>1, <2>6, <3>1, <3>2 DEF Showable
  <2>8. CASE ~NotAborted(k)
    <3>1. UNCHANGED <<response, met>>
      BY <1>9, <2>8 DEF Deliver
    <3>2. Shown => Shown'
      BY <2>1, <2>6, <3>1 DEF Shown
    <3>3. QED
      BY <2>1, <2>4, <2>6, <2>7, <3>1, <3>2 DEF Walk
  <2>9. CASE NotAborted(k)
    <3>1. /\ response' = [offset |-> fetches[k].offset, total |-> fetches[k].total, hosts |-> fetches[k].hosts]
          /\ met' = met \cup fetches[k].hosts /\ fetches[k].at = "answered"
      BY <1>9, <2>9 DEF Deliver
    <3>2. Showable(fetches[k]) /\ Cardinality(fetches[k].hosts) <= PageSize
      BY <2>9, <3>1 DEF Walk
    <3>3. /\ response'.offset = fetches[k].offset /\ response'.total = fetches[k].total
          /\ response'.hosts = fetches[k].hosts
      BY <3>1
    <3>4. \A g \in must : Rank(g) < offset + PageSize => g \in met'
      BY <1>1, <1>3, <3>1, <3>2 DEF Walk, Showable
    <3>5. Shown'
      BY <2>1, <2>6, <3>1, <3>2, <3>3, <3>4 DEF Shown, Showable
    <3>6. \A g \in must' : Rank(g)' < offset' => g \in met'
      BY <2>1, <2>6, <3>1 DEF Walk
    <3>7. QED
      BY <1>2, <2>1, <2>4, <2>7, <3>5, <3>6 DEF Walk
  <2>10. QED
    BY <2>8, <2>9
<1>10. ASSUME NextPage \/ PreviousPage \/ Refresh PROVE Walk'
  <2>1. NextPage => Ask(offset + PageSize) /\ response # None
    BY DEF NextPage
  <2>2. PreviousPage => Ask(IF offset > PageSize THEN offset - PageSize ELSE 0)
    BY DEF PreviousPage
  <2>3. Refresh => Ask(offset)
    BY DEF Refresh
  <2>4. /\ offset + PageSize \in Nat
        /\ (IF offset > PageSize THEN offset - PageSize ELSE 0) \in Nat
        /\ (IF offset > PageSize THEN offset - PageSize ELSE 0) <= offset
    BY <1>1
  <2>5. QED
    BY <1>1, <1>10, <2>1, <2>2, <2>3, <2>4, WalkAsk
<1>11. ASSUME Page PROVE Walk'
  BY <1>6, <1>7, <1>8, <1>9, <1>10, <1>11 DEF Page
<1>12. ASSUME NEW c \in Call, Handler(c) PROVE Walk'
  BY <1>4, <1>12, Frames DEF storeVars
<1>13. ASSUME UNCHANGED vars PROVE Walk'
  BY <1>4, <1>13, Frames DEF storeVars
<1>14. QED
  BY <1>5, <1>11, <1>12, <1>13, WalkMoved DEF Next

-----------------------------------------------------------------------------
(* The two statements of a read.                                           *)

Begins(c) ==
  /\ pc[c] # "done" => status[c] = "none"
  /\ pc[c] = "second" => before[c] # None /\ Op[c].host \in db.live \cup gone
  /\ status[c] = "not_found" => before[c] = None
  /\ status[c] \in {"ok", "no_content"} => before[c] # None
  /\ before[c] # None => \A i \in before[c] : i \in stored /\ Sent[i].host = Op[c].host
  /\ Cardinality(points[c]) <= HistoryLimit

\* Between the statements of a detail the latest report becomes no older.
Details(c) ==
  Op[c].kind = "detail" =>
    /\ pc[c] = "second" /\ summary[c] # None /\ Op[c].host \in db.live =>
         /\ db.latest[Op[c].host] # None
         /\ \/ db.latest[Op[c].host] = summary[c]
            \/ Older(summary[c], db.latest[Op[c].host])
    /\ status[c] = "ok" /\ summary[c] # None =>
         payload[c] # None /\ (payload[c] = summary[c] \/ Older(summary[c], payload[c]))

Lists(c) ==
  Op[c].kind = "history" /\ status[c] = "ok" =>
    \A i \in before[c] :
       db.row[i] # None /\ InWindow(i, Op[c]) /\ i \notin points[c]
         => Cardinality(points[c]) = HistoryLimit /\ \A j \in points[c] : Older(i, j)

CallOK(c) == Begins(c) /\ Details(c) /\ Lists(c)

CallKept(c) ==
  /\ pc'[c] = pc[c] /\ status'[c] = status[c] /\ summary'[c] = summary[c]
  /\ payload'[c] = payload[c] /\ points'[c] = points[c] /\ before'[c] = before[c]

\* No report comes back, no host comes back, and the latest report gets newer.
TablesAdvance ==
  /\ stored \subseteq stored' /\ db.live \cup gone \subseteq db'.live \cup gone'
  /\ \A i \in stored : db'.row[i] # None => db.row[i] # None
  /\ \A h \in db'.live \cap (db.live \cup gone) :
       /\ h \in db.live
       /\ \/ db'.latest[h] = db.latest[h]
          \/ /\ db'.latest[h] \in ReportId
             /\ db.latest[h] # None => Older(db.latest[h], db'.latest[h])

LEMMA Advance ==
  ASSUME Types, Tables, [Next]_vars
  PROVE  TablesAdvance
<1>1. db \in DB /\ stored \in SUBSET ReportId /\ gone \in SUBSET Host /\ db.live \in SUBSET Host
      /\ db.live \cap gone = {} /\ db.row \in [ReportId -> Row \cup {None}]
  BY DEF Types, Tables, DB
<1>2. ASSUME UNCHANGED storeVars PROVE TablesAdvance
  BY <1>1, <1>2 DEF storeVars, TablesAdvance
<1>3. ASSUME NEW i \in ReportId, StoreReport(i) PROVE TablesAdvance
  <2>1. /\ i \notin stored /\ stored' = stored \cup {i} /\ gone' = gone /\ db'.live = db.live
        /\ db'.row = [db.row EXCEPT ![i] = Sent[i]] /\ i # None
    BY <1>3, StoreReportDoes, SentType DEF StoreReport
  <2>2. \A j \in stored : db'.row[j] = db.row[j]
    BY <1>1, <2>1
  <2>3. \A h \in Host : \/ db'.latest[h] = db.latest[h]
                        \/ /\ db'.latest[h] = i
                           /\ db.latest[h] # None => Older(db.latest[h], i)
    BY <1>3, StoreReportDoes
  <2>4. QED
    BY <1>1, <2>1, <2>2, <2>3 DEF TablesAdvance
<1>4. ASSUME NEW i \in ReportId, Prune(i) PROVE TablesAdvance
  <2>1. /\ stored' = stored /\ gone' = gone /\ db'.live = db.live /\ db'.latest = db.latest
        /\ \A j \in ReportId : db'.row[j] \in {None, db.row[j]}
    BY <1>4, PruneDoes DEF Prune
  <2>2. QED
    BY <1>1, <2>1 DEF TablesAdvance
<1>5. ASSUME NEW h \in Host, Activate(h) PROVE TablesAdvance
  <2>1. /\ stored' = stored /\ gone' = gone /\ db'.live = db.live \cup {h} /\ db'.latest = db.latest
        /\ db'.row = db.row /\ h \notin db.live \cup gone
    BY <1>5, ActivateDoes DEF Activate
  <2>2. QED
    BY <1>1, <2>1 DEF TablesAdvance
<1>6. ASSUME NEW h \in Host, DeleteHost(h) PROVE TablesAdvance
  <2>1. /\ stored' = stored /\ gone' = gone \cup {h} /\ db'.live = db.live \ {h}
        /\ \A j \in ReportId : db'.row[j] = IF j \in RowsOf(db, h) THEN None ELSE db.row[j]
        /\ \A g \in Host \ {h} : db'.latest[g] = db.latest[g]
    BY <1>6, DeleteHostDoes DEF DeleteHost
  <2>2. QED
    BY <1>1, <2>1 DEF TablesAdvance
<1>7. (\E c \in Call : Handler(c)) \/ Page \/ UNCHANGED vars => UNCHANGED storeVars
  BY Frames
<1>8. QED
  BY <1>2, <1>3, <1>4, <1>5, <1>6, <1>7 DEF Next

\* A call that waits.
LEMMA CallWaits ==
  ASSUME Types, NEW c \in Call, CallOK(c), CallKept(c), TablesAdvance
  PROVE  CallOK(c)'
<1>1. Begins(c)'
  BY DEF CallOK, Begins, CallKept, TablesAdvance
<1>2. summary[c] # None => summary[c] \in ReportId
  BY DEF Types
<1>3. \A h \in Host : db.latest[h] # None => db.latest[h] \in ReportId
  BY DEF Types, DB
<1>4. ASSUME Op[c].kind = "detail", pc'[c] = "second", summary'[c] # None, Op[c].host \in db'.live
      PROVE  /\ db'.latest[Op[c].host] # None
             /\ db'.latest[Op[c].host] = summary'[c] \/ Older(summary'[c], db'.latest[Op[c].host])
  <2> DEFINE l == db.latest[Op[c].host]
             m == db'.latest[Op[c].host]
  <2>1. pc[c] = "second" /\ summary'[c] = summary[c] /\ summary[c] # None
    BY <1>4 DEF CallKept
  <2>2. Op[c].host \in db.live \cup gone /\ Op[c].host \in Host
    BY <2>1, OpHost DEF CallOK, Begins
  <2>3. Op[c].host \in db.live /\ (m = l \/ (m \in ReportId /\ (l # None => Older(l, m))))
    BY <1>4, <2>2 DEF TablesAdvance
  <2>4. l # None /\ l \in ReportId /\ (l = summary[c] \/ Older(summary[c], l))
    BY <1>3, <1>4, <2>1, <2>2, <2>3 DEF CallOK, Details
  <2>5. m \in ReportId /\ m # None /\ (m = l \/ Older(l, m))
    BY <2>3, <2>4, StoreAssumption
  <2>6. m = summary[c] \/ Older(summary[c], m)
    <3> HIDE DEF m, l
    <3> QED  BY <1>2, <1>4, <2>1, <2>4, <2>5, OlderOrders
  <2>7. QED
    BY <2>1, <2>5, <2>6
<1>5. Details(c)'
  BY <1>4 DEF CallOK, Details, CallKept
<1>6. Lists(c)'
  <2>1. SUFFICES ASSUME Op[c].kind = "history", status'[c] = "ok",
                        NEW i \in before'[c],
                        db'.row[i] # None, InWindow(i, Op[c]), i \notin points'[c]
                 PROVE  Cardinality(points'[c]) = HistoryLimit /\ \A j \in points'[c] : Older(i, j)
    BY DEF Lists
  <2>2. status[c] = "ok" /\ i \in before[c] /\ i \notin points[c] /\ points'[c] = points[c]
    BY <2>1 DEF CallKept
  <2>3. i \in stored
    BY <2>2 DEF CallOK, Begins
  <2>4. db.row[i] # None
    BY <2>1, <2>3 DEF TablesAdvance
  <2>5. QED
    BY <2>1, <2>2, <2>4 DEF CallOK, Lists
<1>7. QED
  BY <1>1, <1>5, <1>6 DEF CallOK

LEMMA OthersKept ==
  ASSUME Types, NEW c \in Call, NEW d \in Call \ {c}, Handler(d)
  PROVE  CallKept(c)
<1>1. \A s : Answer(d, s) => pc'[c] = pc[c] /\ status'[c] = status[c]
  BY DEF Answer, Goto, Types
<1>2. \A p : Goto(d, p) => pc'[c] = pc[c]
  BY DEF Goto, Types
<1>3. Begun(d) => before'[c] = before[c]
  BY DEF Begun, Types
<1>4. GetSummary(d) => CallKept(c)
  BY <1>1, <1>2, <1>3 DEF GetSummary, CallKept, Types
<1>5. GetPayload(d) => CallKept(c)
  BY <1>1 DEF GetPayload, CallKept, Types
<1>6. CheckExists(d) => CallKept(c)
  BY <1>1, <1>2, <1>3 DEF CheckExists, CallKept
<1>7. ReadHistory(d) => CallKept(c)
  BY <1>1 DEF ReadHistory, CallKept, Types
<1>8. UpdateRemark(d) => CallKept(c)
  BY <1>1, <1>2, <1>3 DEF UpdateRemark, CallKept
<1>9. AuditRemark(d) \/ Fail(d) => CallKept(c)
  BY <1>1 DEF AuditRemark, Fail, CallKept
<1>10. QED
  BY <1>4, <1>5, <1>6, <1>7, <1>8, <1>9 DEF Handler

LEMMA BegunDoes ==
  ASSUME Types, Tables, NEW c \in Call, Begun(c)
  PROVE  /\ before'[c] # None <=> Op[c].host \in db.live
         /\ before'[c] # None => \A i \in before'[c] : i \in stored /\ Sent[i].host = Op[c].host
<1>1. before'[c] = IF Op[c].host \in db.live THEN RowsOf(db, Op[c].host) ELSE None
  BY DEF Begun, Types
<1>2. RowsOf(db, Op[c].host) \in SUBSET ReportId /\ RowsOf(db, Op[c].host) # None
  <2>1. RowsOf(db, Op[c].host) \in SUBSET ReportId
    BY DEF RowsOf
  <2>2. QED
    BY <2>1, ConsoleAssumption
<1>3. \A i \in RowsOf(db, Op[c].host) : i \in stored /\ Sent[i].host = Op[c].host
  BY DEF RowsOf, Tables
<1>4. QED
  BY <1>1, <1>2, <1>3

LEMMA DetailsAnswered ==
  ASSUME NEW c \in Call, pc'[c] # "second",
         summary'[c] # None =>
           payload'[c] # None /\ (payload'[c] = summary'[c] \/ Older(summary'[c], payload'[c]))
  PROVE  Details(c)'
BY DEF Details

\* A call that does its next statement.
LEMMA CallMoves ==
  ASSUME Types, Tables, NEW c \in Call, CallOK(c), Handler(c)
  PROVE  CallOK(c)'
<1>1. Begins(c) /\ Details(c) /\ Lists(c) /\ UNCHANGED <<db, gone, stored>>
  BY Frames DEF CallOK, storeVars
<1>2. \A s : Answer(c, s) => pc'[c] = "done" /\ status'[c] = s
  BY DEF Answer, Goto, Types
<1>3. \A p : Goto(c, p) => pc'[c] = p
  BY DEF Goto, Types
<1>4. ASSUME GetSummary(c) PROVE CallOK(c)'
  <2>1. /\ Op[c].kind = "detail" /\ pc[c] = "first" /\ Begun(c) /\ UNCHANGED <<payload, points>>
        /\ status[c] = "none"
    BY <1>1, <1>4 DEF GetSummary, At, Begins
  <2>2. CASE Op[c].host \notin db.live
    <3>1. pc'[c] = "done" /\ status'[c] = "not_found"
      BY <1>2, <1>4, <2>2 DEF GetSummary
    <3>2. QED
      BY <1>1, <2>1, <2>2, <3>1, BegunDoes DEF CallOK, Begins, Details, Lists
  <2>3. CASE Op[c].host \in db.live
    <3>1. pc'[c] = "second" /\ status'[c] = "none" /\ summary'[c] = db.latest[Op[c].host]
      BY <1>3, <1>4, <2>1, <2>3 DEF GetSummary, Types
    <3>2. QED
      BY <1>1, <2>1, <2>3, <3>1, BegunDoes DEF CallOK, Begins, Details, Lists
  <2>4. QED
    BY <2>2, <2>3
<1>5. ASSUME GetPayload(c) PROVE CallOK(c)'
  <2>1. /\ Op[c].kind = "detail" /\ pc[c] = "second" /\ UNCHANGED <<points, before, summary>>
        /\ before[c] # None /\ pc'[c] = "done"
    BY <1>1, <1>2, <1>5 DEF GetPayload, At, Begins
  <2>2. CASE Op[c].host \notin db.live
    <3>1. status'[c] = "unavailable"
      BY <1>2, <1>5, <2>2 DEF GetPayload
    <3>2. QED
      BY <1>1, <2>1, <3>1 DEF CallOK, Begins, Details, Lists
  <2>3. CASE Op[c].host \in db.live
    <3>1. status'[c] = "ok" /\ payload'[c] = PayloadOf(c)
      BY <1>2, <1>5, <2>3 DEF GetPayload, Types
    <3>2. db.latest[Op[c].host] # None => PayloadOf(c) = db.latest[Op[c].host]
      BY OpHost DEF PayloadOf, Tables, Consistent
    <3>3. summary[c] # None =>
            payload'[c] # None /\ (payload'[c] = summary[c] \/ Older(summary[c], payload'[c]))
      BY <1>1, <2>1, <2>3, <3>1, <3>2 DEF Details
    <3>4. Begins(c)'
      BY <1>1, <2>1, <3>1 DEF Begins
    <3>5. Details(c)'
      <4>1. pc'[c] # "second" /\ summary'[c] = summary[c]
        BY <2>1
      <4>2. summary'[c] # None =>
              payload'[c] # None /\ (payload'[c] = summary'[c] \/ Older(summary'[c], payload'[c]))
        BY <3>3, <4>1
      <4>3. QED
        BY <4>1, <4>2, DetailsAnswered
    <3>6. QED
      BY <2>1, <3>4, <3>5 DEF CallOK, Lists
  <2>4. QED
    BY <2>2, <2>3
<1>6. ASSUME CheckExists(c) PROVE CallOK(c)'
  <2>1. /\ Op[c].kind = "history" /\ pc[c] = "first" /\ Begun(c) /\ UNCHANGED <<payload, points, summary>>
        /\ status[c] = "none"
    BY <1>1, <1>6 DEF CheckExists, At, Begins
  <2>2. \/ Op[c].host \in db.live /\ pc'[c] = "second" /\ status'[c] = "none"
        \/ Op[c].host \notin db.live /\ pc'[c] = "done" /\ status'[c] = "not_found"
    BY <1>2, <1>3, <1>6, <2>1 DEF CheckExists, Exists
  <2>3. Begins(c)'
    BY <1>1, <2>1, <2>2, BegunDoes DEF Begins
  <2>4. QED
    BY <2>1, <2>2, <2>3 DEF CallOK, Details, Lists
<1>7. ASSUME ReadHistory(c) PROVE CallOK(c)'
  <2> DEFINE S == {i \in RowsOf(db, Op[c].host) : InWindow(i, Op[c])}
  <2>1. /\ Op[c].kind = "history" /\ pc[c] = "second" /\ UNCHANGED <<payload, summary, before>>
        /\ before[c] # None /\ pc'[c] = "done" /\ status'[c] = "ok" /\ points'[c] = NewestOf(S)
    BY <1>1, <1>2, <1>7 DEF ReadHistory, At, Begins, Types
  <2>2. S \in SUBSET ReportId
    BY DEF RowsOf
  <2>3. ASSUME NEW i \in before[c], db.row[i] # None, InWindow(i, Op[c]) PROVE i \in S
    <3>1. i \in ReportId /\ Sent[i].host = Op[c].host
      BY <1>1, <2>1, <2>3 DEF Begins, Types
    <3>2. db.row[i].host = Op[c].host
      BY <2>3, <3>1 DEF Tables
    <3>3. QED
      BY <2>3, <3>1, <3>2 DEF RowsOf
  <2> HIDE DEF S
  <2>4. Cardinality(points'[c]) <= HistoryLimit
    BY <2>1, <2>2, NewestOfLimits
  <2>5. \A i \in before[c] : db.row[i] # None /\ InWindow(i, Op[c]) /\ i \notin points'[c]
          => Cardinality(points'[c]) = HistoryLimit /\ \A j \in points'[c] : Older(i, j)
    BY <2>1, <2>2, <2>3, NewestOfLimits
  <2>6. QED
    BY <1>1, <2>1, <2>4, <2>5 DEF CallOK, Begins, Details, Lists
<1>8. ASSUME UpdateRemark(c) PROVE CallOK(c)'
  <2>1. /\ Op[c].kind = "remark" /\ pc[c] = "first" /\ Begun(c) /\ UNCHANGED <<payload, points, summary>>
        /\ status[c] = "none"
    BY <1>1, <1>8 DEF UpdateRemark, At, Begins
  <2>2. \/ Op[c].host \in db.live /\ pc'[c] = "second" /\ status'[c] = "none"
        \/ Op[c].host \notin db.live /\ pc'[c] = "done" /\ status'[c] = "not_found"
    BY <1>2, <1>3, <1>8, <2>1 DEF UpdateRemark
  <2>3. Begins(c)'
    BY <1>1, <2>1, <2>2, BegunDoes DEF Begins
  <2>4. QED
    BY <2>1, <2>2, <2>3 DEF CallOK, Details, Lists
<1>9. ASSUME AuditRemark(c) PROVE CallOK(c)'
  <2>1. /\ Op[c].kind = "remark" /\ pc[c] = "second" /\ UNCHANGED <<payload, points, summary, before>>
        /\ before[c] # None /\ pc'[c] = "done" /\ status'[c] = "no_content"
    BY <1>1, <1>2, <1>9 DEF AuditRemark, At, Begins
  <2>2. QED
    BY <1>1, <2>1 DEF CallOK, Begins, Details, Lists
<1>10. ASSUME Fail(c) PROVE CallOK(c)'
  <2>1. pc'[c] = "done" /\ status'[c] = "unavailable" /\ UNCHANGED <<payload, points, summary, before>>
    BY <1>2, <1>10 DEF Fail
  <2>2. QED
    BY <1>1, <2>1 DEF CallOK, Begins, Details, Lists
<1>11. QED
  BY <1>4, <1>5, <1>6, <1>7, <1>8, <1>9, <1>10 DEF Handler

LEMMA CallsStep ==
  ASSUME Types, Tables, \A c \in Call : CallOK(c), [Next]_vars
  PROVE  \A c \in Call : CallOK(c)'
<1>1. TablesAdvance
  BY Advance
<1>2. ASSUME NEW c \in Call, UNCHANGED callVars PROVE CallOK(c)'
  BY <1>1, <1>2, CallWaits DEF callVars, CallKept
<1>3. ASSUME NEW c \in Call, NEW d \in Call, Handler(d) PROVE CallOK(c)'
  BY <1>1, <1>3, CallMoves, OthersKept, CallWaits
<1>4. QED
  BY <1>2, <1>3, Frames DEF Next

-----------------------------------------------------------------------------
(* The transaction of a remark.                                            *)

NoRemark(h) == name[h] = None /\ \A k \in 1 .. Len(trail) : Op[trail[k]].host # h

Named(h) ==
  \/ NoRemark(h)
  \/ \E k \in 1 .. Len(trail) :
       /\ Op[trail[k]].host = h /\ name[h] = trail[k]
       /\ \A l \in 1 .. Len(trail) : Op[trail[l]].host = h => l <= k

Names ==
  /\ \A h \in Host \ (db.live \cup gone) : NoRemark(h)
  /\ \A h \in db.live : Named(h)

InTrail(c) == \E k \in 1 .. Len(trail) : trail[k] = c

\* Who holds the write lock is between its two statements, and its copy of the
\* names differs from the table in its own remark only.
Locked ==
  /\ tx.by = None => tx = Idle
  /\ tx.by # None => /\ pc[tx.by] = "second" /\ Op[tx.by].kind = "remark"
                     /\ Op[tx.by].host \in db.live
                     /\ tx.name = [name EXCEPT ![Op[tx.by].host] = tx.by]

Remarks ==
  /\ Locked /\ Names
  /\ \A c \in Call : Op[c].kind = "remark" /\ pc[c] = "second" => tx.by = c
  /\ \A c \in Call : status[c] = "no_content" => InTrail(c)

\* What does not concern the remarks.
LEMMA RemarksKept ==
  ASSUME Remarks, UNCHANGED remarkVars, db'.live = db.live, gone' = gone,
         \A c \in Call : Op[c].kind = "remark" => (pc'[c] = "second" <=> pc[c] = "second"),
         \A c \in Call : status'[c] = "no_content" => status[c] = "no_content",
         Types
  PROVE  Remarks'
<1>1. UNCHANGED <<name, trail, tx>>
  BY DEF remarkVars
<1>2. Locked'
  <2>1. CASE tx.by = None
    BY <1>1, <2>1 DEF Remarks, Locked, Idle
  <2>2. CASE tx.by # None
    <3>1. tx.by \in Call /\ Op[tx.by].kind = "remark" /\ pc[tx.by] = "second"
      BY <2>2 DEF Remarks, Locked, Types
    <3>2. pc'[tx.by] = "second"
      BY <3>1
    <3>3. QED
      BY <1>1, <2>2, <3>1, <3>2 DEF Remarks, Locked
  <2>3. QED
    BY <2>1, <2>2
<1>3. Names'
  BY <1>1 DEF Remarks, Names, NoRemark, Named
<1>4. \A c \in Call : status'[c] = "no_content" => InTrail(c)'
  BY <1>1 DEF Remarks, InTrail
<1>5. QED
  BY <1>1, <1>2, <1>3, <1>4 DEF Remarks

\* COMMIT publishes the remark and its audit event together.
LEMMA CommitDoes ==
  ASSUME Types, Remarks, NEW c \in Call, tx.by = c, Commit(c), UNCHANGED <<db, gone>>
  PROVE  /\ Names' /\ tx' = Idle /\ tx'.by = None
         /\ InTrail(c)' /\ \A d \in Call : InTrail(d) => InTrail(d)'
<1> DEFINE host == Op[c].host
           n == Len(trail)
<1>1. /\ host \in Host /\ host \in db.live /\ tx.name = [name EXCEPT ![host] = c]
  BY OpHost, ConsoleAssumption DEF Remarks, Locked
<1>2. name' = [name EXCEPT ![host] = c] /\ tx' = Idle /\ tx'.by = None
  BY <1>1 DEF Commit, Idle
<1>3. name'[host] = c /\ \A h \in Host : h # host => name'[h] = name[h]
  BY <1>1, <1>2 DEF Types
<1>4. /\ n \in Nat /\ Len(trail') = n + 1 /\ trail'[n + 1] = c
      /\ \A k \in 1 .. n : trail'[k] = trail[k]
  BY DEF Types, Commit
<1> HIDE DEF n, host
<1>5. 1 .. Len(trail') = 1 .. n \cup {n + 1} /\ n + 1 \notin 1 .. n
  BY <1>4
<1>6. InTrail(c)' /\ \A d \in Call : InTrail(d) => InTrail(d)'
  BY <1>4, <1>5 DEF InTrail, n
<1>7. ASSUME NEW h \in Host, h # host, NoRemark(h) PROVE NoRemark(h)'
  BY <1>3, <1>4, <1>5, <1>7 DEF NoRemark, n, host
<1>8. ASSUME NEW h \in Host, h # host, Named(h) PROVE Named(h)'
  <2>1. CASE NoRemark(h)
    BY <1>7, <1>8, <2>1 DEF Named
  <2>2. CASE ~NoRemark(h)
    <3>1. PICK k \in 1 .. n : /\ Op[trail[k]].host = h /\ name[h] = trail[k]
                              /\ \A l \in 1 .. n : Op[trail[l]].host = h => l <= k
      BY <1>8, <2>2 DEF Named, n
    <3>2. k \in 1 .. Len(trail') /\ Op[trail'[k]].host = h /\ name'[h] = trail'[k]
      BY <1>3, <1>4, <1>5, <1>8, <3>1
    <3>3. \A l \in 1 .. Len(trail') : Op[trail'[l]].host = h => l <= k
      BY <1>4, <1>5, <1>8, <3>1 DEF host
    <3>4. QED
      BY <3>2, <3>3 DEF Named
  <2>3. QED
    BY <2>1, <2>2
<1>9. Named(host)'
  <2>1. n + 1 \in 1 .. Len(trail') /\ \A l \in 1 .. Len(trail') : l <= n + 1
    BY <1>4
  <2>2. Op[trail'[n + 1]].host = host /\ name'[host] = trail'[n + 1]
    BY <1>3, <1>4 DEF host
  <2>3. QED
    BY <2>1, <2>2 DEF Named
<1>10. Names'
  <2>1. \A h \in Host \ (db.live \cup gone) : NoRemark(h)'
    BY <1>1, <1>7 DEF Remarks, Names
  <2>2. \A h \in db.live : Named(h)'
    <3>1. db.live \subseteq Host
      BY DEF Types, DB
    <3>2. QED
      BY <1>8, <1>9, <3>1 DEF Remarks, Names
  <2>3. QED
    BY <2>1, <2>2 DEF Names
<1>11. QED
  BY <1>2, <1>6, <1>10

LEMMA RemarksHandler ==
  ASSUME Types, Remarks, NEW c \in Call, Handler(c)
  PROVE  Remarks'
<1>1. UNCHANGED <<db, gone>> /\ None \notin Call
  BY Frames, ConsoleAssumption DEF storeVars
<1>2. \A s : Answer(c, s) => /\ pc'[c] = "done" /\ status'[c] = s
                             /\ \A d \in Call \ {c} : pc'[d] = pc[d] /\ status'[d] = status[d]
  BY DEF Answer, Goto, Types
<1>3. \A p : Goto(c, p) => pc'[c] = p /\ \A d \in Call \ {c} : pc'[d] = pc[d]
  BY DEF Goto, Types
<1>4. CASE GetSummary(c) \/ GetPayload(c) \/ CheckExists(c) \/ ReadHistory(c)
  <2>1. Op[c].kind # "remark" /\ UNCHANGED remarkVars
    BY <1>4 DEF GetSummary, GetPayload, CheckExists, ReadHistory, At
  <2>2. \A d \in Call \ {c} : pc'[d] = pc[d] /\ status'[d] = status[d]
    BY <1>2, <1>3, <1>4 DEF GetSummary, GetPayload, CheckExists, ReadHistory
  <2>3. status'[c] # "no_content" \/ status'[c] = status[c]
    BY <1>2, <1>4 DEF GetSummary, GetPayload, CheckExists, ReadHistory
  <2>4. QED
    BY <1>1, <2>1, <2>2, <2>3, RemarksKept
<1>5. CASE UpdateRemark(c) /\ Op[c].host \notin db.live
  <2>1. pc[c] = "first" /\ UNCHANGED remarkVars /\ Answer(c, "not_found")
    BY <1>5 DEF UpdateRemark, At, remarkVars
  <2>2. QED
    BY <1>1, <1>2, <2>1, RemarksKept
<1>6. CASE UpdateRemark(c) /\ Op[c].host \in db.live
  <2>1. /\ pc[c] = "first" /\ UNCHANGED <<name, trail, status>> /\ Op[c].kind = "remark" /\ tx.by = None
        /\ tx' = [by |-> c, name |-> [name EXCEPT ![Op[c].host] = c]] /\ Goto(c, "second")
    BY <1>6 DEF UpdateRemark, At, SetName, Unlocked, Idle
  <2>2. tx'.by = c /\ tx'.by # None /\ tx'.name = [name EXCEPT ![Op[c].host] = c]
    BY <1>1, <2>1
  <2>3. Locked'
    BY <1>1, <1>3, <1>6, <2>1, <2>2 DEF Locked
  <2>4. Names'
    BY <1>1, <2>1 DEF Remarks, Names, Named, NoRemark
  <2>5. ASSUME NEW d \in Call, Op[d].kind = "remark", pc'[d] = "second" PROVE tx'.by = d
    BY <1>1, <1>3, <2>1, <2>2, <2>5 DEF Remarks
  <2>6. \A d \in Call : status'[d] = "no_content" => InTrail(d)'
    BY <2>1 DEF Remarks, InTrail
  <2>7. QED
    BY <2>3, <2>4, <2>5, <2>6 DEF Remarks
<1>7. ASSUME tx.by = c, Commit(c) \/ (tx' = Idle /\ UNCHANGED <<name, trail>>), pc'[c] = "done",
             \A d \in Call \ {c} : pc'[d] = pc[d] /\ status'[d] = status[d],
             status'[c] = "no_content" => Commit(c)
      PROVE  Remarks'
  <2>1. tx' = Idle /\ tx'.by = None
    BY <1>7 DEF Commit, Idle
  <2>2. Locked'
    BY <2>1 DEF Locked, Idle
  <2>3. Names' /\ (Commit(c) => InTrail(c)') /\ \A d \in Call : InTrail(d) => InTrail(d)'
    <3>1. CASE Commit(c)
      BY <1>1, <1>7, <3>1, CommitDoes
    <3>2. CASE ~Commit(c)
      BY <1>1, <1>7, <3>2 DEF Remarks, Names, Named, NoRemark, InTrail
    <3>3. QED
      BY <3>1, <3>2
  <2>4. ASSUME NEW d \in Call, Op[d].kind = "remark", pc'[d] = "second" PROVE tx'.by = d
    BY <1>7, <2>4 DEF Remarks
  <2>5. \A d \in Call : status'[d] = "no_content" => InTrail(d)'
    BY <1>7, <2>3 DEF Remarks
  <2>6. QED
    BY <2>2, <2>3, <2>4, <2>5 DEF Remarks
<1>8. CASE AuditRemark(c)
  <2>1. tx.by = c /\ Commit(c) /\ Answer(c, "no_content")
    BY <1>8 DEF AuditRemark, At, Remarks
  <2>2. QED
    BY <1>2, <1>7, <2>1
<1>9. CASE Fail(c) /\ tx.by = c
  <2>1. (Commit(c) \/ (tx' = Idle /\ UNCHANGED <<name, trail>>)) /\ Answer(c, "unavailable")
    BY <1>9 DEF Fail
  <2>2. QED
    BY <1>2, <1>7, <1>9, <2>1
<1>10. CASE Fail(c) /\ tx.by # c
  <2>1. UNCHANGED remarkVars /\ Answer(c, "unavailable")
    BY <1>10 DEF Fail
  <2>2. Op[c].kind = "remark" => pc[c] # "second"
    BY <1>10 DEF Remarks
  <2>3. QED
    BY <1>1, <1>2, <2>1, <2>2, RemarksKept
<1>11. QED
  BY <1>4, <1>5, <1>6, <1>8, <1>9, <1>10 DEF Handler

LEMMA RemarksStep ==
  ASSUME Types, Tables, Remarks, [Next]_vars
  PROVE  Remarks'
<1>1. ASSUME UNCHANGED <<remarkVars, callVars>>, db'.live = db.live, gone' = gone PROVE Remarks'
  BY <1>1, RemarksKept DEF callVars
<1>2. ASSUME NEW i \in ReportId, StoreReport(i) \/ Prune(i) PROVE Remarks'
  <2>1. db'.live = db.live /\ gone' = gone
    BY <1>2, StoreReportDoes, PruneDoes DEF StoreReport, Prune
  <2>2. QED
    BY <1>1, <1>2, <2>1, Frames
<1>3. ASSUME NEW h \in Host, Activate(h) PROVE Remarks'
  <2>1. /\ tx = Idle /\ gone' = gone /\ db'.live = db.live \cup {h} /\ h \notin db.live \cup gone
        /\ UNCHANGED <<name, trail, tx, pc, status>>
    BY <1>3, ActivateDoes DEF Activate, Unlocked, remarkVars, callVars
  <2>2. Locked'
    BY <2>1 DEF Remarks, Locked, Idle
  <2>3. Names'
    BY <2>1 DEF Remarks, Names, Named, NoRemark
  <2>4. QED
    BY <2>1, <2>2, <2>3 DEF Remarks, InTrail
<1>4. ASSUME NEW h \in Host, DeleteHost(h) PROVE Remarks'
  <2>1. /\ tx = Idle /\ gone' = gone \cup {h} /\ db'.live = db.live \ {h} /\ h \in db.live
        /\ UNCHANGED <<trail, tx, pc, status>> /\ name' = [name EXCEPT ![h] = None]
    BY <1>4, DeleteHostDoes DEF DeleteHost, Unlocked, callVars
  <2>2. \A g \in Host \ {h} : name'[g] = name[g]
    BY <2>1 DEF Types
  <2>3. db.live \subseteq Host
    BY DEF Types, DB
  <2>4. Locked'
    BY <2>1 DEF Locked, Idle
  <2>5. \A g \in Host \ {h} : (NoRemark(g) => NoRemark(g)') /\ (Named(g) => Named(g)')
    BY <2>1, <2>2 DEF Named, NoRemark
  <2>6. Names'
    BY <2>1, <2>3, <2>5 DEF Remarks, Names
  <2>7. QED
    BY <2>1, <2>4, <2>6 DEF Remarks, InTrail
<1>5. ASSUME Page \/ UNCHANGED vars PROVE Remarks'
  BY <1>1, <1>5, Frames DEF storeVars
<1>6. QED
  BY <1>2, <1>3, <1>4, <1>5, RemarksHandler DEF Next

-----------------------------------------------------------------------------
(* The inductive invariant, and what follows from it.                      *)

IInv == Types /\ Tables /\ Walk /\ Remarks /\ \A c \in Call : CallOK(c)

LEMMA InitTypes == Init => Types /\ Tables
<1> SUFFICES ASSUME Init PROVE Types /\ Tables
  OBVIOUS
<1>1. PICK hosts \in SUBSET Host : db = [InitDB EXCEPT !.live = hosts] /\ must = hosts
  BY DEF Init
<1>2. /\ db.live = hosts /\ db.row = InitDB.row /\ db.payload = InitDB.payload
      /\ db.latest = InitDB.latest /\ db.latestAt = InitDB.latestAt /\ InitDB \in DB
  BY <1>1, InitDBType DEF InitDB
<1>3. db \in DB
  BY <1>1, <1>2 DEF DB
<1>4. Consistent(db)
  BY <1>2, InitDBConsistent DEF Consistent, LatestPointer, RowsOf, Newest, InitDB
<1>5. Tables
  BY <1>2, <1>4 DEF Init, Tables, InitDB
<1>6. fetches \in Seq(Fetch)
  <2>1. [offset |-> 0, at |-> "count", total |-> 0, hosts |-> {}] \in Fetch
    BY DEF Fetch
  <2>2. QED
    BY <2>1 DEF Init
<1>7. /\ open \in BOOLEAN /\ stored \in SUBSET ReportId
      /\ pc \in [Call -> {"never", "first", "second", "done"}]
  BY ConsoleAssumption DEF Init
<1>8. tx \in [by : Call \cup {None}, name : [Host -> Call \cup {None}]]
  BY DEF Init, Idle
<1>9. QED
  BY <1>1, <1>3, <1>5, <1>6, <1>7, <1>8 DEF Init, Types, Status

LEMMA InitIInv == Init => IInv
<1> SUFFICES ASSUME Init PROVE IInv
  OBVIOUS
<1>1. Types /\ Tables
  BY InitTypes
<1>2. PICK hosts \in SUBSET Host : db = [InitDB EXCEPT !.live = hosts] /\ must = hosts
  BY DEF Init
<1>3. db.live = hosts
  BY <1>2 DEF InitDB
<1>4. \A g \in must : Rank(g) \in Nat
  BY <1>1, <1>2, <1>3, RankType DEF Types
<1> DEFINE first == [offset |-> 0, at |-> "count", total |-> 0, hosts |-> {}]
<1>5. /\ \A k \in DOMAIN fetches : fetches[k] = first
      /\ first.offset = 0 /\ first.at = "count" /\ first.hosts = {}
  <2>1. fetches = <<first>> \/ fetches = <<>>
    BY DEF Init
  <2>2. QED
    BY <2>1
<1> HIDE DEF first
<1>6. PageSize \in Nat /\ HistoryLimit \in Nat /\ Cardinality({}) = 0
  BY ConsoleAssumption, FS_EmptySet
<1>7. Walk
  <2>1. \A k \in DOMAIN fetches : Cardinality(fetches[k].hosts) <= PageSize
    BY <1>5, <1>6
  <2>2. \A k \in DOMAIN fetches : Showable(fetches[k])
    BY <1>5 DEF Showable, Init
  <2>3. goneThen = {} /\ offset = 0 /\ response = None
    BY DEF Init
  <2>4. QED
    BY <1>2, <1>3, <1>4, <2>1, <2>2, <2>3 DEF Walk
<1>8. Remarks
  <2>1. /\ tx = Idle /\ name = [h \in Host |-> None] /\ trail = <<>>
        /\ \A c \in Call : pc[c] # "second" /\ status[c] = "none"
    BY DEF Init
  <2>2. Locked
    BY <2>1 DEF Locked, Idle
  <2>3. Names
    BY <1>2, <1>3, <2>1 DEF Names, Named, NoRemark
  <2>4. QED
    BY <2>1, <2>2, <2>3 DEF Remarks
<1>9. ASSUME NEW c \in Call PROVE CallOK(c)
  <2>1. /\ pc[c] # "second" /\ status[c] = "none" /\ before[c] = None /\ points[c] = {}
    BY DEF Init
  <2>2. QED
    BY <1>6, <2>1 DEF CallOK, Begins, Details, Lists
<1>10. QED
  BY <1>1, <1>7, <1>8, <1>9 DEF IInv

LEMMA StepIInv == IInv /\ [Next]_vars => IInv'
<1> SUFFICES ASSUME IInv, [Next]_vars PROVE IInv'
  OBVIOUS
<1>1. Types' /\ Tables'
  BY TypesStep DEF IInv
<1>2. Walk'
  BY WalkStep DEF IInv
<1>3. Remarks'
  BY RemarksStep DEF IInv
<1>4. \A c \in Call : CallOK(c)'
  BY CallsStep DEF IInv
<1>5. QED
  BY <1>1, <1>2, <1>3, <1>4 DEF IInv

LEMMA Invariant == Spec => []IInv
BY InitIInv, StepIInv, PTL DEF Spec

\* No answer is longer than its limit: HistoryLimit rows (history), PageSize
\* hosts (list_hosts), whatever is stored, deleted or asked for at a time.
THEOREM TypeCorrect == Spec => []TypeOK
<1>1. IInv => TypeOK
  <2> SUFFICES ASSUME IInv PROVE TypeOK
    OBVIOUS
  <2>1. \A c \in Call : Cardinality(points[c]) <= HistoryLimit
    BY DEF IInv, CallOK, Begins
  <2>2. response # None => Cardinality(response.hosts) <= PageSize
    BY DEF IInv, Walk, Shown
  <2>3. QED
    BY <2>1, <2>2 DEF IInv, Types, TypeOK
<1>2. QED
  BY Invariant, <1>1, PTL

\* 404 only of a host that was not there, and nothing of one that was deleted
\* before the call began (host_detail, host_history, update_remark).
THEOREM AnswersAreJustified == Spec => []AnswersJustified
<1>1. IInv => AnswersJustified
  BY DEF IInv, CallOK, Begins, AnswersJustified
<1>2. QED
  BY Invariant, <1>1, PTL

\* The two statements of get_host never contradict each other, though no
\* transaction holds them together: the latest report only gets newer in between.
THEOREM DetailsCohere == Spec => []DetailCoherent
<1>1. IInv => DetailCoherent
  BY DEF IInv, CallOK, Details, DetailCoherent
<1>2. QED
  BY Invariant, <1>1, PTL

\* A history leaves a row out only for HistoryLimit newer ones, and never one
\* that was there from the beginning to the end of the call (history).
THEOREM HistoriesComplete == Spec => []HistoryComplete
<1>1. IInv => HistoryComplete
  BY DEF IInv, CallOK, Lists, HistoryComplete
<1>2. QED
  BY Invariant, <1>1, PTL

\* The name of a host and the last audit event about it agree, whichever
\* statements failed (update_remark).
THEOREM RemarksAudited == Spec => []RemarkAudited
<1>1. IInv => RemarkAudited
  <2> SUFFICES ASSUME IInv PROVE RemarkAudited
    OBVIOUS
  <2>1. ASSUME NEW h \in db.live
        PROVE  LET K == {k \in 1 .. Len(trail) : Op[trail[k]].host = h}
               IN  IF K = {} THEN name[h] = None
                   ELSE \E k \in K : name[h] = trail[k] /\ \A l \in K : l <= k
    <3>1. Named(h)
      BY DEF IInv, Remarks, Names
    <3>2. CASE NoRemark(h)
      BY <3>2 DEF NoRemark
    <3>3. CASE ~NoRemark(h)
      BY <3>1, <3>3 DEF Named
    <3>4. QED
      BY <3>2, <3>3
  <2>2. \A c \in Call : status[c] = "no_content" => \E k \in 1 .. Len(trail) : trail[k] = c
    BY DEF IInv, Remarks, InTrail
  <2>3. QED
    BY <2>1, <2>2 DEF RemarkAudited
<1>2. QED
  BY Invariant, <1>1, PTL

\* The page never shows an answer to an earlier click (the aborted check of
\* HostsPage).
THEOREM PageIsCurrent == Spec => []PageCurrent
<1>1. IInv => PageCurrent
  BY DEF IInv, Walk, Shown, PageCurrent
<1>2. QED
  BY Invariant, <1>1, PTL

\* Who clicks through to the last page misses no host, unless one before it
\* joined or left in the meantime (list_hosts, HostsPage).
THEOREM WalksComplete == Spec => []PagesComplete
<1>1. IInv => PagesComplete
  <2> SUFFICES ASSUME IInv, response # None, LastPage, NEW g \in must PROVE g \in met
    BY DEF PagesComplete
  <2>1. /\ Shown /\ db \in DB /\ g \in db.live /\ response \in Response /\ offset \in Nat
    BY DEF IInv, Walk, Types
  <2>2. Rank(g) \in Nat
    BY <2>1, RankType
  <2>3. response.hosts \in SUBSET Host /\ response.total \in Nat /\ response.offset = offset
    BY <2>1 DEF Response, Shown
  <2>4. Cardinality(response.hosts) \in Nat /\ Cardinality(response.hosts) <= PageSize
    BY <2>1, <2>3, ConsoleAssumption, FS_Subset, FS_CardinalityType DEF Shown
  <2>5. response.total <= offset + PageSize
    BY <2>1, <2>3, <2>4, ConsoleAssumption DEF LastPage
  <2>6. Rank(g) < offset + PageSize
    BY <2>1, <2>2, <2>3, <2>5, ConsoleAssumption DEF Shown
  <2>7. QED
    BY <2>1, <2>6 DEF Shown
<1>2. QED
  BY Invariant, <1>1, PTL
=============================================================================
