----------------------------- MODULE HostConsole -----------------------------
(***************************************************************************)
(* What administrators see of the hosts: the host detail, the history and  *)
(* the remark handlers (http.rs, store.rs), and the host list with the     *)
(* page that walks through it (App.tsx).                                   *)
(*                                                                         *)
(* The reads are two statements each, without a transaction.  Between the  *)
(* two, reports are stored, old rows are rolled up and deleted, hosts are  *)
(* activated and deleted.  A remark is one transaction.                    *)
(*                                                                         *)
(* Hosts are numbered by (registered_at, host_id).  Activations take their *)
(* time before the write lock, so hosts may join in any order.  A remark   *)
(* is named by the call that sets it.                                      *)
(***************************************************************************)
EXTENDS ReportStore, Sequences, FiniteSets, Functions

CONSTANTS Sent,          \* [ReportId -> Row]: the report that has this id
          Call,          \* calls of the handlers, each made once
          Op,            \* [Call -> what it asks for]
          HistoryLimit,
          PageSize,
          Scenarios,     \* bound: which calls are made, none if the page is opened, and
                         \* which reports come
          MaxFetches     \* bound: how often the page asks for the list

DetailOp  == [kind : {"detail"}, host : Host]
RemarkOp  == [kind : {"remark"}, host : Host]
\* The handler has refused a window that ends before it begins.
HistoryOp == [kind : {"history"}, host : Host, from : Time \cup {None}, to : Time \cup {None}]

ASSUME ConsoleAssumption ==
  /\ Host \subseteq Nat /\ IsFiniteSet(Host) /\ IsFiniteSet(ReportId)
  /\ Sent \in [ReportId -> Row]
  /\ Op \in [Call -> DetailOp \cup RemarkOp \cup HistoryOp]
  /\ None \notin Call /\ \A S \in SUBSET ReportId : S # None
  /\ Scenarios \subseteq [calls : SUBSET Call, reports : SUBSET ReportId]
  /\ {HistoryLimit, PageSize} \subseteq Nat \ {0}   \* clamp(1, 1000)
  /\ MaxFetches \in Nat

VARIABLES
  db,        \* the report tables
  name,      \* monitored_hosts.name
  trail,     \* the audit events of remarks
  gone,      \* history: hosts that were deleted
  stored,    \* history: reports that were stored, or never come
  pc,        \* where each call is
  status,    \* what it answered
  summary,   \* the latest report a detail's summary is about
  payload,   \* the report a detail shows in full
  points,    \* the rows a history shows
  before,    \* history: its host's rows when the call ran its first statement,
             \* None if there was no such host
  tx,        \* the open transaction: who has the write lock, and what it wrote
  open,      \* the page is open
  offset,    \* its place in the list
  fetches,   \* its requests, the last one not yet aborted
  response,  \* what it shows
  goneThen,  \* history: the hosts gone when the last request was made
  must,      \* history: hosts that a walk from the first page has to meet
  met        \* history: hosts it has met

storeVars == <<db, gone, stored>>
remarkVars == <<name, trail, tx>>
callVars == <<pc, status, summary, payload, points, before>>
walkVars == <<goneThen, must, met>>
pageVars == <<open, offset, fetches, response, walkVars>>
vars == <<storeVars, remarkVars, callVars, pageVars>>

Status == {"none", "ok", "no_content", "not_found", "unavailable"}

Response == [offset : Nat, total : Nat, hosts : SUBSET Host]

Fetch == [offset : Nat, at : {"count", "page", "answered", "over"},
          total : Nat, hosts : SUBSET Host]

Idle == [by |-> None, name |-> [h \in Host |-> None]]

\* The page, the reads and the remarks share nothing but the tables, and change
\* nothing there that another of them looks at: a behaviour need not have all.
Init ==
  /\ \E hosts \in SUBSET Host : db = [InitDB EXCEPT !.live = hosts] /\ must = hosts
  /\ name = [h \in Host |-> None] /\ trail = <<>> /\ tx = Idle
  /\ gone = {}
  /\ \E s \in Scenarios :
       /\ pc = [c \in Call |-> IF c \in s.calls THEN "first" ELSE "never"]
       /\ open = (s.calls = {})
       /\ stored = ReportId \ s.reports
  /\ status = [c \in Call |-> "none"]
  /\ summary = [c \in Call |-> None]
  /\ payload = [c \in Call |-> None]
  /\ points = [c \in Call |-> {}]
  /\ before = [c \in Call |-> None]
  /\ offset = 0 /\ response = None /\ met = {} /\ goneThen = {}
  /\ fetches = IF open THEN <<[offset |-> 0, at |-> "count", total |-> 0, hosts |-> {}]>>
               ELSE <<>>

-----------------------------------------------------------------------------
(* The rest of the server.  Its writes wait for the write lock.            *)

Unlocked == tx = Idle

\* A report whose id is new.  (What becomes of a replay is in Retention.)
StoreReport(i) ==
  /\ Unlocked
  /\ i \notin stored
  /\ Sent[i].host \in db.live
  /\ db' = Stored(db, [host |-> Sent[i].host, id |-> i, at |-> Sent[i].at])
  /\ stored' = stored \cup {i}
  /\ UNCHANGED <<gone, remarkVars, callVars, pageVars>>

\* Retention deletes a row that is no host's latest.
Prune(i) ==
  /\ Unlocked
  /\ db.row[i] # None /\ i \notin LatestIds(db)
  /\ db' = RawDeleted(db, {i})
  /\ UNCHANGED <<gone, stored, remarkVars, callVars, pageVars>>

\* A walk loses track of the hosts whose place in the list changes.
Moved(h) == must' = must \cap {g \in Host : g < h}

Activate(h) ==
  /\ Unlocked
  /\ h \notin db.live \cup gone
  /\ db' = [db EXCEPT !.live = @ \cup {h}]
  /\ Moved(h)
  /\ UNCHANGED <<gone, stored, remarkVars, callVars, open, offset, fetches, response, goneThen, met>>

DeleteHost(h) ==
  /\ Unlocked
  /\ h \in db.live
  /\ db' = HostDeleted(db, h)
  /\ gone' = gone \cup {h}
  /\ name' = [name EXCEPT ![h] = None]
  /\ Moved(h)
  /\ UNCHANGED <<stored, trail, tx, callVars, open, offset, fetches, response, goneThen, met>>

-----------------------------------------------------------------------------
(* GET of a host, GET of its history.                                      *)

At(c, kind, place) == Op[c].kind = kind /\ pc[c] = place

Goto(c, place) == pc' = [pc EXCEPT ![c] = place]

Answer(c, s) ==
  /\ Goto(c, "done")
  /\ status' = [status EXCEPT ![c] = s]

Begun(c) ==
  LET h == Op[c].host
  IN  before' = [before EXCEPT ![c] = IF h \in db.live THEN RowsOf(db, h) ELSE None]

GetSummary(c) ==
  LET h == Op[c].host
  IN  /\ At(c, "detail", "first")
      /\ Begun(c)
      /\ \/ h \notin db.live /\ Answer(c, "not_found") /\ UNCHANGED summary
         \/ /\ h \in db.live
            /\ summary' = [summary EXCEPT ![c] = db.latest[h]]
            /\ Goto(c, "second") /\ UNCHANGED status
      /\ UNCHANGED <<storeVars, remarkVars, payload, points, pageVars>>

\* Mutant: the payload is that of the report that the summary is about.
PayloadSummarized(c) ==
  IF summary[c] \in db.payload THEN summary[c] ELSE None

\* The second statement joins through latest_report_id once more.
PayloadOf(c) ==
  LET i == db.latest[Op[c].host]
  IN  IF i \in db.payload THEN i ELSE None

\* fetch_one: no row at all is a database error.
GetPayload(c) ==
  /\ At(c, "detail", "second")
  /\ \/ Op[c].host \notin db.live /\ Answer(c, "unavailable") /\ UNCHANGED payload
     \/ /\ Op[c].host \in db.live
        /\ payload' = [payload EXCEPT ![c] = PayloadOf(c)]
        /\ Answer(c, "ok")
  /\ UNCHANGED <<storeVars, remarkVars, summary, points, before, pageVars>>

\* Mutant: the existence of the host is not asked for.
ExistsAlways(h) == TRUE

Exists(h) == h \in db.live

CheckExists(c) ==
  LET h == Op[c].host
  IN  /\ At(c, "history", "first")
      /\ Begun(c)
      /\ IF Exists(h) THEN Goto(c, "second") /\ UNCHANGED status
                      ELSE Answer(c, "not_found")
      /\ UNCHANGED <<storeVars, remarkVars, summary, payload, points, pageVars>>

InWindow(i, o) ==
  /\ o.from = None \/ Sent[i].at >= o.from
  /\ o.to = None \/ Sent[i].at <= o.to

Older(i, j) == Sent[i].at < Sent[j].at \/ (Sent[i].at = Sent[j].at /\ i < j)

\* Mutant: ascending order already in the statement, before the limit.
OldestOf(S) == {i \in S : Cardinality({j \in S : Older(j, i)}) < HistoryLimit}

NewestOf(S) == {i \in S : Cardinality({j \in S : Older(i, j)}) < HistoryLimit}

ReadHistory(c) ==
  /\ At(c, "history", "second")
  /\ points' = [points EXCEPT ![c] =
       NewestOf({i \in RowsOf(db, Op[c].host) : InWindow(i, Op[c])})]
  /\ Answer(c, "ok")
  /\ UNCHANGED <<storeVars, remarkVars, summary, payload, before, pageVars>>

-----------------------------------------------------------------------------
(* PATCH of a host's remark.                                               *)

\* Mutant: the statement runs on the pool and not in the transaction.
SetNameOutside(c) ==
  /\ name' = [name EXCEPT ![Op[c].host] = c]
  /\ tx' = [by |-> c, name |-> name']

SetName(c) ==
  /\ tx' = [by |-> c, name |-> [name EXCEPT ![Op[c].host] = c]]
  /\ UNCHANGED name

\* The UPDATE takes the write lock.
UpdateRemark(c) ==
  /\ At(c, "remark", "first")
  /\ Unlocked
  /\ Begun(c)
  /\ \/ Op[c].host \notin db.live /\ Answer(c, "not_found") /\ UNCHANGED <<name, tx>>
     \/ Op[c].host \in db.live /\ SetName(c) /\ Goto(c, "second") /\ UNCHANGED status
  /\ UNCHANGED <<storeVars, trail, summary, payload, points, pageVars>>

Commit(c) ==
  /\ name' = tx.name
  /\ trail' = Append(trail, c)
  /\ tx' = Idle

\* The audit event, and COMMIT.
AuditRemark(c) ==
  /\ At(c, "remark", "second")
  /\ Commit(c)
  /\ Answer(c, "no_content")
  /\ UNCHANGED <<storeVars, summary, payload, points, before, pageVars>>

\* A statement fails, or the client hangs up.  A COMMIT may have succeeded.
Fail(c) ==
  /\ pc[c] \in {"first", "second"}
  /\ Answer(c, "unavailable")
  /\ IF tx.by = c THEN Commit(c) \/ (tx' = Idle /\ UNCHANGED <<name, trail>>)
                  ELSE UNCHANGED remarkVars
  /\ UNCHANGED <<storeVars, summary, payload, points, before, pageVars>>

Handler(c) ==
  \/ GetSummary(c) \/ GetPayload(c)
  \/ CheckExists(c) \/ ReadHistory(c)
  \/ UpdateRemark(c) \/ AuditRemark(c)
  \/ Fail(c)

-----------------------------------------------------------------------------
(* GET of the host list, and the page.                                     *)

\* Mutant: answers to requests that were aborted are shown.
NeverAborted(k) == TRUE

NotAborted(k) == k = Len(fetches)

Count(k) ==
  /\ fetches[k].at = "count"
  /\ fetches' = [fetches EXCEPT ![k] = [@ EXCEPT !.at = "page", !.total = Cardinality(db.live)]]
  /\ UNCHANGED <<storeVars, remarkVars, callVars, open, offset, response, walkVars>>

\* Mutant: ordered by the latest report.
PrecedesByReport(g, h) ==
  LET t(x) == IF db.latestAt[x] = None THEN 0 ELSE db.latestAt[x]
  IN  t(g) > t(h) \/ (t(g) = t(h) /\ g < h)

Precedes(g, h) == g < h

\* Mutant: OFFSET without LIMIT.
PageUnlimited(o) ==
  {h \in db.live : Cardinality({g \in db.live : Precedes(g, h)}) >= o}

PageAt(o) ==
  {h \in db.live : Cardinality({g \in db.live : Precedes(g, h)}) \in o .. o + PageSize - 1}

SelectPage(k) ==
  /\ fetches[k].at = "page"
  /\ fetches' = [fetches EXCEPT ![k] = [@ EXCEPT !.at = "answered", !.hosts = PageAt(fetches[k].offset)]]
  /\ UNCHANGED <<storeVars, remarkVars, callVars, open, offset, response, walkVars>>

Over(k) == [fetches EXCEPT ![k] = [offset |-> 0, at |-> "over", total |-> 0, hosts |-> {}]]

Deliver(k) ==
  LET f == fetches[k]
  IN  /\ f.at = "answered"
      /\ fetches' = Over(k)
      /\ IF NotAborted(k)
         THEN /\ response' = [offset |-> f.offset, total |-> f.total, hosts |-> f.hosts]
              /\ met' = met \cup f.hosts
         ELSE UNCHANGED <<response, met>>
      /\ UNCHANGED <<storeVars, remarkVars, callVars, open, offset, goneThen, must>>

\* The request fails, or its handler is dropped once it was aborted.
Lose(k) ==
  /\ fetches[k].at # "over"
  /\ fetches' = Over(k)
  /\ UNCHANGED <<storeVars, remarkVars, callVars, open, offset, response, walkVars>>

\* The effect on [client, offset, generation]: the request before is aborted.
\* A walk begins at offset 0.
Ask(o) ==
  /\ Len(fetches) < MaxFetches
  /\ offset' = o
  /\ response' = None
  /\ fetches' = Append(fetches, [offset |-> o, at |-> "count", total |-> 0, hosts |-> {}])
  /\ goneThen' = gone
  /\ IF o = 0 THEN must' = db.live /\ met' = {} ELSE UNCHANGED <<must, met>>
  /\ UNCHANGED <<storeVars, remarkVars, callVars, open>>

LastPage == response.offset + Cardinality(response.hosts) >= response.total

NextPage == open /\ response # None /\ ~LastPage /\ Ask(offset + PageSize)

PreviousPage ==
  /\ open /\ response # None /\ offset # 0
  /\ Ask(IF offset > PageSize THEN offset - PageSize ELSE 0)

Refresh == open /\ Ask(offset)

Page ==
  \/ \E k \in DOMAIN fetches : Count(k) \/ SelectPage(k) \/ Deliver(k) \/ Lose(k)
  \/ NextPage \/ PreviousPage \/ Refresh

-----------------------------------------------------------------------------
Next ==
  \/ \E i \in ReportId : StoreReport(i) \/ Prune(i)
  \/ \E h \in Host : Activate(h) \/ DeleteHost(h)
  \/ \E c \in Call : Handler(c)
  \/ Page

Spec == Init /\ [][Next]_vars
-----------------------------------------------------------------------------
(* Properties.                                                             *)

\* Types, with the limits of the answers: at most HistoryLimit rows, at most
\* PageSize hosts.
TypeOK ==
  /\ db \in DB /\ gone \subseteq Host /\ stored \subseteq ReportId
  /\ name \in [Host -> Call \cup {None}] /\ trail \in Seq(Call)
  /\ tx \in [by : Call \cup {None}, name : [Host -> Call \cup {None}]]
  /\ pc \in [Call -> {"never", "first", "second", "done"}]
  /\ status \in [Call -> Status]
  /\ summary \in [Call -> ReportId \cup {None}]
  /\ payload \in [Call -> ReportId \cup {None}]
  /\ points \in [Call -> SUBSET ReportId]
  /\ before \in [Call -> (SUBSET ReportId) \cup {None}]
  /\ open \in BOOLEAN /\ offset \in Nat
  /\ fetches \in Seq(Fetch)
  /\ response \in Response \cup {None}
  /\ goneThen \subseteq Host /\ must \subseteq Host /\ met \subseteq Host
  /\ \A c \in Call : Cardinality(points[c]) <= HistoryLimit
  /\ response # None => Cardinality(response.hosts) <= PageSize

\* 404 only if the host was not there when the call looked, and nothing is shown
\* or changed of a host that was deleted before the call began (host_detail,
\* host_history, update_remark).
AnswersJustified ==
  \A c \in Call :
     /\ status[c] = "not_found" => before[c] = None
     /\ status[c] \in {"ok", "no_content"} => before[c] # None

\* The two statements of get_host never contradict each other: a summary that
\* names a report comes with a payload, which is of that report or of a newer
\* one, though the report it names may have lost its payload, or be deleted, in
\* between.
DetailCoherent ==
  \A c \in Call :
     (Op[c].kind = "detail" /\ status[c] = "ok" /\ summary[c] # None)
       => /\ payload[c] # None
          /\ payload[c] = summary[c] \/ Older(summary[c], payload[c])

\* A history has no holes: of the rows in its window that were there when the
\* call began and are there now, it shows all, or else HistoryLimit rows that
\* are newer than the one it leaves out (history).
HistoryComplete ==
  \A c \in Call :
     (Op[c].kind = "history" /\ status[c] = "ok") =>
       \A i \in before[c] :
          (db.row[i] # None /\ InWindow(i, Op[c]) /\ i \notin points[c])
            => /\ Cardinality(points[c]) = HistoryLimit
               /\ \A j \in points[c] : Older(i, j)

\* The name of a host is the one that its last audit event tells of, and every
\* remark that was answered 204 is audited: whatever failed, name and audit go
\* together (update_remark).
RemarkAudited ==
  /\ \A h \in db.live :
        LET K == {k \in 1 .. Len(trail) : Op[trail[k]].host = h}
        IN  IF K = {} THEN name[h] = None
            ELSE \E k \in K : name[h] = trail[k] /\ \A l \in K : l <= k
  /\ \A c \in Call : status[c] = "no_content" => \E k \in 1 .. Len(trail) : trail[k] = c

\* What the page shows belongs to the place it is at, and was read after the
\* administrator last clicked: a host that was gone by then is not shown, however
\* late the answers to earlier clicks come in (the aborted check of HostsPage).
PageCurrent ==
  response # None => response.offset = offset /\ response.hosts \cap goneThen = {}

\* Who clicks through to the last page has met every host that was there from the
\* beginning, unless a host that comes before it was deleted or joined in the
\* meantime: hosts that join behind it and reports do not disturb the walk
\* (list_hosts orders by registered_at, and counts before it reads the page).
PagesComplete == (response # None /\ LastPage) => must \subseteq met
=============================================================================
