------------------------ MODULE TelemetryWriter_proofs ------------------------
(***************************************************************************)
(* Proofs about TelemetryWriter, for any hosts, report ids, times, requests *)
(* and contents, any queue capacity and any batch size.                    *)
(***************************************************************************)
EXTENDS TelemetryWriter, ReportStore_proofs, FiniteSetTheorems

(***************************************************************************)
(* A stored report stays what it is: storing another one keeps every row,  *)
(* and a deletion takes rows of the deleted host only.  So what a client   *)
(* was told keeps being justified.                                         *)
(***************************************************************************)
\* A verdict stays justified while the database only grows.
LEMMA JustifiedExtends ==
  ASSUME NEW d, NEW e, NEW w \in Write, NEW a, Extends(e, d), Justified(d, w, a)
  PROVE  Justified(e, w, a)
<1>1. w.id \in ReportId
  BY DEF Write
<1>2. QED
  BY <1>1 DEF Extends, Justified, Kept

\* Deleting a host takes the ground from no verdict.
LEMMA JustifiedHostDeleted ==
  ASSUME NEW d \in DB, NEW h \in Host, NEW w \in Write, NEW a, Justified(d, w, a)
  PROVE  Justified(HostDeleted(d, h), w, a)
<1>1. w.id \in ReportId
  BY DEF Write
<1>2. /\ HostDeleted(d, h).live = d.live \ {h}
      /\ HostDeleted(d, h).row = [i \in ReportId |-> IF i \in RowsOf(d, h) THEN None ELSE d.row[i]]
  BY DEF HostDeleted
<1>3. HostDeleted(d, h).row[w.id] = IF w.id \in RowsOf(d, h) THEN None ELSE d.row[w.id]
  BY <1>1, <1>2
<1>4. ASSUME NEW g \in Host, g \in d.live => d.row[w.id] # None /\ d.row[w.id].host = g
      PROVE  g \in d.live \ {h} =>
               HostDeleted(d, h).row[w.id] # None /\ HostDeleted(d, h).row[w.id].host = g
  BY <1>1, <1>3, <1>4 DEF RowsOf
<1>5. w.host \in Host
  BY DEF Write
<1>6. QED
  BY <1>2, <1>4, <1>5 DEF Justified, Kept

\* The verdict on a report is justified once the report is stored.
LEMMA VerdictJustified ==
  ASSUME NEW d \in DB, NEW w \in Write
  PROVE  Justified(Stored(d, w), w, VerdictOn(d, w))
<1>1. /\ w.id \in ReportId /\ w.host \in Host
      /\ d.row \in [ReportId -> Row \cup {None}]
  BY DEF Write, DB
<1>2. CASE VerdictOn(d, w) = "accepted"
  <2>1. Stored(d, w).row = [d.row EXCEPT ![w.id] = [host |-> w.host, at |-> w.at]]
    BY <1>2 DEF Stored, Inserted
  <2>2. Stored(d, w).row[w.id] = [host |-> w.host, at |-> w.at]
    BY <1>1, <2>1
  <2>3. [host |-> w.host, at |-> w.at] # None
    BY StoreAssumption DEF Write
  <2>4. QED
    BY <1>2, <2>2, <2>3 DEF Justified, Kept
<1>3. CASE VerdictOn(d, w) # "accepted"
  <2>1. Stored(d, w) = d
    BY <1>3 DEF Stored
  <2>2. CASE w.host \notin d.live
    BY <2>1, <2>2 DEF VerdictOn, Justified, Kept
  <2>3. CASE w.host \in d.live /\ d.row[w.id] # None /\ d.row[w.id].host = w.host
    BY <2>1, <2>3 DEF VerdictOn, Justified, Kept
  <2>4. CASE w.host \in d.live /\ d.row[w.id] # None /\ d.row[w.id].host # w.host
    <3>1. d.row[w.id].host \in Host
      BY <1>1, <2>4 DEF Row
    <3>2. QED
      BY <2>1, <2>4, <3>1 DEF VerdictOn, Justified, Kept
  <2>5. QED
    BY <1>3, <2>2, <2>3, <2>4 DEF VerdictOn
<1>4. QED
  BY <1>2, <1>3

\* A failure claims nothing.
LEMMA FailedJustified ==
  ASSUME NEW d, NEW w, NEW a \in {"none", "dropped", "failed", "limited", "full", "unavailable", "deadline", "gone"}
  PROVE  Justified(d, w, a)
  BY DEF Justified

(***************************************************************************)
(* The inductive invariant.  TypeOK says what the variables hold, but not  *)
(* when: a batch may be in the writer's hands only between recv and reply, *)
(* and results run beside it.  Inside its transaction the writer sees all  *)
(* that is committed and decides from there, so its results are justified  *)
(* by its own view until the commit makes that view the database.          *)
(***************************************************************************)
Types ==
  /\ db \in DB /\ tx \in DB
  /\ pc \in [Request -> HandlerState]
  /\ answer \in [Request -> Outcome \cup {"none"}]
  /\ reply \in [Request -> Result \cup {"none", "dropped"}]
  /\ queue \in Seq(Request) /\ closed \in BOOLEAN
  /\ wpc \in WriterState /\ draining \in BOOLEAN
  /\ batch \in Seq(Request)
  /\ results \in Seq(Result)
  /\ task \in TaskState /\ notified \in BOOLEAN

Capacity == wpc # "ended" => Len(queue) + Cardinality(Reserved) <= QueueCapacity

WriterShape ==
  /\ wpc \in {"top", "recv", "ended"} => batch = <<>> /\ results = <<>>
  /\ wpc \in {"fill", "select", "begin"} => batch # <<>> /\ results = <<>>
  /\ wpc = "select" => Len(batch) < BatchSize
  /\ wpc = "store" => Len(results) < Len(batch)
  /\ wpc \in {"commit", "reply"} => batch # <<>> /\ Len(results) = Len(batch)
  /\ Len(batch) <= BatchSize

Tables ==
  /\ Consistent(db) /\ Consistent(tx)
  /\ InTransaction => Extends(tx, db)

Truthful ==
  /\ \A r \in Request : /\ Justified(db, Content[r], answer[r])
                        /\ Justified(db, Content[r], reply[r])
  /\ InTransaction => \A i \in 1 .. Len(results) : Justified(tx, Content[batch[i]], results[i])
  /\ wpc = "reply" => \A i \in 1 .. Len(results) : Justified(db, Content[batch[i]], results[i])

Attended ==
  /\ \A r \in Request : reply[r] = "dropped" => task = "aborted"
  /\ \A r \in Request :
       (pc[r] = "waiting" /\ reply[r] = "none" /\ task # "aborted") =>
          \/ \E i \in 1 .. Len(queue) : queue[i] = r
          \/ \E i \in 1 .. Len(batch) : batch[i] = r
  /\ (wpc = "ended" /\ task # "aborted") => closed /\ queue = <<>> /\ Reserved = {}

IInv == Types /\ Capacity /\ WriterShape /\ Tables /\ Truthful /\ Attended

\* Every request carries a report.
LEMMA ContentType == ASSUME NEW r \in Request PROVE Content[r] \in Write
  BY WriterAssumption

\* Moving the head of the queue to the end of the batch.
LEMMA AppendNext ==
  ASSUME Types, queue # <<>>
  PROVE  /\ Append(batch, Head(queue)) \in Seq(Request)
         /\ Tail(queue) \in Seq(Request)
<1>1. queue \in Seq(Request) /\ batch \in Seq(Request)
  BY DEF Types
<1>2. Head(queue) \in Request /\ Tail(queue) \in Seq(Request)
  BY <1>1
<1>3. QED
  BY <1>1, <1>2

\* Every step keeps the variables in their types.
LEMMA TypesStep ==
  ASSUME Types, WriterShape, [Next]_vars
  PROVE  Types'
<1>1. ASSUME NEW r \in Request, Authenticate(r)
      PROVE  Types'
  BY <1>1 DEF Authenticate, MoveTo, Finish, Types, HandlerState, Outcome, Result, Verdict, channelVars, writerVars, taskVars
<1>2. ASSUME NEW r \in Request, Reserve(r)
      PROVE  Types'
  BY <1>2 DEF Reserve, MoveTo, Finish, Types, HandlerState, Outcome, channelVars, writerVars, taskVars
<1>3. ASSUME NEW r \in Request, Send(r)
      PROVE  Types'
  BY <1>3 DEF Send, MoveTo, Types, HandlerState, writerVars, taskVars
<1>4. ASSUME NEW r \in Request, Receive(r)
      PROVE  Types'
  BY <1>4 DEF Receive, Finish, Types, HandlerState, Outcome, channelVars, writerVars, taskVars
<1>5. ASSUME NEW r \in Request, Disconnect(r)
      PROVE  Types'
  BY <1>5 DEF Disconnect, Finish, Types, HandlerState, Outcome, channelVars, writerVars, taskVars
<1>6. ASSUME NEW h \in Host, DeleteHost(h)
      PROVE  Types'
  BY <1>6, HostDeletedType DEF DeleteHost, Types, handlerVars, channelVars, writerVars, taskVars
<1>7. CASE WriterTop
  BY <1>7 DEF WriterTop, CloseIf, Requested, Types, WriterState, handlerVars, taskVars
<1>8. CASE WriterRecv
  BY <1>8 DEF WriterRecv, Types, WriterState, handlerVars, taskVars
<1>9. CASE WriterNotified
  BY <1>9 DEF WriterNotified, CloseIf, Requested, Types, WriterState, handlerVars
<1>10. CASE WriterDrained
  BY <1>10 DEF WriterDrained, Types, WriterState, handlerVars, channelVars, taskVars
<1>11. CASE WriterFill
  <2>1. wpc' \in WriterState /\ closed' \in BOOLEAN /\ draining' \in BOOLEAN
    BY <1>11 DEF WriterFill, CloseIf, Requested, Types, WriterState, channelVars
  <2>2. batch' \in Seq(Request) /\ queue' \in Seq(Request)
    <3>1. CASE UNCHANGED <<batch, queue>>
      BY <3>1 DEF Types
    <3>2. CASE queue # <<>> /\ batch' = Append(batch, Head(queue)) /\ queue' = Tail(queue)
      BY <3>2, AppendNext
    <3>3. QED
      BY <1>11, <3>1, <3>2 DEF WriterFill, channelVars
  <2>3. QED
    BY <1>11, <2>1, <2>2 DEF WriterFill, Types, handlerVars, taskVars
<1>12. CASE WriterSelect
  <2>1. batch' \in Seq(Request) /\ queue' \in Seq(Request)
    BY <1>12, AppendNext DEF WriterSelect, Types
  <2>2. QED
    BY <1>12, <2>1 DEF WriterSelect, Types, WriterState, handlerVars, taskVars
<1>13. CASE WriterBegin
  BY <1>13, InitDBType DEF WriterBegin, BatchFailed, Types, WriterState, Result, handlerVars, channelVars, taskVars
<1>14. CASE WriterStore
  <2> DEFINE w == Content[batch[Len(results) + 1]]
  <2>1. batch[Len(results) + 1] \in Request
    BY <1>14 DEF WriterStore, WriterShape, Types
  <2>2. w \in Write
    BY <2>1, ContentType
  <2>3. Stored(tx, w) \in DB /\ VerdictOn(tx, w) \in Result
    BY <2>2, StoredType, VerdictType DEF Types, Result
  <2>4. tx' \in DB
    BY <1>14, <2>3, InitDBType DEF WriterStore, BatchFailed, Types
  <2>5. results' \in Seq(Result)
    <3>1. CASE BatchFailed
      BY <3>1 DEF BatchFailed, Types, Result
    <3>2. ASSUME NEW result \in Result, results' = Append(results, result)
          PROVE  results' \in Seq(Result)
      BY <3>2 DEF Types
    <3>3. QED
      BY <1>14, <2>3, <3>1, <3>2 DEF WriterStore, Result
  <2>6. wpc' \in WriterState
    BY <1>14 DEF WriterStore, BatchFailed, WriterState
  <2>7. QED
    BY <1>14, <2>4, <2>5, <2>6 DEF WriterStore, Types, handlerVars, channelVars, taskVars
<1>15. CASE WriterCommit
  BY <1>15, InitDBType DEF WriterCommit, Recovered, BatchFailed, Types, WriterState, Result, handlerVars, channelVars, taskVars
<1>16. CASE WriterReply
  BY <1>16 DEF WriterReply, WriterShape, Types, WriterState, channelVars, taskVars
<1>17. CASE RequestShutdown
  BY <1>17 DEF RequestShutdown, Types, TaskState, handlerVars, channelVars, writerVars
<1>18. CASE NotifyShutdown
  BY <1>18 DEF NotifyShutdown, Types, TaskState, handlerVars, channelVars, writerVars
<1>19. CASE JoinWriter
  BY <1>19 DEF JoinWriter, Types, TaskState, handlerVars, channelVars, writerVars
<1>20. CASE DrainTimeout
  BY <1>20, InitDBType DEF DrainTimeout, Recovered, Types, TaskState, WriterState, Result
<1>21. CASE Restart
  <2>1. db' \in DB /\ tx' \in DB
    BY <1>21, InitDBType DEF Restart, Recovered, Types
  <2>2. pc' \in [Request -> HandlerState] /\ answer' \in [Request -> Outcome \cup {"none"}]
    BY <1>21 DEF Restart, Types, HandlerState, Outcome
  <2>3. reply' \in [Request -> Result \cup {"none", "dropped"}]
    BY <1>21 DEF Restart
  <2>4. /\ queue' \in Seq(Request) /\ batch' \in Seq(Request) /\ results' \in Seq(Result)
        /\ closed' \in BOOLEAN /\ draining' \in BOOLEAN /\ notified' \in BOOLEAN
        /\ wpc' \in WriterState /\ task' \in TaskState
    <3>1. /\ queue' = <<>> /\ batch' = <<>> /\ results' = <<>>
          /\ closed' = FALSE /\ draining' = FALSE /\ notified' = FALSE
          /\ wpc' = "top" /\ task' = "serving"
      BY <1>21 DEF Restart
    <3>2. queue' \in Seq(Request) /\ batch' \in Seq(Request)
      BY <3>1
    <3>3. results' \in Seq(Result)
      BY <3>1
    <3>4. QED
      BY <3>1, <3>2, <3>3 DEF WriterState, TaskState
  <2>5. QED
    BY <2>1, <2>2, <2>3, <2>4 DEF Types
<1>22. CASE UNCHANGED vars
  BY <1>22 DEF Types, vars, handlerVars, channelVars, writerVars, taskVars
<1>23. QED
  BY <1>1, <1>2, <1>3, <1>4, <1>5, <1>6, <1>7, <1>8, <1>9, <1>10, <1>11, <1>12, <1>13, <1>14, <1>15, <1>16, <1>17, <1>18, <1>19, <1>20, <1>21, <1>22 DEF Next, Handler, Writer, Task

\* Finitely many handlers hold a permit.
LEMMA ReservedFinite ==
  ASSUME Types
  PROVE  IsFiniteSet(Reserved) /\ Cardinality(Reserved) \in Nat
<1>1. IsFiniteSet(Reserved)
  BY WriterAssumption, FS_Subset DEF Reserved
<1>2. QED
  BY <1>1, FS_CardinalityType

\* Only Reserve and Send move a handler into or out of "reserved".
LEMMA CapacityStep ==
  ASSUME Types, Types', Capacity, [Next]_vars
  PROVE  Capacity'
<1>1. /\ IsFiniteSet(Reserved) /\ Cardinality(Reserved) \in Nat
      /\ Len(queue) \in Nat /\ QueueCapacity \in Nat
  BY ReservedFinite, WriterAssumption DEF Types
<1>2. ASSUME Reserved' = Reserved, Len(queue') <= Len(queue), wpc' # "ended" => wpc # "ended"
      PROVE  Capacity'
  <2>1. Len(queue') \in Nat
    BY DEF Types
  <2>2. QED
    BY <1>1, <1>2, <2>1 DEF Capacity
<1>3. ASSUME NEW r \in Request, pc[r] # "reserved", NEW a, a # "reserved", pc' = [pc EXCEPT ![r] = a]
      PROVE  Reserved' = Reserved
  BY <1>3 DEF Reserved, Types
<1>4. ASSUME NEW r \in Request, Reserve(r)
      PROVE  Capacity'
  <2>1. CASE MoveTo(r, "reserved") /\ FreePermit
    <3>1. Reserved' = Reserved \cup {r} /\ r \notin Reserved
      BY <1>4, <2>1 DEF Reserve, MoveTo, Reserved, Types
    <3>2. Cardinality(Reserved') = Cardinality(Reserved) + 1
      BY <1>1, <3>1, FS_AddElement
    <3>3. queue' = queue
      BY <1>4 DEF Reserve, channelVars
    <3>4. QED
      BY <1>1, <2>1, <3>2, <3>3 DEF FreePermit, Capacity
  <2>2. CASE \E a : Finish(r, a)
    <3>1. Reserved' = Reserved
      BY <1>3, <1>4, <2>2 DEF Reserve, Finish
    <3>2. QED
      BY <1>1, <1>2, <1>4, <3>1 DEF Reserve, channelVars, writerVars
  <2>3. QED
    BY <1>4, <2>1, <2>2 DEF Reserve
<1>5. ASSUME NEW r \in Request, Send(r)
      PROVE  Capacity'
  <2>1. Reserved' = Reserved \ {r} /\ r \in Reserved
    BY <1>5 DEF Send, MoveTo, Reserved, Types
  <2>2. Cardinality(Reserved') = Cardinality(Reserved) - 1
    BY <1>1, <2>1, FS_RemoveElement
  <2>3. Len(queue') = Len(queue) + 1
    BY <1>5 DEF Send, Types
  <2>4. wpc' = wpc
    BY <1>5 DEF Send, writerVars
  <2>5. QED
    BY <1>1, <2>2, <2>3, <2>4 DEF Capacity
<1>6. ASSUME NEW r \in Request, Authenticate(r) \/ Receive(r) \/ Disconnect(r)
      PROVE  Capacity'
  <2>1. Reserved' = Reserved
    BY <1>3, <1>6 DEF Authenticate, Receive, Disconnect, Finish, MoveTo
  <2>2. QED
    BY <1>1, <1>2, <1>6, <2>1
       DEF Authenticate, Receive, Disconnect, channelVars, writerVars
<1>7. CASE (\E h \in Host : DeleteHost(h)) \/ RequestShutdown \/ NotifyShutdown \/ JoinWriter \/ UNCHANGED vars
  BY <1>1, <1>2, <1>7
     DEF DeleteHost, RequestShutdown, NotifyShutdown, JoinWriter, Reserved, vars, handlerVars, channelVars, writerVars
<1>8. CASE Writer
  <2>1. Reserved' = Reserved
    BY <1>8 DEF Writer, WriterTop, WriterRecv, WriterNotified, WriterDrained, WriterFill, WriterSelect,
                WriterBegin, WriterStore, WriterCommit, WriterReply, handlerVars, Reserved
  <2>2. wpc # "ended"
    BY <1>8 DEF Writer, WriterTop, WriterRecv, WriterNotified, WriterDrained, WriterFill, WriterSelect,
                WriterBegin, WriterStore, WriterCommit, WriterReply
  <2>3. queue' = queue \/ (queue # <<>> /\ queue' = Tail(queue))
    BY <1>8 DEF Writer, WriterTop, WriterRecv, WriterNotified, WriterDrained, WriterFill, WriterSelect,
                WriterBegin, WriterStore, WriterCommit, WriterReply, channelVars
  <2>4. Len(queue') <= Len(queue)
    BY <1>1, <2>3 DEF Types
  <2>5. QED
    BY <1>2, <2>1, <2>2, <2>4
<1>9. CASE DrainTimeout
  BY <1>9 DEF DrainTimeout, Capacity
<1>10. CASE Restart
  <2>1. Reserved' = {} /\ queue' = <<>>
    BY <1>10 DEF Restart, Reserved
  <2>2. Cardinality(Reserved') = 0 /\ Len(queue') = 0
    BY <2>1, FS_EmptySet
  <2>3. QED
    BY <1>1, <2>2 DEF Capacity
<1>11. QED
  BY <1>4, <1>5, <1>6, <1>7, <1>8, <1>9, <1>10 DEF Next, Handler, Task

\* The control state of the writer says how many reports and results it holds.
LEMMA WriterShapeStep ==
  ASSUME Types, WriterShape, [Next]_vars
  PROVE  WriterShape'
<1>1. /\ BatchSize \in Nat /\ BatchSize >= 1
      /\ batch \in Seq(Request) /\ results \in Seq(Result) /\ queue \in Seq(Request)
      /\ Len(batch) \in Nat /\ Len(results) \in Nat
  BY WriterAssumption DEF Types
<1>2. CASE UNCHANGED writerVars
  BY <1>2 DEF WriterShape, writerVars
<1>3. CASE WriterTop \/ WriterNotified \/ WriterDrained
  BY <1>1, <1>3 DEF WriterTop, WriterNotified, WriterDrained, WriterShape, channelVars
<1>4. CASE WriterRecv
  BY <1>1, <1>4 DEF WriterRecv, WriterShape
<1>5. CASE WriterFill
  <2>1. batch # <<>> /\ results = <<>> /\ results' = results /\ Len(batch) <= BatchSize
    BY <1>5 DEF WriterFill, WriterShape
  <2>2. CASE batch' = batch /\ wpc' = "begin"
    BY <2>1, <2>2 DEF WriterShape
  <2>3. CASE batch' = batch /\ wpc' = "select" /\ Len(batch) # BatchSize
    BY <1>1, <2>1, <2>3 DEF WriterShape
  <2>4. CASE queue # <<>> /\ batch' = Append(batch, Head(queue)) /\ wpc' = "fill" /\ Len(batch) # BatchSize
    <3>1. batch' # <<>> /\ Len(batch') = Len(batch) + 1
      BY <1>1, <2>4
    <3>2. QED
      BY <1>1, <2>1, <2>4, <3>1 DEF WriterShape
  <2>5. QED
    BY <1>5, <2>2, <2>3, <2>4 DEF WriterFill
<1>6. CASE WriterSelect
  <2>1. batch # <<>> /\ results = <<>> /\ results' = results /\ Len(batch) < BatchSize
    BY <1>6 DEF WriterSelect, WriterShape
  <2>2. CASE batch' = batch /\ wpc' = "begin"
    BY <1>1, <2>1, <2>2 DEF WriterShape
  <2>3. CASE queue # <<>> /\ batch' = Append(batch, Head(queue)) /\ wpc' = "fill"
    <3>1. batch' # <<>> /\ Len(batch') = Len(batch) + 1
      BY <1>1, <2>3
    <3>2. QED
      BY <1>1, <2>1, <2>3, <3>1 DEF WriterShape
  <2>4. QED
    BY <1>6, <2>2, <2>3 DEF WriterSelect
<1>7. ASSUME BatchFailed, batch' = batch, batch # <<>>
      PROVE  WriterShape'
  <2>1. Len(results') = Len(batch') /\ wpc' = "reply"
    BY <1>1, <1>7 DEF BatchFailed
  <2>2. QED
    BY <1>7, <2>1 DEF WriterShape
<1>8. CASE WriterBegin
  <2>1. batch' = batch /\ batch # <<>> /\ results = <<>>
    BY <1>8 DEF WriterBegin, WriterShape
  <2>2. CASE wpc' = "store" /\ results' = results
    <3>1. Len(results') = 0 /\ Len(batch') > 0
      BY <1>1, <2>1, <2>2
    <3>2. QED
      BY <2>1, <2>2, <3>1 DEF WriterShape
  <2>3. QED
    BY <1>7, <1>8, <2>1, <2>2 DEF WriterBegin
<1>9. CASE WriterStore
  <2>1. batch' = batch /\ Len(results) < Len(batch) /\ batch # <<>>
    BY <1>1, <1>9 DEF WriterStore, WriterShape
  <2>2. ASSUME NEW result, results' = Append(results, result),
               wpc' = IF Len(results') = Len(batch) THEN "commit" ELSE "store"
        PROVE  WriterShape'
    <3>1. Len(results') = Len(results) + 1
      BY <1>1, <2>2
    <3>2. QED
      BY <1>1, <2>1, <2>2, <3>1 DEF WriterShape
  <2>3. QED
    BY <1>7, <1>9, <2>1, <2>2 DEF WriterStore
<1>10. CASE WriterCommit
  <2>1. batch' = batch /\ batch # <<>> /\ Len(results) = Len(batch)
    BY <1>10 DEF WriterCommit, WriterShape
  <2>2. CASE wpc' = "reply" /\ results' = results
    BY <2>1, <2>2 DEF WriterShape
  <2>3. QED
    BY <1>7, <1>10, <2>1, <2>2 DEF WriterCommit
<1>11. CASE WriterReply
  <2>1. /\ batch # <<>> /\ Len(results) = Len(batch)
        /\ batch' = Tail(batch) /\ results' = Tail(results)
        /\ wpc' = IF batch' = <<>> THEN "top" ELSE "reply"
    BY <1>11 DEF WriterReply, WriterShape
  <2>2. /\ Len(batch') = Len(batch) - 1 /\ Len(results') = Len(results) - 1
        /\ batch' \in Seq(Request) /\ results' \in Seq(Result)
    BY <1>1, <2>1
  <2>3. batch' = <<>> => results' = <<>>
    BY <1>1, <2>1, <2>2
  <2>4. QED
    BY <1>1, <2>1, <2>2, <2>3 DEF WriterShape
<1>12. CASE DrainTimeout \/ Restart
  BY <1>1, <1>12 DEF DrainTimeout, Restart, WriterShape
<1>13. QED
  BY <1>2, <1>3, <1>4, <1>5, <1>6, <1>8, <1>9, <1>10, <1>11, <1>12
     DEF Next, Handler, Authenticate, Reserve, Send, Receive, Disconnect, DeleteHost, Writer, Task,
         RequestShutdown, NotifyShutdown, JoinWriter, vars

\* Both views of the database stay consistent, and the private one extends the
\* committed one while the transaction runs.
LEMMA TablesStep ==
  ASSUME Types, WriterShape, Tables, [Next]_vars
  PROVE  Tables'
<1>1. CASE UNCHANGED <<db, tx, wpc>>
  BY <1>1 DEF Tables, InTransaction
<1>2. CASE UNCHANGED <<db, tx>> /\ ~InTransaction'
  BY <1>2 DEF Tables
<1>3. ASSUME NEW h \in Host, DeleteHost(h)
      PROVE  Tables'
  <2>1. Consistent(HostDeleted(db, h))
    BY HostDeletedConsistent DEF Tables, Types
  <2>2. QED
    BY <1>3, <2>1 DEF DeleteHost, Tables, InTransaction, writerVars
<1>4. ASSUME tx' = InitDB, db' \in {db, tx}, ~InTransaction'
      PROVE  Tables'
  BY <1>4, InitDBConsistent DEF Tables
<1>5. CASE WriterBegin
  <2>1. CASE tx' = db /\ db' = db
    BY <2>1 DEF Tables, Extends
  <2>2. QED
    BY <1>4, <1>5, <2>1 DEF WriterBegin, BatchFailed, InTransaction
<1>6. CASE WriterStore
  <2> DEFINE w == Content[batch[Len(results) + 1]]
  <2>1. w \in Write
    <3>1. batch[Len(results) + 1] \in Request
      BY <1>6 DEF WriterStore, WriterShape, Types
    <3>2. QED
      BY <3>1, ContentType
  <2>2. InTransaction /\ Extends(tx, db) /\ Consistent(tx) /\ Consistent(db)
    BY <1>6 DEF WriterStore, InTransaction, Tables
  <2>3. CASE tx' = Stored(tx, w) /\ db' = db
    <3>1. Consistent(tx') /\ Extends(tx', tx)
      BY <2>1, <2>2, <2>3, StoredConsistent, StoredExtends DEF Types
    <3>2. Extends(tx', db)
      BY <2>2, <3>1, ExtendsTransitive
    <3>3. QED
      BY <2>2, <2>3, <3>1, <3>2 DEF Tables
  <2>4. CASE tx' = tx /\ db' = db
    BY <2>2, <2>4 DEF Tables
  <2>5. QED
    BY <1>4, <1>6, <2>3, <2>4 DEF WriterStore, BatchFailed, InTransaction
<1>7. CASE WriterCommit \/ DrainTimeout \/ Restart
  BY <1>4, <1>7 DEF WriterCommit, DrainTimeout, Restart, Recovered, BatchFailed, InTransaction
<1>8. CASE WriterTop \/ WriterRecv \/ WriterNotified \/ WriterDrained \/ WriterFill \/ WriterSelect \/ WriterReply
  BY <1>2, <1>8 DEF WriterTop, WriterRecv, WriterNotified, WriterDrained, WriterFill, WriterSelect, WriterReply,
                    InTransaction, channelVars
<1>9. QED
  BY <1>1, <1>3, <1>5, <1>6, <1>7, <1>8
     DEF Next, Handler, Authenticate, Reserve, Send, Receive, Disconnect, Writer, Task,
         RequestShutdown, NotifyShutdown, JoinWriter, vars, writerVars

Handed(r) == Justified(db, Content[r], answer[r]) /\ Justified(db, Content[r], reply[r])

\* No step makes a result, a reply or an answer untrue.
LEMMA TruthfulStep ==
  ASSUME Types, WriterShape, Tables, Truthful, [Next]_vars
  PROVE  Truthful'
<1>1. \A r \in Request : Content[r] \in Write /\ Handed(r)
  BY ContentType DEF Truthful, Handed
<1>2. ASSUME \A r \in Request : Handed(r)', wpc' \in {"top", "recv", "fill", "select", "begin", "ended"}
      PROVE  Truthful'
  BY <1>2 DEF Truthful, Handed, InTransaction
<1>3. ASSUME \A r \in Request : Handed(r)', UNCHANGED <<db, writerVars>>
      PROVE  Truthful'
  BY <1>3 DEF Truthful, Handed, InTransaction, writerVars
\* The committed database moves to the writer's view, which extends it.
<1>4. ASSUME db' \in Recovered
      PROVE  \A r \in Request : \A a : Justified(db, Content[r], a) => Justified(db', Content[r], a)
  <2>1. CASE db' = db
    BY <2>1
  <2>2. CASE wpc = "commit" /\ db' = tx
    <3>1. Extends(tx, db)
      BY <2>2 DEF Tables, InTransaction
    <3>2. QED
      BY <1>1, <2>2, <3>1, JustifiedExtends
  <2>3. QED
    BY <1>4, <2>1, <2>2 DEF Recovered
<1>5. ASSUME UNCHANGED <<db, answer, reply>>
      PROVE  \A r \in Request : Handed(r)'
  BY <1>1, <1>5 DEF Handed
<1>6. ASSUME NEW r \in Request, Handler(r)
      PROVE  Truthful'
  <2>1. UNCHANGED <<db, writerVars>>
    BY <1>6 DEF Handler, Authenticate, Reserve, Send, Receive, Disconnect
  <2>2. \A s \in Request : Justified(db, Content[s], answer[s]) /\ Justified(db, Content[s], reply[s])
    BY <1>1 DEF Handed
  <2>3. ASSUME NEW a, Finish(r, a), Justified(db, Content[r], a)
        PROVE  \A s \in Request : Handed(s)'
    <3>1. \A s \in Request \ {r} : answer'[s] = answer[s] /\ reply'[s] = reply[s]
      BY <2>3 DEF Finish, Types
    <3>2. answer'[r] = a /\ reply'[r] = "none"
      BY <2>3 DEF Finish, Types
    <3>3. Justified(db, Content[r], "none")
      BY FailedJustified
    <3>4. QED
      BY <2>1, <2>2, <2>3, <3>1, <3>2, <3>3 DEF Handed
  <2>4. ASSUME NEW s, MoveTo(r, s)
        PROVE  \A q \in Request : Handed(q)'
    BY <1>5, <2>1, <2>4 DEF MoveTo
  <2>5. CASE Authenticate(r)
    <3>1. Content[r].host \notin db.live => Justified(db, Content[r], "unauthorized")
      BY DEF Justified
    <3>2. Justified(db, Content[r], "limited") /\ Justified(db, Content[r], "unavailable")
      BY FailedJustified
    <3>3. \A q \in Request : Handed(q)'
      BY <2>3, <2>4, <2>5, <3>1, <3>2 DEF Authenticate
    <3>4. QED
      BY <1>3, <2>1, <3>3
  <2>6. CASE Receive(r)
    <3>1. Justified(db, Content[r], "unavailable") /\ Justified(db, Content[r], "deadline")
      BY FailedJustified
    <3>2. \A q \in Request : Handed(q)'
      BY <2>2, <2>3, <2>6, <3>1 DEF Receive
    <3>3. QED
      BY <1>3, <2>1, <3>2
  <2>7. CASE Reserve(r) \/ Send(r) \/ Disconnect(r)
    <3>1. \A a \in {"unavailable", "full", "gone"} : Justified(db, Content[r], a)
      BY FailedJustified
    <3>2. \A q \in Request : Handed(q)'
      BY <2>3, <2>4, <2>7, <3>1 DEF Reserve, Send, Disconnect
    <3>3. QED
      BY <1>3, <2>1, <3>2
  <2>8. QED
    BY <1>6, <2>5, <2>6, <2>7 DEF Handler
<1>7. ASSUME NEW h \in Host, DeleteHost(h)
      PROVE  Truthful'
  <2>1. /\ db' = HostDeleted(db, h) /\ ~InTransaction
        /\ UNCHANGED <<answer, reply, wpc, batch, results, tx>>
    BY <1>7 DEF DeleteHost, handlerVars, writerVars
  <2>2. \A r \in Request : \A a : Justified(db, Content[r], a) => Justified(db', Content[r], a)
    BY <1>1, <2>1, JustifiedHostDeleted DEF Types
  <2>3. \A r \in Request : Handed(r)'
    BY <1>1, <2>1, <2>2 DEF Handed
  <2>4. \A i \in 1 .. Len(results) : wpc = "reply" => batch[i] \in Request
    BY DEF Types, WriterShape
  <2>5. wpc = "reply" => \A i \in 1 .. Len(results) : Justified(db', Content[batch[i]], results[i])
    BY <2>2, <2>4 DEF Truthful
  <2>6. QED
    BY <2>1, <2>3, <2>5 DEF Truthful, Handed, InTransaction
<1>8. CASE WriterTop \/ WriterRecv \/ WriterNotified \/ WriterDrained \/ WriterFill \/ WriterSelect
  <2>1. UNCHANGED <<db, answer, reply>> /\ wpc' \in {"top", "recv", "fill", "select", "begin", "ended"}
    BY <1>8 DEF WriterTop, WriterRecv, WriterNotified, WriterDrained, WriterFill, WriterSelect, handlerVars
  <2>2. QED
    BY <1>2, <1>5, <2>1
\* A failed batch claims nothing.
<1>9. ASSUME BatchFailed, batch' = batch, \A r \in Request : Handed(r)'
      PROVE  Truthful'
  <2>1. /\ wpc' = "reply"
        /\ \A i \in 1 .. Len(results') : results'[i] = "failed"
    BY <1>9 DEF BatchFailed, Types
  <2>2. \A i \in 1 .. Len(results') : Justified(db', Content[batch'[i]], results'[i])
    BY <2>1, FailedJustified
  <2>3. QED
    BY <1>9, <2>1, <2>2 DEF Truthful, Handed, InTransaction
<1>10. CASE WriterBegin
  <2>1. UNCHANGED <<db, answer, reply, batch>>
    BY <1>10 DEF WriterBegin, handlerVars
  <2>2. CASE wpc' = "store" /\ results' = results
    <3>1. Len(results') = 0
      BY <1>10, <2>2 DEF WriterBegin, WriterShape
    <3>2. QED
      BY <1>5, <2>1, <2>2, <3>1 DEF Truthful, Handed
  <2>3. QED
    BY <1>5, <1>9, <1>10, <2>1, <2>2 DEF WriterBegin
<1>11. CASE WriterStore
  <2> DEFINE n == Len(results)
             w == Content[batch[n + 1]]
  <2>1. /\ UNCHANGED <<db, answer, reply, batch>>
        /\ wpc = "store" /\ n \in Nat /\ n < Len(batch) /\ results \in Seq(Result)
    BY <1>11 DEF WriterStore, WriterShape, Types, handlerVars
  <2>2. \A i \in 1 .. n + 1 : batch[i] \in Request /\ Content[batch[i]] \in Write
    BY <2>1, ContentType DEF Types
  <2>3. \A i \in 1 .. n : Justified(tx, Content[batch[i]], results[i])
    BY <2>1 DEF Truthful, InTransaction
  <2>4. ASSUME NEW result, results' = Append(results, result), Extends(tx', tx),
               Justified(tx', w, result), wpc' \in {"store", "commit"}
        PROVE  Truthful'
    <3>1. /\ Len(results') = n + 1 /\ results'[n + 1] = result
          /\ \A i \in 1 .. n : results'[i] = results[i]
      BY <2>1, <2>4
    <3>2. \A i \in 1 .. n : Justified(tx', Content[batch[i]], results'[i])
      BY <2>1, <2>2, <2>3, <2>4, <3>1, JustifiedExtends
    <3>3. \A i \in 1 .. Len(results') : Justified(tx', Content[batch'[i]], results'[i])
      BY <2>1, <2>4, <3>1, <3>2
    <3>4. QED
      BY <1>5, <2>1, <2>4, <3>3 DEF Truthful, Handed
  <2>5. w \in Write /\ tx \in DB
    BY <2>1, <2>2 DEF Types
  <2>6. CASE tx' = Stored(tx, w) /\ results' = Append(results, VerdictOn(tx, w)) /\ wpc' \in {"store", "commit"}
    BY <2>4, <2>5, <2>6, StoredExtends, VerdictJustified
  <2>7. CASE tx' = tx /\ results' = Append(results, "failed") /\ wpc' \in {"store", "commit"}
    <3>1. Extends(tx', tx) /\ Justified(tx', w, "failed")
      BY <2>7, FailedJustified DEF Extends
    <3>2. QED
      BY <2>4, <2>7, <3>1
  <2>8. QED
    BY <1>5, <1>9, <1>11, <2>1, <2>6, <2>7 DEF WriterStore
<1>12. CASE WriterCommit
  <2>1. UNCHANGED <<answer, reply, batch>> /\ wpc = "commit" /\ db' \in Recovered
    BY <1>12 DEF WriterCommit, Recovered, handlerVars
  <2>2. \A r \in Request : Handed(r)'
    BY <1>1, <1>4, <2>1 DEF Handed
  <2>3. CASE db' = tx /\ results' = results /\ wpc' = "reply"
    <3>1. \A i \in 1 .. Len(results) : Justified(tx, Content[batch[i]], results[i])
      BY <2>1 DEF Truthful, InTransaction
    <3>2. QED
      BY <2>1, <2>2, <2>3, <3>1 DEF Truthful, Handed, InTransaction
  <2>4. QED
    BY <1>9, <1>12, <2>1, <2>2, <2>3 DEF WriterCommit
<1>13. CASE WriterReply
  <2>1. /\ UNCHANGED <<db, answer>> /\ wpc = "reply" /\ ~InTransaction'
        /\ batch' = Tail(batch) /\ results' = Tail(results)
        /\ batch # <<>> /\ results # <<>> /\ Len(results) = Len(batch)
        /\ batch \in Seq(Request) /\ results \in Seq(Result)
    BY <1>13 DEF WriterReply, WriterShape, Types, InTransaction
  <2>2. \A i \in 1 .. Len(results) : Justified(db, Content[batch[i]], results[i])
    BY <2>1 DEF Truthful
  <2>3. Justified(db, Content[Head(batch)], Head(results)) /\ Head(batch) \in Request
    BY <2>1, <2>2
  <2>4. \A r \in Request : reply'[r] = reply[r] \/ (r = Head(batch) /\ reply'[r] = Head(results))
    BY <1>13, <2>3 DEF WriterReply, Types
  <2>5. \A r \in Request : Handed(r)'
    BY <1>1, <2>1, <2>3, <2>4 DEF Handed
  <2>6. \A i \in 1 .. Len(results') : /\ i + 1 \in 1 .. Len(results)
                                      /\ batch'[i] = batch[i + 1] /\ results'[i] = results[i + 1]
    BY <2>1
  <2>7. \A i \in 1 .. Len(results') : Justified(db', Content[batch'[i]], results'[i])
    BY <2>1, <2>2, <2>6
  <2>8. QED
    BY <2>1, <2>5, <2>7 DEF Truthful, Handed
<1>14. CASE DrainTimeout
  <2>1. /\ answer' = answer /\ db' \in Recovered /\ wpc' = "ended"
        /\ \A r \in Request : reply'[r] = reply[r] \/ reply'[r] = "dropped"
    BY <1>14 DEF DrainTimeout
  <2>2. \A r \in Request : Handed(r)'
    BY <1>1, <1>4, <2>1, FailedJustified DEF Handed
  <2>3. QED
    BY <1>2, <2>1, <2>2
<1>15. CASE Restart
  <2>1. /\ db' \in Recovered /\ wpc' = "top"
        /\ \A r \in Request : /\ reply'[r] = "none"
                              /\ answer'[r] = answer[r] \/ answer'[r] = "gone"
    BY <1>15 DEF Restart
  <2>2. \A r \in Request : Handed(r)'
    BY <1>1, <1>4, <2>1, FailedJustified DEF Handed
  <2>3. QED
    BY <1>2, <2>1, <2>2
<1>16. CASE RequestShutdown \/ NotifyShutdown \/ JoinWriter \/ UNCHANGED vars
  <2>1. UNCHANGED <<db, handlerVars, writerVars>>
    BY <1>16 DEF RequestShutdown, NotifyShutdown, JoinWriter, vars
  <2>2. QED
    BY <1>3, <1>5, <2>1 DEF handlerVars
<1>17. QED
  BY <1>6, <1>7, <1>8, <1>10, <1>11, <1>12, <1>13, <1>14, <1>15, <1>16 DEF Next, Writer, Task

Within(s, r) == \E i \in 1 .. Len(s) : s[i] = r

\* Appending loses no member and adds the new one.
LEMMA WithinAppend ==
  ASSUME NEW s \in Seq(Request), NEW x \in Request, NEW r
  PROVE  Within(Append(s, x), r) <=> Within(s, r) \/ r = x
<1>1. Len(Append(s, x)) = Len(s) + 1 /\ Len(s) \in Nat
  OBVIOUS
<1>2. \A i \in 1 .. Len(s) : Append(s, x)[i] = s[i]
  OBVIOUS
<1>3. Append(s, x)[Len(s) + 1] = x
  OBVIOUS
<1>4. QED
  BY <1>1, <1>2, <1>3 DEF Within

\* A member is the head or in the tail.
LEMMA WithinTail ==
  ASSUME NEW s \in Seq(Request), s # <<>>, NEW r, Within(s, r)
  PROVE  r = Head(s) \/ Within(Tail(s), r)
<1>1. PICK i \in 1 .. Len(s) : s[i] = r
  BY DEF Within
<1>2. CASE i = 1
  BY <1>1, <1>2
<1>3. CASE i # 1
  <2>1. i - 1 \in 1 .. Len(Tail(s)) /\ Tail(s)[i - 1] = r
    BY <1>1, <1>3
  <2>2. QED
    BY <2>1 DEF Within
<1>4. QED
  BY <1>2, <1>3

Waits(r)   == pc[r] = "waiting" /\ reply[r] = "none" /\ task # "aborted"
InHands(r) == Within(queue, r) \/ Within(batch, r)

\* A waiting handler stays queued or batched until it has its reply.
LEMMA AttendedStep ==
  ASSUME Types, WriterShape, Attended, [Next]_vars
  PROVE  Attended'
<1>1. \A r \in Request : Waits(r) => InHands(r)
  BY DEF Attended, Waits, InHands, Within
<1>2. ASSUME \A r \in Request : Waits(r)' => InHands(r)',
             \A r \in Request : reply'[r] = "dropped" => task' = "aborted",
             wpc' = "ended" /\ task' # "aborted" => closed' /\ queue' = <<>> /\ Reserved' = {}
      PROVE  Attended'
  BY <1>2 DEF Attended, Waits, InHands, Within
<1>3. \A r \in Request : reply[r] = "dropped" => task = "aborted"
  BY DEF Attended
<1>4. wpc = "ended" /\ task # "aborted" => closed /\ queue = <<>> /\ Reserved = {}
  BY DEF Attended
<1>5. queue \in Seq(Request) /\ batch \in Seq(Request)
  BY DEF Types
<1>6. ASSUME NEW r \in Request, Authenticate(r) \/ Reserve(r) \/ Receive(r) \/ Disconnect(r)
      PROVE  Attended'
  <2>1. UNCHANGED <<queue, closed, wpc, batch, task>>
    BY <1>6 DEF Authenticate, Reserve, Receive, Disconnect, channelVars, writerVars, taskVars
  <2>2. PICK a : \/ MoveTo(r, a) /\ a \in {"admitted", "reserved"}
                 \/ Finish(r, a)
    BY <1>6 DEF Authenticate, Reserve, Receive, Disconnect
  <2>3. \A s \in Request : /\ pc'[s] = "waiting" => pc[s] = "waiting" /\ reply'[s] = reply[s]
                           /\ reply'[s] = "dropped" => reply[s] = "dropped"
    BY <2>2 DEF MoveTo, Finish, Types
  <2>4. ASSUME wpc = "ended", task # "aborted"
        PROVE  Reserved' = {}
    <3>1. closed /\ Reserved = {}
      BY <1>4, <2>4
    <3>2. \A s \in Request : pc'[s] = "reserved" => pc[s] = "reserved"
      BY <1>6, <3>1 DEF Authenticate, Reserve, Receive, Disconnect, MoveTo, Finish, Types
    <3>3. QED
      BY <3>1, <3>2 DEF Reserved
  <2>5. \A s \in Request : Waits(s)' => InHands(s)'
    BY <1>1, <2>1, <2>3 DEF Waits, InHands, Within
  <2>6. QED
    BY <1>2, <1>3, <1>4, <2>1, <2>3, <2>4, <2>5
<1>7. ASSUME NEW r \in Request, Send(r)
      PROVE  Attended'
  <2>1. /\ queue' = Append(queue, r) /\ UNCHANGED <<reply, closed, wpc, batch, task>>
        /\ r \in Reserved
        /\ pc' = [pc EXCEPT ![r] = "waiting"]
    BY <1>7 DEF Send, MoveTo, writerVars, taskVars, Reserved
  <2>2. \A s \in Request : InHands(s) \/ s = r => InHands(s)'
    BY <1>5, <2>1, WithinAppend DEF InHands
  <2>3. \A s \in Request \ {r} : pc'[s] = pc[s]
    BY <2>1 DEF Types
  <2>4. \A s \in Request : Waits(s)' => InHands(s)'
    BY <1>1, <2>1, <2>2, <2>3 DEF Waits
  <2>5. QED
    BY <1>2, <1>3, <1>4, <2>1, <2>4
\* Steps that leave every handler, the queue and the batch to those who had them.
<1>8. ASSUME UNCHANGED <<pc, reply, queue, batch>>, task' = "aborted" <=> task = "aborted",
             wpc' = "ended" => wpc = "ended" /\ closed' = closed
      PROVE  Attended'
  <2>1. Reserved' = Reserved
    BY <1>8 DEF Reserved
  <2>2. \A s \in Request : Waits(s)' => InHands(s)'
    BY <1>1, <1>8 DEF Waits, InHands, Within
  <2>3. QED
    BY <1>2, <1>3, <1>4, <1>8, <2>1, <2>2
<1>9. CASE (\E h \in Host : DeleteHost(h)) \/ RequestShutdown \/ NotifyShutdown \/ JoinWriter \/ UNCHANGED vars
  BY <1>8, <1>9
     DEF DeleteHost, RequestShutdown, NotifyShutdown, JoinWriter, vars, handlerVars, channelVars, writerVars, taskVars
<1>10. CASE WriterTop \/ WriterNotified
  BY <1>8, <1>10 DEF WriterTop, WriterNotified, handlerVars, taskVars
<1>11. CASE WriterBegin \/ WriterStore \/ WriterCommit
  BY <1>8, <1>11 DEF WriterBegin, WriterStore, WriterCommit, BatchFailed, handlerVars, channelVars, taskVars
<1>12. CASE WriterDrained
  <2>1. /\ UNCHANGED <<pc, reply, queue, batch, task, closed>>
        /\ closed /\ queue = <<>> /\ Reserved = {}
    BY <1>12 DEF WriterDrained, Exhausted, handlerVars, channelVars, taskVars
  <2>2. Reserved' = Reserved
    BY <2>1 DEF Reserved
  <2>3. \A s \in Request : Waits(s)' => InHands(s)'
    BY <1>1, <2>1 DEF Waits, InHands, Within
  <2>4. QED
    BY <1>2, <1>3, <2>1, <2>2, <2>3
\* A report moves from the head of the queue to the end of the batch.
<1>13. ASSUME UNCHANGED <<pc, reply, task>>, queue # <<>>, queue' = Tail(queue),
              batch' = Append(batch, Head(queue)), wpc' # "ended"
       PROVE  Attended'
  <2>1. Head(queue) \in Request
    BY <1>5, <1>13
  <2>2. \A s \in Request : InHands(s) => InHands(s)'
    BY <1>5, <1>13, <2>1, WithinAppend, WithinTail DEF InHands
  <2>3. \A s \in Request : Waits(s)' => InHands(s)'
    BY <1>1, <1>13, <2>2 DEF Waits
  <2>4. QED
    BY <1>2, <1>3, <1>13, <2>3
<1>14. CASE WriterRecv
  <2>1. batch = <<>>
    BY <1>14 DEF WriterRecv, WriterShape
  <2>2. batch' = Append(batch, Head(queue))
    BY <1>14, <2>1 DEF WriterRecv
  <2>3. QED
    BY <1>13, <1>14, <2>2 DEF WriterRecv, handlerVars, taskVars
<1>15. CASE WriterFill \/ WriterSelect
  <2>1. UNCHANGED <<pc, reply, task>> /\ wpc' # "ended"
    BY <1>15 DEF WriterFill, WriterSelect, handlerVars, taskVars
  <2>2. \/ UNCHANGED <<queue, batch>>
        \/ queue # <<>> /\ queue' = Tail(queue) /\ batch' = Append(batch, Head(queue))
    BY <1>15 DEF WriterFill, WriterSelect, channelVars
  <2>3. QED
    BY <1>8, <1>13, <2>1, <2>2
<1>16. CASE WriterReply
  <2>1. /\ UNCHANGED <<pc, queue, task>> /\ wpc' # "ended" /\ batch' = Tail(batch)
        /\ batch # <<>> /\ results # <<>> /\ Head(results) \in Result /\ Head(batch) \in Request
    BY <1>16 DEF WriterReply, WriterShape, Types, channelVars, taskVars
  <2>2. \A s \in Request : \/ reply'[s] = reply[s] /\ (s = Head(batch) => pc[s] # "waiting")
                           \/ reply'[s] = reply[s] /\ s # Head(batch)
                           \/ s = Head(batch) /\ reply'[s] = Head(results)
    BY <1>16, <2>1 DEF WriterReply, Types
  <2>3. Head(results) # "none" /\ Head(results) # "dropped"
    BY <2>1 DEF Result, Verdict
  <2>4. \A s \in Request : InHands(s) => s = Head(batch) \/ InHands(s)'
    BY <1>5, <2>1, WithinTail DEF InHands
  <2>5. \A s \in Request : Waits(s)' => InHands(s)'
    BY <1>1, <2>1, <2>2, <2>3, <2>4 DEF Waits
  <2>6. \A s \in Request : reply'[s] = "dropped" => reply[s] = "dropped"
    BY <2>2, <2>3
  <2>7. QED
    BY <1>2, <1>3, <2>1, <2>5, <2>6
<1>17. CASE DrainTimeout
  <2>1. task' = "aborted"
    BY <1>17 DEF DrainTimeout
  <2>2. QED
    BY <1>2, <2>1 DEF Waits
<1>18. CASE Restart
  <2>1. /\ wpc' = "top" /\ \A s \in Request : pc'[s] # "waiting" /\ reply'[s] = "none"
    BY <1>18 DEF Restart
  <2>2. QED
    BY <1>2, <2>1 DEF Waits
<1>19. QED
  BY <1>6, <1>7, <1>9, <1>10, <1>11, <1>12, <1>14, <1>15, <1>16, <1>17, <1>18
     DEF Next, Handler, Writer, Task


(***************************************************************************)
(* The inductive invariant, and what follows from it.                      *)
(***************************************************************************)
\* A freshly started server on an empty database satisfies the invariant.
LEMMA InitIInv == Init => IInv
<1> SUFFICES ASSUME Init PROVE IInv
  OBVIOUS
<1>1. InitDB \in DB /\ Consistent(InitDB)
  BY InitDBType, InitDBConsistent
<1>2. db = InitDB /\ tx = InitDB /\ queue = <<>> /\ batch = <<>> /\ results = <<>> /\ wpc = "top"
  BY DEF Init
<1>3. queue \in Seq(Request)
  BY <1>2
<1>4. batch \in Seq(Request)
  BY <1>2
<1>5. results \in Seq(Result)
  BY <1>2
<1>6. Types
  BY <1>1, <1>3, <1>4, <1>5 DEF Init, Types, HandlerState, WriterState, TaskState
<1>7. Reserved = {} /\ Cardinality({}) = 0
  BY FS_EmptySet DEF Init, Reserved
<1>8. Capacity
  <2>1. QueueCapacity \in Nat
    BY WriterAssumption
  <2>2. Len(queue) = 0 /\ Cardinality(Reserved) = 0
    BY <1>2, <1>7
  <2>3. QED
    BY <2>1, <2>2 DEF Capacity
<1>9. WriterShape
  <2>1. BatchSize \in Nat /\ Len(batch) = 0
    BY <1>2, WriterAssumption
  <2>2. QED
    BY <1>2, <2>1 DEF WriterShape
<1>10. Tables
  BY <1>1, <1>2 DEF Tables, InTransaction
<1>11. Truthful
  BY <1>2 DEF Init, Truthful, Justified, InTransaction
<1>12. Attended
  BY <1>2 DEF Init, Attended
<1>13. QED
  BY <1>6, <1>8, <1>9, <1>10, <1>11, <1>12 DEF IInv

\* Every step of the server preserves the invariant.
LEMMA IInvStep == IInv /\ [Next]_vars => IInv'
<1> SUFFICES ASSUME IInv, [Next]_vars PROVE IInv'
  OBVIOUS
<1>1. Types /\ Capacity /\ WriterShape /\ Tables /\ Truthful /\ Attended
  BY DEF IInv
<1>2. Types'
  BY <1>1, TypesStep
<1>3. Capacity'
  BY <1>1, <1>2, CapacityStep
<1>4. WriterShape'
  BY <1>1, WriterShapeStep
<1>5. Tables'
  BY <1>1, TablesStep
<1>6. Truthful'
  BY <1>1, TruthfulStep
<1>7. Attended'
  BY <1>1, AttendedStep
<1>8. QED
  BY <1>2, <1>3, <1>4, <1>5, <1>6, <1>7 DEF IInv

\* The invariant gives the checked properties.
LEMMA IInvGives ==
  IInv => TypeOK /\ StoreConsistent /\ AckDurable /\ RejectionsJustified /\ GracefulDrain
<1> SUFFICES ASSUME IInv
             PROVE  TypeOK /\ StoreConsistent /\ AckDurable /\ RejectionsJustified /\ GracefulDrain
  OBVIOUS
<1>1. Types /\ Capacity /\ WriterShape /\ Tables /\ Truthful /\ Attended
  BY DEF IInv
<1>2. TypeOK
  <2>1. batch \in Seq(Request) /\ results \in Seq(Result) /\ BatchSize \in Nat /\ wpc \in WriterState
    BY <1>1, WriterAssumption DEF Types
  <2>2. Len(batch) \in Nat /\ Len(results) \in Nat /\ Len(<<>>) = 0
    BY <2>1
  <2>3. Len(results) <= Len(batch)
    BY <1>1, <2>1, <2>2 DEF WriterShape, WriterState
  <2>4. QED
    BY <1>1, <2>3 DEF Types, Capacity, WriterShape, TypeOK
<1>3. StoreConsistent
  BY <1>1 DEF Tables, StoreConsistent
<1>4. AckDurable
  BY <1>1 DEF Truthful, Justified, AckDurable
<1>5. RejectionsJustified
  BY <1>1 DEF Truthful, RejectionsJustified
<1>6. GracefulDrain
  <2>1. SUFFICES ASSUME wpc = "ended", task # "aborted"
                 PROVE  /\ queue = <<>> /\ Reserved = {}
                        /\ \A r \in Request : pc[r] = "waiting" => reply[r] \in Result
    BY DEF GracefulDrain
  <2>2. queue = <<>> /\ Reserved = {} /\ batch = <<>>
    BY <1>1, <2>1 DEF Attended, WriterShape
  <2>3. \A i \in 1 .. Len(queue) : FALSE
    BY <2>2
  <2>4. \A i \in 1 .. Len(batch) : FALSE
    BY <2>2
  <2>5. ASSUME NEW r \in Request, pc[r] = "waiting"
        PROVE  reply[r] \in Result
    <3>1. reply[r] \in Result \cup {"none", "dropped"}
      BY <1>1 DEF Types
    <3>2. reply[r] # "none"
      BY <1>1, <2>1, <2>3, <2>4, <2>5 DEF Attended
    <3>3. reply[r] # "dropped"
      BY <1>1, <2>1 DEF Attended
    <3>4. QED
      BY <3>1, <3>2, <3>3
  <2>6. QED
    BY <2>2, <2>5
<1>7. QED
  BY <1>2, <1>3, <1>4, <1>5, <1>6

\* The invariant holds in every state the server can reach.
LEMMA Invariance == Spec => []IInv
  BY InitIInv, IInvStep, PTL DEF Spec

\* Types and the two resource bounds: however many handlers reserve slots at
\* once, a running writer has at most QueueCapacity reports queued or promised a
\* slot, and no transaction takes more than BatchSize of them.
THEOREM TypeCorrect == Spec => []TypeOK
<1>1. IInv => TypeOK
  BY IInvGives
<1>2. QED
  BY <1>1, Invariance, PTL

\* The tables are consistent whatever the order, the retries, the batches, the
\* crashes and the deletions: the latest pointer of a host names its newest
\* report, which alone keeps its payload.
THEOREM StoreIsConsistent == Spec => []StoreConsistent
<1>1. IInv => StoreConsistent
  BY IInvGives
<1>2. QED
  BY <1>1, Invariance, PTL

\* A report whose client was told 202 is in the committed database as long as
\* its host exists, for every number of requests, batch and crash.
THEOREM AcknowledgedIsDurable == Spec => []AckDurable
<1>1. IInv => AckDurable
  BY IInvGives
<1>2. QED
  BY <1>1, Invariance, PTL

\* A 401 or a 409 is never the product of a race, a batch or a crash.
THEOREM RejectedForAReason == Spec => []RejectionsJustified
<1>1. IInv => RejectionsJustified
  BY IInvGives
<1>2. QED
  BY <1>1, Invariance, PTL

\* A writer that ends by itself has answered everything that was accepted into
\* its queue, the permits still outstanding when it was closed included.
THEOREM DrainIsGraceful == Spec => []GracefulDrain
<1>1. IInv => GracefulDrain
  BY IInvGives
<1>2. QED
  BY <1>1, Invariance, PTL

(***************************************************************************)
(* At most one acceptance.  Whoever was, or is about to be, told accepted  *)
(* has a claim; a new claim is made only where the id is not stored, that  *)
(* is, where the host of every earlier claim on the id is gone.            *)
(***************************************************************************)
Claims(r) ==
  \/ answer[r] = "accepted" \/ reply[r] = "accepted"
  \/ \E i \in 1 .. Len(results) : batch[i] = r /\ results[i] = "accepted"

Rivals(r, s) == r # s /\ Content[r].id = Content[s].id

Apart(r, s, L) == Content[r].host # Content[s].host /\ ~({Content[r].host, Content[s].host} \subseteq L)

ClaimsApart == \A r, s \in Request : (Rivals(r, s) /\ Claims(r) /\ Claims(s)) => Apart(r, s, db.live)

\* A step that makes no new claim.
LEMMA ClaimsStay ==
  ASSUME ClaimsApart, db'.live \subseteq db.live, \A r \in Request : Claims(r)' => Claims(r)
  PROVE  ClaimsApart'
<1>1. ASSUME NEW r, NEW s, Apart(r, s, db.live)
      PROVE  Apart(r, s, db'.live)
  BY <1>1 DEF Apart
<1>2. QED
  BY <1>1 DEF ClaimsApart, Rivals, Apart

\* Claims that come from what the writer holds and what was handed out.
LEMMA ClaimsKept ==
  ASSUME Types, UNCHANGED <<answer, reply>>,
         results' = <<>> \/ UNCHANGED <<batch, results>> \/ BatchFailed, NEW r \in Request, Claims(r)'
  PROVE  Claims(r)
<1>1. CASE results' = <<>>
  BY <1>1 DEF Claims
<1>2. CASE BatchFailed
  <2>1. \A i \in 1 .. Len(results') : results'[i] = "failed"
    BY <1>2 DEF BatchFailed, Types
  <2>2. QED
    BY <2>1 DEF Claims
<1>3. QED
  BY <1>1, <1>2 DEF Claims

\* No step gives two requests a claim on one id of one host, nor of two hosts
\* that are both still there.
LEMMA ClaimsStep ==
  ASSUME IInv, ClaimsApart, [Next]_vars
  PROVE  ClaimsApart'
<1>1. Types /\ WriterShape /\ Tables /\ Truthful
  BY DEF IInv
<1>2. ASSUME NEW r \in Request, Handler(r)
      PROVE  ClaimsApart'
  <2>1. UNCHANGED <<db, batch, results>>
    BY <1>2 DEF Handler, Authenticate, Reserve, Send, Receive, Disconnect, writerVars
  <2>2. ASSUME NEW a, Finish(r, a), a = "accepted" => reply[r] = "accepted", NEW q \in Request, Claims(q)'
        PROVE  Claims(q)
    BY <1>1, <2>1, <2>2 DEF Finish, Claims, Types
  <2>3. ASSUME NEW x, MoveTo(r, x), NEW q \in Request, Claims(q)'
        PROVE  Claims(q)
    BY <2>1, <2>3 DEF MoveTo, Claims
  <2>4. \/ \E a : Finish(r, a) /\ (a = "accepted" => reply[r] = "accepted")
        \/ \E x : MoveTo(r, x)
    BY <1>2 DEF Handler, Authenticate, Reserve, Send, Receive, Disconnect
  <2>5. QED
    BY <2>1, <2>2, <2>3, <2>4, ClaimsStay
<1>3. ASSUME NEW h \in Host, DeleteHost(h)
      PROVE  ClaimsApart'
  <2>1. db'.live \subseteq db.live
    BY <1>3 DEF DeleteHost, HostDeleted
  <2>2. \A q \in Request : Claims(q)' => Claims(q)
    BY <1>3 DEF DeleteHost, handlerVars, writerVars, Claims
  <2>3. QED
    BY <2>1, <2>2, ClaimsStay
<1>4. CASE WriterTop \/ WriterRecv \/ WriterNotified \/ WriterDrained \/ WriterFill \/ WriterSelect
  <2>1. UNCHANGED <<db, answer, reply, results>> /\ results = <<>>
    BY <1>1, <1>4 DEF WriterTop, WriterRecv, WriterNotified, WriterDrained, WriterFill, WriterSelect,
                      handlerVars, WriterShape
  <2>2. \A q \in Request : Claims(q)' => Claims(q)
    BY <1>1, <2>1, ClaimsKept
  <2>3. QED
    BY <2>1, <2>2, ClaimsStay
<1>5. CASE WriterBegin \/ WriterCommit
  <2>1. UNCHANGED <<answer, reply>> /\ (UNCHANGED <<batch, results>> \/ BatchFailed)
    BY <1>5 DEF WriterBegin, WriterCommit, handlerVars
  <2>2. \A q \in Request : Claims(q)' => Claims(q)
    BY <1>1, <2>1, ClaimsKept
  <2>3. db'.live = db.live
    BY <1>1, <1>5 DEF WriterBegin, WriterCommit, Recovered, Tables, Extends, InTransaction
  <2>4. QED
    BY <2>2, <2>3, ClaimsStay
<1>6. CASE WriterStore
  <2> DEFINE n == Len(results)
             t == batch[n + 1]
             w == Content[t]
  <2>1. /\ UNCHANGED <<db, answer, reply, batch>>
        /\ wpc = "store" /\ n \in Nat /\ n < Len(batch) /\ results \in Seq(Result)
    BY <1>1, <1>6 DEF WriterStore, WriterShape, Types, handlerVars
  <2>2. t \in Request /\ w \in Write
    BY <1>1, <2>1, ContentType DEF Types
  <2>3. CASE BatchFailed
    <3>1. \A q \in Request : Claims(q)' => Claims(q)
      BY <1>1, <2>1, <2>3, ClaimsKept
    <3>2. QED
      BY <2>1, <3>1, ClaimsStay
  <2>4. ASSUME NEW result, results' = Append(results, result), NEW q \in Request, Claims(q)'
        PROVE  Claims(q) \/ (q = t /\ result = "accepted")
    <3>1. /\ Len(results') = n + 1 /\ results'[n + 1] = result
          /\ \A i \in 1 .. n : results'[i] = results[i]
      BY <2>1, <2>4
    <3>2. QED
      BY <2>1, <2>4, <3>1 DEF Claims
  <2>5. CASE results' = Append(results, "failed")
    <3>1. \A q \in Request : Claims(q)' => Claims(q)
      BY <2>4, <2>5
    <3>2. QED
      BY <2>1, <3>1, ClaimsStay
  <2>6. CASE results' = Append(results, VerdictOn(tx, w)) /\ VerdictOn(tx, w) # "accepted"
    <3>1. \A q \in Request : Claims(q)' => Claims(q)
      BY <2>4, <2>6
    <3>2. QED
      BY <2>1, <3>1, ClaimsStay
  <2>7. CASE results' = Append(results, VerdictOn(tx, w)) /\ VerdictOn(tx, w) = "accepted"
    <3>1. tx.row[w.id] = None /\ w.host \in tx.live
      BY <2>7 DEF VerdictOn
    <3>2. Extends(tx, db) /\ tx.live = db.live
      BY <1>1, <2>1 DEF Tables, InTransaction, Extends
    <3>3. ASSUME NEW q \in Request, Claims(q)
          PROVE  Justified(tx, Content[q], "accepted")
      <4>1. CASE answer[q] = "accepted" \/ reply[q] = "accepted"
        <5>1. Justified(db, Content[q], "accepted")
          BY <1>1, <4>1 DEF Truthful
        <5>2. QED
          BY <3>2, <5>1, ContentType, JustifiedExtends
      <4>2. CASE \E i \in 1 .. Len(results) : batch[i] = q /\ results[i] = "accepted"
        BY <1>1, <2>1, <4>2 DEF Truthful, InTransaction
      <4>3. QED
        BY <3>3, <4>1, <4>2 DEF Claims
    <3>4. ASSUME NEW q \in Request, Claims(q), Content[q].id = w.id
          PROVE  Content[q].host \notin db.live
      BY <3>1, <3>2, <3>3, <3>4 DEF Justified, Kept
    <3>5. ASSUME NEW q \in Request, Claims(q), Rivals(q, t)
          PROVE  Apart(q, t, db.live) /\ Apart(t, q, db.live)
      BY <3>1, <3>2, <3>4, <3>5 DEF Rivals, Apart
    <3>6. \A q \in Request : Claims(q)' => Claims(q) \/ q = t
      BY <2>4, <2>7
    <3>7. QED
      BY <2>1, <2>2, <3>5, <3>6 DEF ClaimsApart, Rivals, Apart
  <2>8. QED
    BY <1>6, <2>3, <2>5, <2>6, <2>7 DEF WriterStore
<1>7. CASE WriterReply
  <2>1. /\ UNCHANGED <<db, answer>>
        /\ batch' = Tail(batch) /\ results' = Tail(results)
        /\ batch # <<>> /\ results # <<>> /\ Len(results) = Len(batch)
        /\ batch \in Seq(Request) /\ results \in Seq(Result)
    BY <1>1, <1>7 DEF WriterReply, WriterShape, Types
  <2>2. Head(batch) = batch[1] /\ Head(results) = results[1] /\ 1 \in 1 .. Len(results)
    BY <2>1
  <2>3. \A q \in Request : reply'[q] = reply[q] \/ (q = Head(batch) /\ reply'[q] = Head(results))
    BY <1>1, <1>7, <2>1 DEF WriterReply, Types
  <2>4. \A i \in 1 .. Len(results') : /\ i + 1 \in 1 .. Len(results)
                                      /\ batch'[i] = batch[i + 1] /\ results'[i] = results[i + 1]
    BY <2>1
  <2>5. \A q \in Request : Claims(q)' => Claims(q)
    BY <2>1, <2>2, <2>3, <2>4 DEF Claims
  <2>6. QED
    BY <2>1, <2>5, ClaimsStay
<1>8. CASE DrainTimeout \/ Restart
  <2>1. db'.live = db.live
    BY <1>1, <1>8 DEF DrainTimeout, Restart, Recovered, Tables, Extends, InTransaction
  <2>2. /\ results' = <<>>
        /\ \A q \in Request : /\ answer'[q] = "accepted" => answer[q] = "accepted"
                              /\ reply'[q] = "accepted" => reply[q] = "accepted"
    BY <1>8 DEF DrainTimeout, Restart
  <2>3. \A q \in Request : Claims(q)' => Claims(q)
    BY <2>2 DEF Claims
  <2>4. QED
    BY <2>1, <2>3, ClaimsStay
<1>9. CASE RequestShutdown \/ NotifyShutdown \/ JoinWriter \/ UNCHANGED vars
  <2>1. UNCHANGED <<db, answer, reply, batch, results>>
    BY <1>9 DEF RequestShutdown, NotifyShutdown, JoinWriter, vars, handlerVars, writerVars
  <2>2. \A q \in Request : Claims(q)' => Claims(q)
    BY <2>1 DEF Claims
  <2>3. QED
    BY <2>1, <2>2, ClaimsStay
<1>10. QED
  BY <1>2, <1>3, <1>4, <1>5, <1>6, <1>7, <1>8, <1>9 DEF Next, Writer, Task

\* Two attempts to deliver one report are never both told accepted, whatever
\* queue, batches, lost answers and crashes lie between them.
THEOREM AcceptedAtMostOnce == Spec => []AcceptedOnce
<1>1. Init => ClaimsApart
  <2> SUFFICES ASSUME Init, NEW r \in Request PROVE ~Claims(r)
    BY DEF ClaimsApart
  <2>1. answer[r] = "none" /\ reply[r] = "none" /\ results = <<>>
    BY DEF Init
  <2>2. QED
    BY <2>1 DEF Claims
<1>2. IInv /\ ClaimsApart /\ [Next]_vars => ClaimsApart'
  BY ClaimsStep
<1>3. ClaimsApart => AcceptedOnce
  BY DEF ClaimsApart, AcceptedOnce, Claims, Rivals, Apart
<1>4. QED
  BY <1>1, <1>2, <1>3, Invariance, PTL DEF Spec

(***************************************************************************)
(* The refinement.  A report is in at most one place of the queue and the  *)
(* batch, and as long as it is there its handler has no result: it still   *)
(* waits, or gave up without one.  Inside the transaction, the results     *)
(* tell all that the writer's view adds to the database.  So the commit is *)
(* the instant at which a batch takes effect, and every other step leaves  *)
(* the store of IngestService alone or answers one of its callers.         *)
(***************************************************************************)
Single ==
  /\ \A i, j \in 1 .. Len(queue) : queue[i] = queue[j] => i = j
  /\ \A i, j \in 1 .. Len(batch) : batch[i] = batch[j] => i = j
  /\ \A r \in Request : ~(Within(queue, r) /\ Within(batch, r))

Unanswered(r) ==
  /\ reply[r] = "none"
  /\ pc[r] = "waiting" \/ (pc[r] = "done" /\ answer[r] \in {"gone", "deadline"})

Asking ==
  \A r \in Request :
    /\ pc[r] # "done" => answer[r] = "none"
    /\ pc[r] # "waiting" => reply[r] = "none"
    /\ InHands(r) => Unanswered(r)

\* What result a on report w says, if the database d became e at once.
Owner(d, i) == IF d.row[i] = None THEN None ELSE d.row[i].host

Sounds(d, e, w, a) ==
  /\ a = "unauthorized" <=> w.host \notin d.live
  /\ a = "accepted" => Owner(d, w.id) = None /\ Owner(e, w.id) = w.host
  /\ a = "duplicate" => Owner(e, w.id) = w.host
  /\ a = "conflict" => Owner(e, w.id) \notin {None, w.host}

AcceptedAt(j, i) == j \in 1 .. Len(results) /\ results[j] = "accepted" /\ Content[batch[j]].id = i

Sequential ==
  InTransaction =>
    /\ \A j \in 1 .. Len(results) :
         results[j] \in Verdict => Sounds(db, tx, Content[batch[j]], results[j])
    /\ \A i \in ReportId :
         \/ tx.row[i] = db.row[i] /\ \A j : ~AcceptedAt(j, i)
         \/ \E j : AcceptedAt(j, i) /\ \A k : AcceptedAt(k, i) => k = j

RInv == Single /\ Asking /\ Sequential

\* The verdict on a report is sound of the step that stores it.
LEMMA StoredSounds ==
  ASSUME NEW d, NEW e \in DB, Extends(e, d), NEW w \in Write
  PROVE  Sounds(d, Stored(e, w), w, VerdictOn(e, w))
<1>1. /\ w.id \in ReportId /\ w.host \in Host
      /\ e.row \in [ReportId -> Row \cup {None}]
      /\ e.live = d.live
      /\ d.row[w.id] # None => e.row[w.id] = d.row[w.id]
  BY DEF Write, DB, Extends
<1>2. CASE VerdictOn(e, w) = "accepted"
  <2>1. Stored(e, w).row = [e.row EXCEPT ![w.id] = [host |-> w.host, at |-> w.at]]
    BY <1>2 DEF Stored, Inserted
  <2>2. Stored(e, w).row[w.id] = [host |-> w.host, at |-> w.at]
    BY <1>1, <2>1
  <2>3. [host |-> w.host, at |-> w.at] # None
    BY StoreAssumption DEF Write
  <2>4. Owner(Stored(e, w), w.id) = w.host
    BY <2>2, <2>3 DEF Owner
  <2>5. e.row[w.id] = None /\ w.host \in e.live
    BY <1>2 DEF VerdictOn
  <2>6. QED
    BY <1>1, <1>2, <2>4, <2>5 DEF Sounds, Owner
<1>3. CASE VerdictOn(e, w) # "accepted"
  <2>1. Stored(e, w) = e
    BY <1>3 DEF Stored
  <2>2. e.row[w.id] # None => e.row[w.id].host \in Host
    BY <1>1 DEF Row
  <2>3. QED
    BY <1>1, <1>3, <2>1, <2>2, StoreAssumption DEF Sounds, Owner, VerdictOn
<1>4. QED
  BY <1>2, <1>3

\* It stays sound while the later reports of the batch are stored.
LEMMA SoundsExtends ==
  ASSUME NEW d, NEW e \in DB, NEW f, Extends(f, e), NEW w \in Write, NEW a, Sounds(d, e, w, a)
  PROVE  Sounds(d, f, w, a)
<1>1. w.id \in ReportId /\ w.host \in Host
  BY DEF Write
<1>2. w.host # None
  BY <1>1, StoreAssumption
<1>3. Owner(e, w.id) # None => Owner(f, w.id) = Owner(e, w.id)
  BY <1>1 DEF Extends, Owner
<1>4. QED
  BY <1>2, <1>3 DEF Sounds

\* The head of a sequence without repetitions is not in its tail.
LEMMA TailWithin ==
  ASSUME NEW s \in Seq(Request), s # <<>>, \A i, j \in 1 .. Len(s) : s[i] = s[j] => i = j
  PROVE  /\ \A i, j \in 1 .. Len(Tail(s)) : Tail(s)[i] = Tail(s)[j] => i = j
         /\ \A r : Within(Tail(s), r) => Within(s, r) /\ r # Head(s)
         /\ Within(s, Head(s))
<1>1. /\ \A i \in 1 .. Len(Tail(s)) : Tail(s)[i] = s[i + 1] /\ i + 1 \in 1 .. Len(s) /\ i + 1 # 1
      /\ Head(s) = s[1] /\ 1 \in 1 .. Len(s)
  OBVIOUS
<1>2. \A i, j \in 1 .. Len(Tail(s)) : Tail(s)[i] = Tail(s)[j] => i = j
  <2> SUFFICES ASSUME NEW i \in 1 .. Len(Tail(s)), NEW j \in 1 .. Len(Tail(s)), Tail(s)[i] = Tail(s)[j]
               PROVE  i = j
    OBVIOUS
  <2>1. i + 1 = j + 1
    BY <1>1
  <2>2. QED
    BY <2>1
<1>3. QED
  BY <1>1, <1>2 DEF Within

\* Appending a newcomer repeats nothing.
LEMMA AppendSingle ==
  ASSUME NEW s \in Seq(Request), NEW x \in Request, ~Within(s, x),
         \A i, j \in 1 .. Len(s) : s[i] = s[j] => i = j
  PROVE  \A i, j \in 1 .. Len(Append(s, x)) : Append(s, x)[i] = Append(s, x)[j] => i = j
<1>1. /\ Len(Append(s, x)) = Len(s) + 1 /\ Len(s) \in Nat
      /\ \A i \in 1 .. Len(s) : Append(s, x)[i] = s[i]
      /\ Append(s, x)[Len(s) + 1] = x
  OBVIOUS
<1>2. \A i \in 1 .. Len(Append(s, x)) : i \in 1 .. Len(s) \/ i = Len(s) + 1
  BY <1>1
<1>3. QED
  BY <1>1, <1>2 DEF Within

\* A report enters the queue once and moves from there to the batch.
LEMMA SingleStep ==
  ASSUME Types, WriterShape, Single, Asking, [Next]_vars
  PROVE  Single'
<1>1. queue \in Seq(Request) /\ batch \in Seq(Request)
  BY DEF Types
<1>2. CASE UNCHANGED <<queue, batch>>
  BY <1>2 DEF Single, Within
<1>3. ASSUME batch' = <<>>, queue' = queue \/ queue' = <<>>
      PROVE  Single'
  BY <1>3 DEF Single, Within
<1>4. ASSUME queue # <<>>, queue' = Tail(queue), batch' = Append(batch, Head(queue))
      PROVE  Single'
  <2>1. Head(queue) \in Request
    BY <1>1, <1>4
  <2>2. /\ \A i, j \in 1 .. Len(queue') : queue'[i] = queue'[j] => i = j
        /\ \A r : Within(queue', r) => Within(queue, r) /\ r # Head(queue)
        /\ Within(queue, Head(queue))
    BY <1>1, <1>4, TailWithin DEF Single
  <2>3. ~Within(batch, Head(queue))
    BY <2>1, <2>2 DEF Single
  <2>4. \A i, j \in 1 .. Len(batch') : batch'[i] = batch'[j] => i = j
    BY <1>1, <1>4, <2>1, <2>3, AppendSingle DEF Single
  <2>5. \A r \in Request : ~(Within(queue', r) /\ Within(batch', r))
    BY <1>1, <1>4, <2>1, <2>2, WithinAppend DEF Single
  <2>6. QED
    BY <2>2, <2>4, <2>5 DEF Single
<1>5. ASSUME NEW r \in Request, Send(r)
      PROVE  Single'
  <2>1. queue' = Append(queue, r) /\ batch' = batch
    BY <1>5 DEF Send, writerVars
  <2>2. ~Within(queue, r) /\ ~Within(batch, r)
    BY <1>5 DEF Send, Asking, InHands, Unanswered
  <2>3. \A i, j \in 1 .. Len(queue') : queue'[i] = queue'[j] => i = j
    BY <1>1, <2>1, <2>2, AppendSingle DEF Single
  <2>4. \A q \in Request : ~(Within(queue', q) /\ Within(batch', q))
    BY <1>1, <2>1, <2>2, WithinAppend DEF Single
  <2>5. QED
    BY <2>1, <2>3, <2>4 DEF Single
<1>6. CASE WriterRecv
  <2>1. batch = <<>>
    BY <1>6 DEF WriterRecv, WriterShape
  <2>2. batch' = Append(batch, Head(queue))
    BY <1>6, <2>1 DEF WriterRecv
  <2>3. QED
    BY <1>4, <1>6, <2>2 DEF WriterRecv
<1>7. CASE WriterFill \/ WriterSelect
  BY <1>2, <1>4, <1>7 DEF WriterFill, WriterSelect, channelVars
<1>8. CASE WriterReply
  <2>1. queue' = queue /\ batch' = Tail(batch) /\ batch # <<>>
    BY <1>8 DEF WriterReply, WriterShape, channelVars
  <2>2. /\ \A i, j \in 1 .. Len(batch') : batch'[i] = batch'[j] => i = j
        /\ \A r : Within(batch', r) => Within(batch, r)
    BY <1>1, <2>1, TailWithin DEF Single
  <2>3. QED
    BY <2>1, <2>2 DEF Single, Within
<1>9. CASE DrainTimeout \/ Restart
  BY <1>3, <1>9 DEF DrainTimeout, Restart
<1>10. QED
  BY <1>2, <1>5, <1>6, <1>7, <1>8, <1>9
     DEF Next, Handler, Authenticate, Reserve, Receive, Disconnect, DeleteHost, Writer, WriterTop,
         WriterNotified, WriterDrained, WriterBegin, WriterStore, WriterCommit, Task,
         RequestShutdown, NotifyShutdown, JoinWriter, vars, channelVars, writerVars

\* A report in the queue or the batch has a handler that waits, or that gave up.
LEMMA AskingStep ==
  ASSUME Types, WriterShape, Single, Asking, [Next]_vars
  PROVE  Asking'
<1>1. queue \in Seq(Request) /\ batch \in Seq(Request)
  BY DEF Types
<1>2. ASSUME UNCHANGED <<pc, answer, reply>>, \A r \in Request : InHands(r)' => InHands(r)
      PROVE  Asking'
  BY <1>2 DEF Asking, Unanswered
<1>3. CASE UNCHANGED <<pc, answer, reply, queue, batch>>
  BY <1>2, <1>3 DEF InHands, Within
<1>4. ASSUME NEW r \in Request, Handler(r), ~Send(r)
      PROVE  Asking'
  <2>1. UNCHANGED <<queue, batch>> /\ pc[r] # "done"
    BY <1>4 DEF Handler, Authenticate, Reserve, Receive, Disconnect, channelVars, writerVars
  <2>2. \A s \in Request : InHands(s)' <=> InHands(s)
    BY <2>1 DEF InHands, Within
  <2>3. ASSUME NEW a, Finish(r, a), InHands(r) => a \in {"gone", "deadline"}
        PROVE  Asking'
    BY <2>2, <2>3 DEF Finish, Asking, Unanswered, Types
  <2>4. ASSUME NEW x, MoveTo(r, x), x # "done", x # "waiting", pc[r] \in {"idle", "admitted"}
        PROVE  Asking'
    BY <2>2, <2>4 DEF MoveTo, Asking, Unanswered, Types
  <2>5. InHands(r) => pc[r] = "waiting" /\ reply[r] = "none"
    BY <2>1 DEF Asking, Unanswered
  <2>6. CASE Authenticate(r) \/ Reserve(r)
    BY <2>3, <2>4, <2>5, <2>6 DEF Authenticate, Reserve
  <2>7. CASE Receive(r) \/ Disconnect(r)
    BY <2>3, <2>5, <2>7 DEF Receive, Disconnect, Result, Verdict
  <2>8. QED
    BY <1>4, <2>6, <2>7 DEF Handler
<1>5. ASSUME NEW r \in Request, Send(r)
      PROVE  Asking'
  <2>1. /\ pc[r] = "reserved" /\ reply[r] = "none"
        /\ pc' = [pc EXCEPT ![r] = "waiting"] /\ UNCHANGED <<answer, reply, batch>>
        /\ queue' = Append(queue, r)
    BY <1>5 DEF Send, MoveTo, Asking, writerVars
  <2>2. \A s \in Request : InHands(s)' => InHands(s) \/ s = r
    BY <1>1, <2>1, WithinAppend DEF InHands
  <2>3. QED
    BY <2>1, <2>2 DEF Asking, Unanswered, Types
<1>6. ASSUME UNCHANGED <<pc, answer, reply>>, queue # <<>>, queue' = Tail(queue),
             batch' = Append(batch, Head(queue))
      PROVE  Asking'
  <2>1. Head(queue) \in Request
    BY <1>1, <1>6
  <2>2. \A r : (Within(queue', r) => Within(queue, r)) /\ Within(queue, Head(queue))
    BY <1>1, <1>6, TailWithin DEF Single
  <2>3. \A r \in Request : InHands(r)' => InHands(r)
    BY <1>1, <1>6, <2>1, <2>2, WithinAppend DEF InHands
  <2>4. QED
    BY <1>2, <1>6, <2>3
<1>7. CASE WriterRecv
  <2>1. batch' = Append(batch, Head(queue))
    BY <1>7 DEF WriterRecv, WriterShape
  <2>2. QED
    BY <1>6, <1>7, <2>1 DEF WriterRecv, handlerVars
<1>8. CASE WriterFill \/ WriterSelect
  BY <1>3, <1>6, <1>8 DEF WriterFill, WriterSelect, handlerVars, channelVars
<1>9. CASE WriterReply
  <2>1. /\ UNCHANGED <<pc, answer, queue>> /\ batch' = Tail(batch) /\ batch # <<>>
        /\ Head(batch) \in Request
    BY <1>1, <1>9 DEF WriterReply, WriterShape, channelVars
  <2>2. \A r : Within(batch', r) => Within(batch, r) /\ r # Head(batch)
    BY <1>1, <2>1, TailWithin DEF Single
  <2>3. Within(batch, Head(batch))
    BY <1>1, <2>1, TailWithin DEF Single
  <2>4. \A r \in Request : InHands(r)' => InHands(r) /\ r # Head(batch)
    BY <2>1, <2>2, <2>3 DEF InHands, Single
  <2>5. \A r \in Request : \/ reply'[r] = reply[r]
                           \/ r = Head(batch) /\ pc[r] = "waiting"
    BY <1>9 DEF WriterReply, Types
  <2>6. QED
    BY <2>1, <2>4, <2>5 DEF Asking, Unanswered
<1>10. CASE DrainTimeout
  <2>1. /\ UNCHANGED <<pc, answer>> /\ queue' = <<>> /\ batch' = <<>>
        /\ \A r \in Request : reply'[r] = reply[r] \/ (pc[r] = "waiting" /\ reply'[r] = "dropped")
    BY <1>10 DEF DrainTimeout, Dropped
  <2>2. \A r \in Request : ~InHands(r)'
    BY <2>1 DEF InHands, Within
  <2>3. QED
    BY <2>1, <2>2 DEF Asking
<1>11. CASE Restart
  <2>1. /\ queue' = <<>> /\ batch' = <<>>
        /\ \A r \in Request : /\ reply'[r] = "none"
                              /\ pc'[r] = IF pc[r] = "idle" THEN "idle" ELSE "done"
                              /\ pc[r] = "idle" => answer'[r] = answer[r]
    BY <1>11 DEF Restart
  <2>2. \A r \in Request : ~InHands(r)'
    BY <2>1 DEF InHands, Within
  <2>3. QED
    BY <2>1, <2>2 DEF Asking
<1>12. QED
  BY <1>3, <1>4, <1>5, <1>7, <1>8, <1>9, <1>10, <1>11
     DEF Next, DeleteHost, Writer, WriterTop, WriterNotified, WriterDrained, WriterBegin, WriterStore,
         WriterCommit, BatchFailed, Task, RequestShutdown, NotifyShutdown, JoinWriter,
         vars, handlerVars, channelVars, writerVars

\* Each result tells all that its report did to the writer's view.
LEMMA SequentialStep ==
  ASSUME Types, WriterShape, Tables, Sequential, [Next]_vars
  PROVE  Sequential'
<1>1. CASE UNCHANGED <<db, tx, wpc, batch, results>>
  BY <1>1 DEF Sequential, InTransaction, AcceptedAt
<1>2. CASE ~InTransaction'
  BY <1>2 DEF Sequential
<1>3. CASE WriterBegin
  <2>1. CASE tx' = db /\ db' = db /\ results' = <<>>
    <3>1. \A j, i : ~AcceptedAt(j, i)'
      BY <2>1 DEF AcceptedAt
    <3>2. \A j : j \notin 1 .. Len(results')
      BY <2>1
    <3>3. QED
      BY <2>1, <3>1, <3>2 DEF Sequential
  <2>2. QED
    BY <1>2, <1>3, <2>1 DEF WriterBegin, BatchFailed, InTransaction, WriterShape
<1>4. CASE WriterStore
  <2> DEFINE n == Len(results)
             w == Content[batch[n + 1]]
  <2>1. /\ UNCHANGED <<db, batch>> /\ InTransaction
        /\ n \in Nat /\ n < Len(batch) /\ results \in Seq(Result) /\ batch \in Seq(Request)
        /\ \A j \in 1 .. n + 1 : batch[j] \in Request
    BY <1>4 DEF WriterStore, WriterShape, Types, InTransaction
  <2>2. /\ w \in Write /\ w.id \in ReportId
        /\ \A j \in 1 .. n : Content[batch[j]] \in Write
    BY <2>1, ContentType DEF Write
  <2>3. /\ Extends(tx, db) /\ tx \in DB
        /\ \A j \in 1 .. n : results[j] \in Verdict => Sounds(db, tx, Content[batch[j]], results[j])
        /\ \A i \in ReportId :
             \/ tx.row[i] = db.row[i] /\ \A j : ~AcceptedAt(j, i)
             \/ \E j : AcceptedAt(j, i) /\ \A k : AcceptedAt(k, i) => k = j
    BY <2>1 DEF Tables, Types, Sequential
  <2>4. ASSUME NEW a, results' = Append(results, a)
        PROVE  /\ Len(results') = n + 1 /\ results'[n + 1] = a
               /\ \A j \in 1 .. n : results'[j] = results[j]
               /\ \A j \in 1 .. Len(results') : j \in 1 .. n \/ j = n + 1
               /\ \A j, i : AcceptedAt(j, i)' <=> \/ AcceptedAt(j, i)
                                                  \/ j = n + 1 /\ a = "accepted" /\ w.id = i
    <3>1. /\ Len(results') = n + 1 /\ results'[n + 1] = a
          /\ \A j \in 1 .. n : results'[j] = results[j]
          /\ \A j \in 1 .. Len(results') : j \in 1 .. n \/ j = n + 1
          /\ n + 1 \in 1 .. Len(results') /\ 1 .. n \subseteq 1 .. Len(results') /\ n + 1 \notin 1 .. n
      BY <2>1, <2>4
    <3>2. QED
      BY <2>1, <3>1 DEF AcceptedAt
  <2>5. CASE tx' = tx /\ results' = Append(results, "failed")
    <3>1. "failed" \notin Verdict /\ "failed" # "accepted"
      BY DEF Verdict
    <3>2. \A j \in 1 .. Len(results') :
             results'[j] \in Verdict => Sounds(db', tx', Content[batch'[j]], results'[j])
      BY <2>1, <2>3, <2>4, <2>5, <3>1
    <3>3. \A j, i : AcceptedAt(j, i)' <=> AcceptedAt(j, i)
      BY <2>4, <2>5, <3>1
    <3>4. QED
      BY <2>1, <2>3, <2>5, <3>2, <3>3 DEF Sequential
  <2>6. CASE tx' = Stored(tx, w) /\ results' = Append(results, VerdictOn(tx, w))
    <3>1. Sounds(db, tx', w, VerdictOn(tx, w)) /\ Extends(tx', tx)
      BY <2>2, <2>3, <2>6, StoredSounds, StoredExtends
    <3>2. \A j \in 1 .. Len(results') :
             results'[j] \in Verdict => Sounds(db', tx', Content[batch'[j]], results'[j])
      BY <2>1, <2>2, <2>3, <2>4, <2>6, <3>1, SoundsExtends
    <3>3. ASSUME NEW i \in ReportId
          PROVE  \/ tx'.row[i] = db'.row[i] /\ \A j : ~AcceptedAt(j, i)'
                 \/ \E j : AcceptedAt(j, i)' /\ \A k : AcceptedAt(k, i)' => k = j
      <4>1. CASE VerdictOn(tx, w) = "accepted" /\ i = w.id
        <5>1. tx.row[i] = None
          BY <4>1 DEF VerdictOn
        <5>2. ASSUME NEW j, AcceptedAt(j, i)
              PROVE  FALSE
          <6>1. /\ Sounds(db, tx, Content[batch[j]], "accepted") /\ Content[batch[j]].id = i
                /\ Content[batch[j]] \in Write
            BY <2>2, <2>3, <5>2 DEF AcceptedAt, Verdict
          <6>2. Owner(tx, i) \in Host
            BY <6>1 DEF Sounds, Write
          <6>3. QED
            BY <5>1, <6>2, StoreAssumption DEF Owner
        <5>3. \A k : AcceptedAt(k, i)' <=> k = n + 1
          BY <2>4, <2>6, <4>1, <5>2
        <5>4. QED
          BY <5>3
      <4>2. CASE ~(VerdictOn(tx, w) = "accepted" /\ i = w.id)
        <5>1. tx'.row[i] = tx.row[i]
          BY <2>2, <2>3, <2>6, <4>2 DEF Stored, Inserted, DB
        <5>2. \A j : AcceptedAt(j, i)' <=> AcceptedAt(j, i)
          BY <2>4, <2>6, <4>2
        <5>3. QED
          BY <2>1, <2>3, <5>1, <5>2
      <4>3. QED
        BY <4>1, <4>2
    <3>4. QED
      BY <3>2, <3>3 DEF Sequential
  <2>7. CASE BatchFailed
    BY <1>2, <2>7 DEF BatchFailed, InTransaction
  <2>8. QED
    BY <1>4, <2>5, <2>6, <2>7 DEF WriterStore
<1>5. CASE \E h \in Host : DeleteHost(h)
  BY <1>2, <1>5 DEF DeleteHost, InTransaction, writerVars
<1>6. CASE WriterTop \/ WriterRecv \/ WriterNotified \/ WriterDrained \/ WriterFill \/ WriterSelect
           \/ WriterCommit \/ WriterReply \/ DrainTimeout \/ Restart
  BY <1>2, <1>6 DEF WriterTop, WriterRecv, WriterNotified, WriterDrained, WriterFill, WriterSelect,
                    WriterCommit, BatchFailed, WriterReply, DrainTimeout, Restart, InTransaction
<1>7. QED
  BY <1>1, <1>3, <1>4, <1>5, <1>6
     DEF Next, Handler, Authenticate, Reserve, Send, Receive, Disconnect, Writer, Task,
         RequestShutdown, NotifyShutdown, JoinWriter, vars, writerVars

\* A freshly started server on an empty database.
LEMMA InitRInv == Init => RInv
<1> SUFFICES ASSUME Init PROVE RInv
  OBVIOUS
<1>1. queue = <<>> /\ batch = <<>> /\ wpc = "top"
  BY DEF Init
<1>2. \A r : ~Within(queue, r) /\ ~Within(batch, r)
  BY <1>1 DEF Within
<1>3. Single
  BY <1>1, <1>2 DEF Single
<1>4. Asking
  BY <1>2 DEF Init, Asking, InHands
<1>5. Sequential
  BY <1>1 DEF Sequential, InTransaction
<1>6. QED
  BY <1>3, <1>4, <1>5 DEF RInv

\* Every step preserves what the refinement rests on.
LEMMA RInvStep == IInv /\ RInv /\ [Next]_vars => RInv'
  BY SingleStep, AskingStep, SequentialStep DEF IInv, RInv

(***************************************************************************)
(* The verdict of the service on a handler that still waits: its reply, or *)
(* its result in a committed batch.                                        *)
(***************************************************************************)
VerdictIn(r, state, told, w, b, s) ==
  IF state # "waiting" THEN "none"
  ELSE IF told \in Verdict THEN told
  ELSE IF w = "reply" /\ \E i \in 1 .. Len(b) : b[i] = r /\ s[i] \in Verdict
       THEN s[CHOOSE i \in 1 .. Len(b) : b[i] = r]
  ELSE "none"

\* CommittedVerdict and its value after a step, as functions of what they read.
LEMMA VerdictInIs ==
  ASSUME NEW r
  PROVE  /\ CommittedVerdict(r) = VerdictIn(r, pc[r], reply[r], wpc, batch, results)
         /\ CommittedVerdict(r)' = VerdictIn(r, pc'[r], reply'[r], wpc', batch', results')
  BY DEF CommittedVerdict, VerdictIn

\* The place of a request in a batch where it stands once.
LEMMA Place ==
  ASSUME NEW b \in Seq(Request), \A i, j \in 1 .. Len(b) : b[i] = b[j] => i = j,
         NEW j \in 1 .. Len(b)
  PROVE  (CHOOSE i \in 1 .. Len(b) : b[i] = b[j]) = j
  OBVIOUS

\* A request that is in no committed batch has the verdict in its reply, if any.
LEMMA VerdictOutside ==
  ASSUME NEW r, NEW p, NEW y, NEW w, NEW b, NEW s,
         w = "reply" => \A i \in 1 .. Len(b) : b[i] = r => s[i] \notin Verdict
  PROVE  VerdictIn(r, p, y, w, b, s) = IF p = "waiting" /\ y \in Verdict THEN y ELSE "none"
  BY DEF VerdictIn

\* A request that waits in a committed batch has the verdict of its result.
LEMMA VerdictInside ==
  ASSUME NEW b \in Seq(Request), \A i, j \in 1 .. Len(b) : b[i] = b[j] => i = j,
         NEW i \in 1 .. Len(b), NEW y, y \notin Verdict, NEW s, s[i] \in Verdict
  PROVE  VerdictIn(b[i], "waiting", y, "reply", b, s) = s[i]
  BY Place DEF VerdictIn

Told(r) == IF answer[r] \in Verdict \cup {"none"} THEN answer[r] ELSE "unknown"

Abstract(d) == [i \in ReportId |-> IF d.row[i] = None THEN None ELSE d.row[i].host]

Left(r)  == Told(r) = "none" /\ Told(r)' = "unknown" /\ CommittedVerdict(r)' = "none"
Still(r) == Told(r)' = Told(r) /\ CommittedVerdict(r)' = CommittedVerdict(r)

\* A step that changes neither the tables nor a caller's knowledge.
LEMMA Stutters ==
  ASSUME db' = db \/ (Abstract(db') = Abstract(db) /\ db'.live = db.live), \A r \in Request : Still(r)
  PROVE  UNCHANGED Service!vars
  BY DEF Service!vars, Still, Told, Abstract

\* A step that leaves callers without an answer.
LEMMA GivesUp ==
  ASSUME Abstract(db') = Abstract(db), db'.live = db.live, \A r \in Request : Left(r) \/ Still(r)
  PROVE  Service!Next
<1>1. Service!GiveUp
  BY DEF Service!GiveUp, Service!GaveUp, Service!Unchanged, Left, Still, Told, Abstract
<1>2. QED
  BY <1>1 DEF Service!Next

\* A step that puts the results of a batch into effect.
LEMMA Decides ==
  ASSUME NEW B \in SUBSET Request, NEW v \in [B -> Verdict],
         db'.live = db.live,
         \A r \in B : CommittedVerdict(r) = "none" /\ Told(r) \in {"none", "unknown"},
         \A r \in B : Sounds(db, db', Content[r], v[r]),
         \A i \in ReportId :
            \/ db'.row[i] = db.row[i] /\ \A r \in B : ~(Content[r].id = i /\ v[r] = "accepted")
            \/ \E r \in B : /\ Content[r].id = i /\ v[r] = "accepted"
                            /\ \A q \in B : Content[q].id = i /\ v[q] = "accepted" => q = r,
         \A r \in Request :
            \/ Left(r)
            \/ Still(r)
            \/ r \in B /\ Told(r) = "none" /\ Told(r)' = "none" /\ CommittedVerdict(r)' = v[r]
  PROVE  [Service!Next]_Service!vars
<1> DEFINE verdict == [r \in Request |-> CommittedVerdict(r)]
<1>1. CASE Abstract(db') = Abstract(db) /\ verdict' = verdict
  <2>1. ASSUME NEW r \in Request
        PROVE  Left(r) \/ Still(r)
    <3>1. CommittedVerdict(r)' = CommittedVerdict(r)
      BY <1>1
    <3>2. \A q \in B : v[q] # "none"
      BY DEF Verdict
    <3>3. QED
      BY <3>1, <3>2
  <2>2. QED
    BY <1>1, <2>1, GivesUp
<1>2. CASE ~(Abstract(db') = Abstract(db) /\ verdict' = verdict)
  <2>1. \A r \in B : Content[r].id \in ReportId
    BY ContentType DEF Write
  <2>2. B \in SUBSET Service!Undecided
    BY DEF Service!Undecided, Told
  <2>3. Service!Effect(B, v)
    <3>1. \A r \in B : v[r] = "unauthorized" <=> Content[r].host \notin db.live
      BY DEF Sounds
    <3>2. ASSUME NEW r \in B
          PROVE  Service!Sound(r, v[r])
      <4>1. /\ Abstract(db)[Content[r].id] = Owner(db, Content[r].id)
            /\ Abstract(db')[Content[r].id] = Owner(db', Content[r].id)
        BY <2>1 DEF Abstract, Owner
      <4>2. v[r] \in {"accepted", "duplicate", "conflict", "unauthorized"}
        BY DEF Verdict
      <4>3. QED
        BY <4>1, <4>2 DEF Service!Sound, Sounds, Abstract
    <3>3. ASSUME NEW i \in ReportId
          PROVE  LET Accepted == {r \in B : Content[r].id = i /\ v[r] = "accepted"}
                 IN  \/ Abstract(db')[i] = Abstract(db)[i] /\ Accepted = {}
                     \/ \E r \in Accepted : Accepted = {r}
      <4> DEFINE Accepted == {r \in B : Content[r].id = i /\ v[r] = "accepted"}
      <4>1. CASE db'.row[i] = db.row[i] /\ \A r \in B : ~(Content[r].id = i /\ v[r] = "accepted")
        <5>1. Accepted = {} /\ Abstract(db')[i] = Abstract(db)[i]
          BY <4>1 DEF Abstract
        <5>2. QED
          BY <5>1
      <4>2. CASE \E r \in B : /\ Content[r].id = i /\ v[r] = "accepted"
                              /\ \A q \in B : Content[q].id = i /\ v[q] = "accepted" => q = r
        <5>1. PICK r \in B : /\ Content[r].id = i /\ v[r] = "accepted"
                             /\ \A q \in B : Content[q].id = i /\ v[q] = "accepted" => q = r
          BY <4>2
        <5>2. Accepted = {r}
          BY <5>1
        <5>3. QED
          BY <5>2
      <4>3. QED
        BY <4>1, <4>2
    <3>4. QED
      BY <3>1, <3>2, <3>3 DEF Service!Effect, Abstract
  <2>4. \A r \in Request :
           \/ Service!GaveUp(r)
           \/ Service!Unchanged(r)
           \/ /\ r \in B
              /\ [q \in Request |-> Told(q)][r] = "none" /\ [q \in Request |-> Told(q)]'[r] = "none"
              /\ verdict'[r] = v[r]
    BY DEF Service!GaveUp, Service!Unchanged, Left, Still, Told
  <2>5. v \in [B -> Service!Verdict]
    BY DEF Service!Verdict, Verdict
  <2>6. Service!Decide
    BY <1>2, <2>2, <2>3, <2>4, <2>5 DEF Service!Decide, Told, Abstract
  <2>7. QED
    BY <2>6 DEF Service!Next
<1>3. QED
  BY <1>1, <1>2

\* Installing the writer's view is the effect of the batch.
LEMMA CommitDecides ==
  ASSUME IInv, RInv, wpc = "commit", db' = tx,
         \A r \in Request :
            \/ Left(r)
            \/ Still(r)
            \/ \E j \in 1 .. Len(batch) :
                  /\ batch[j] = r /\ results[j] \in Verdict
                  /\ Told(r) = "none" /\ Told(r)' = "none" /\ CommittedVerdict(r)' = results[j]
  PROVE  [Service!Next]_Service!vars
<1> DEFINE At(r) == CHOOSE i \in 1 .. Len(batch) : batch[i] = r
           B == {r \in Request : \E j \in 1 .. Len(batch) : batch[j] = r /\ results[j] \in Verdict}
           v == [r \in B |-> results[At(r)]]
<1>1. /\ batch \in Seq(Request) /\ Len(results) = Len(batch)
      /\ \A i, j \in 1 .. Len(batch) : batch[i] = batch[j] => i = j
      /\ InTransaction /\ Extends(tx, db)
  BY DEF IInv, RInv, Types, WriterShape, Single, InTransaction, Tables
<1>2. \A j \in 1 .. Len(batch) : At(batch[j]) = j /\ batch[j] \in Request
  BY <1>1, Place
<1>3. \A j \in 1 .. Len(batch) : results[j] \in Verdict => batch[j] \in B /\ v[batch[j]] = results[j]
  <2> SUFFICES ASSUME NEW j \in 1 .. Len(batch), results[j] \in Verdict
               PROVE  batch[j] \in B /\ v[batch[j]] = results[j]
    OBVIOUS
  <2>1. batch[j] \in B
    BY <1>2
  <2>2. v[batch[j]] = results[At(batch[j])]
    BY <2>1
  <2>3. QED
    BY <1>2, <2>1, <2>2
<1>4. \A r \in B : \E j \in 1 .. Len(batch) : batch[j] = r /\ results[j] \in Verdict /\ v[r] = results[j]
  <2> SUFFICES ASSUME NEW r \in B
               PROVE  \E j \in 1 .. Len(batch) : batch[j] = r /\ results[j] \in Verdict /\ v[r] = results[j]
    OBVIOUS
  <2>1. PICK j \in 1 .. Len(batch) : batch[j] = r /\ results[j] \in Verdict
    OBVIOUS
  <2> HIDE DEF v, B
  <2>2. v[r] = results[j]
    BY <1>3, <2>1
  <2>3. QED
    BY <2>1, <2>2
<1> HIDE DEF At, v, B
<1>5. B \in SUBSET Request
  BY DEF B
<1>6. v \in [B -> Verdict]
  <2>1. \A r \in B : v[r] \in Verdict
    BY <1>4
  <2>2. v = [r \in B |-> v[r]]
    BY DEF v
  <2>3. QED
    BY <2>1, <2>2
<1>7. ASSUME NEW r \in B
      PROVE  CommittedVerdict(r) = "none" /\ Told(r) \in {"none", "unknown"}
  <2>1. r \in Request /\ InHands(r)
    BY <1>4, <1>5 DEF InHands, Within
  <2>2. reply[r] = "none" /\ (answer[r] = "none" \/ answer[r] \in {"gone", "deadline"})
    BY <2>1 DEF RInv, Asking, Unanswered
  <2>3. QED
    BY <2>2 DEF CommittedVerdict, Told, Verdict
<1>8. \A r \in B : Sounds(db, db', Content[r], v[r])
  BY <1>1, <1>4 DEF RInv, Sequential
<1>9. ASSUME NEW i \in ReportId
      PROVE  \/ db'.row[i] = db.row[i] /\ \A r \in B : ~(Content[r].id = i /\ v[r] = "accepted")
             \/ \E r \in B : /\ Content[r].id = i /\ v[r] = "accepted"
                             /\ \A q \in B : Content[q].id = i /\ v[q] = "accepted" => q = r
  <2>1. \A r \in B : Content[r].id = i /\ v[r] = "accepted" => \E j : batch[j] = r /\ AcceptedAt(j, i)
    BY <1>1, <1>4 DEF AcceptedAt
  <2>2. \A j : AcceptedAt(j, i) => batch[j] \in B /\ Content[batch[j]].id = i /\ v[batch[j]] = "accepted"
    BY <1>1, <1>3 DEF AcceptedAt, Verdict
  <2>3. \/ tx.row[i] = db.row[i] /\ \A j : ~AcceptedAt(j, i)
        \/ \E j : AcceptedAt(j, i) /\ \A k : AcceptedAt(k, i) => k = j
    BY <1>1 DEF RInv, Sequential
  <2>4. CASE tx.row[i] = db.row[i] /\ \A j : ~AcceptedAt(j, i)
    BY <2>1, <2>4
  <2>5. ASSUME NEW j, AcceptedAt(j, i), \A k : AcceptedAt(k, i) => k = j
        PROVE  \E r \in B : /\ Content[r].id = i /\ v[r] = "accepted"
                            /\ \A q \in B : Content[q].id = i /\ v[q] = "accepted" => q = r
    <3>1. batch[j] \in B /\ Content[batch[j]].id = i /\ v[batch[j]] = "accepted"
      BY <2>2, <2>5
    <3>2. \A q \in B : Content[q].id = i /\ v[q] = "accepted" => q = batch[j]
      BY <2>1, <2>5
    <3>3. QED
      BY <3>1, <3>2
  <2>6. QED
    BY <2>3, <2>4, <2>5
<1>10. \A r \in Request :
          \/ Left(r)
          \/ Still(r)
          \/ r \in B /\ Told(r) = "none" /\ Told(r)' = "none" /\ CommittedVerdict(r)' = v[r]
  BY <1>3
<1>11. db'.live = db.live
  BY <1>1 DEF Extends
<1>12. QED
  BY <1>5, <1>6, <1>7, <1>8, <1>9, <1>10, <1>11, Decides

\* A handler's own step: it moves on, leaves without an answer, or gives its
\* caller the verdict it received or found.
LEMMA HandlerRefines ==
  ASSUME IInv, RInv, NEW r \in Request, Handler(r)
  PROVE  [Service!Next]_Service!vars
<1>1. /\ UNCHANGED <<db, batch, results, wpc>> /\ Types /\ Asking
      /\ pc[r] # "done"
  BY DEF Handler, Authenticate, Reserve, Send, Receive, Disconnect, writerVars, IInv, RInv
<1>2. answer[r] = "none" /\ Told(r) = "none"
  BY <1>1 DEF Asking, Told
<1>3. ASSUME NEW q \in Request, pc'[q] = pc[q], answer'[q] = answer[q], reply'[q] = reply[q]
      PROVE  Still(q)
  BY <1>1, <1>3 DEF Still, Told, CommittedVerdict
<1>4. ASSUME NEW a, Finish(r, a)
      PROVE  /\ answer'[r] = a /\ CommittedVerdict(r)' = "none"
             /\ \A q \in Request \ {r} : Still(q)
  <2>1. pc'[r] = "done" /\ answer'[r] = a
    BY <1>1, <1>4 DEF Finish, Types
  <2>2. \A q \in Request \ {r} : pc'[q] = pc[q] /\ answer'[q] = answer[q] /\ reply'[q] = reply[q]
    BY <1>1, <1>4 DEF Finish, Types
  <2>3. QED
    BY <1>3, <2>1, <2>2 DEF CommittedVerdict
<1>5. ASSUME NEW a \in Outcome \ Verdict, Finish(r, a)
      PROVE  Service!Next
  <2>1. Told(r)' = "unknown"
    BY <1>4, <1>5 DEF Told, Outcome, Result
  <2>2. \A q \in Request : Left(q) \/ Still(q)
    BY <1>2, <1>4, <1>5, <2>1 DEF Left
  <2>3. QED
    BY <1>1, <2>2, GivesUp
<1>6. ASSUME NEW a \in Verdict, Finish(r, a)
      PROVE  /\ [q \in Request |-> Told(q)]' = [[q \in Request |-> Told(q)] EXCEPT ![r] = a]
             /\ [q \in Request |-> CommittedVerdict(q)]' = [[q \in Request |-> CommittedVerdict(q)] EXCEPT ![r] = "none"]
  <2>1. Told(r)' = a
    BY <1>4, <1>6 DEF Told
  <2>2. QED
    BY <1>4, <1>6, <2>1 DEF Still
<1>7. ASSUME NEW x, MoveTo(r, x), pc[r] # "waiting", reply[r] = "none", InHands(r) => FALSE
      PROVE  UNCHANGED Service!vars
  <2>1. answer' = answer /\ reply' = reply /\ \A q \in Request \ {r} : pc'[q] = pc[q]
    BY <1>1, <1>7 DEF MoveTo, Types
  <2>2. \A i \in 1 .. Len(batch) : batch[i] # r
    BY <1>7 DEF InHands, Within
  <2>3. CommittedVerdict(r) = "none" /\ CommittedVerdict(r)' = "none"
    BY <1>1, <1>7, <2>1, <2>2 DEF CommittedVerdict, Verdict
  <2>4. \A q \in Request : Still(q)
    BY <1>3, <2>1, <2>3 DEF Still, Told
  <2>5. QED
    BY <1>1, <2>4, Stutters
<1>8. pc[r] # "waiting" => reply[r] = "none" /\ ~InHands(r)
  BY <1>1 DEF Asking, Unanswered
<1>9. CASE Authenticate(r)
  <2>1. CASE Finish(r, "unauthorized") /\ Content[r].host \notin db.live
    <3>1. pc[r] = "idle" /\ "unauthorized" \in Verdict
      BY <1>9 DEF Authenticate, Verdict
    <3>2. CommittedVerdict(r) = "none"
      BY <3>1 DEF CommittedVerdict
    <3>3. [q \in Request |-> CommittedVerdict(q)]' = [q \in Request |-> CommittedVerdict(q)]
      BY <1>6, <2>1, <3>1, <3>2
    <3>4. Service!Reject(r)
      BY <1>1, <1>2, <1>6, <2>1, <3>1, <3>3 DEF Service!Reject, Told, Abstract
    <3>5. QED
      BY <3>4 DEF Service!Next
  <2>2. CASE Finish(r, "limited") \/ Finish(r, "unavailable")
    BY <1>5, <2>2 DEF Outcome, Result, Verdict
  <2>3. CASE MoveTo(r, "admitted")
    BY <1>7, <1>8, <1>9, <2>3 DEF Authenticate
  <2>4. QED
    BY <1>9, <2>1, <2>2, <2>3 DEF Authenticate
<1>10. CASE Reserve(r)
  <2>1. CASE Finish(r, "unavailable") \/ Finish(r, "full")
    BY <1>5, <2>1 DEF Outcome, Result, Verdict
  <2>2. QED
    BY <1>7, <1>8, <1>10, <2>1 DEF Reserve
<1>11. CASE Send(r)
  BY <1>7, <1>8, <1>11 DEF Send
<1>12. CASE Receive(r)
  <2>1. CASE reply[r] \in Verdict /\ Finish(r, reply[r])
    <3>1. CommittedVerdict(r) = reply[r] /\ reply[r] # "none"
      BY <1>12, <2>1 DEF Receive, CommittedVerdict, Verdict
    <3>2. Service!Answer(r)
      BY <1>1, <1>6, <2>1, <3>1 DEF Service!Answer, Told, Abstract
    <3>3. QED
      BY <3>2 DEF Service!Next
  <2>2. CASE Finish(r, "failed") \/ Finish(r, "unavailable") \/ Finish(r, "deadline")
    BY <1>5, <2>2 DEF Outcome, Result, Verdict
  <2>3. QED
    BY <1>12, <2>1, <2>2 DEF Receive, Result
<1>13. CASE Disconnect(r)
  BY <1>5, <1>13 DEF Disconnect, Outcome, Result, Verdict
<1>14. QED
  BY <1>9, <1>10, <1>11, <1>12, <1>13 DEF Handler

\* Deleting a host takes its reports from the ledger.
LEMMA DeletionRefines ==
  ASSUME IInv, NEW h \in Host, DeleteHost(h)
  PROVE  Service!Next
<1>1. /\ h \in db.live /\ db' = HostDeleted(db, h)
      /\ UNCHANGED <<answer, pc, reply, wpc, batch, results>>
  BY DEF DeleteHost, handlerVars, writerVars
<1>2. \A r \in Request : Still(r)
  BY <1>1 DEF Still, Told, CommittedVerdict
<1>3. h # None
  BY StoreAssumption
<1>4. db'.live = db.live \ {h}
  BY <1>1 DEF HostDeleted
<1>5. \A i \in ReportId : db'.row[i] = IF db.row[i] # None /\ db.row[i].host = h THEN None ELSE db.row[i]
  BY <1>1 DEF HostDeleted, RowsOf
<1>6. Abstract(db') = [i \in ReportId |-> IF Abstract(db)[i] = h THEN None ELSE Abstract(db)[i]]
  BY <1>3, <1>5 DEF Abstract
<1>7. Service!DeleteHost(h)
  BY <1>1, <1>2, <1>4, <1>6 DEF Service!DeleteHost, Abstract, Still, Told
<1>8. QED
  BY <1>7 DEF Service!Next

\* The writer's steps: the commit puts a batch into effect, the others are
\* nobody's business.
LEMMA WriterRefines ==
  ASSUME IInv, RInv, Writer
  PROVE  [Service!Next]_Service!vars
<1>1. UNCHANGED <<pc, answer>> /\ batch \in Seq(Request) /\ results \in Seq(Result)
  BY DEF Writer, WriterTop, WriterRecv, WriterNotified, WriterDrained, WriterFill, WriterSelect,
         WriterBegin, WriterStore, WriterCommit, WriterReply, handlerVars, IInv, Types
<1>2. \A r \in Request : Told(r)' = Told(r)
  BY <1>1 DEF Told
\* Before and after, no committed batch is in the writer's hands.
<1>3. ASSUME reply' = reply, wpc # "reply",
             wpc' = "reply" => \A i \in 1 .. Len(batch') : results'[i] = "failed"
      PROVE  \A r \in Request : Still(r)
  <2>1. "failed" \notin Verdict
    BY DEF Verdict
  <2>2. \A r \in Request :
           /\ CommittedVerdict(r)  = IF pc[r] = "waiting" /\ reply[r] \in Verdict THEN reply[r] ELSE "none"
           /\ CommittedVerdict(r)' = IF pc'[r] = "waiting" /\ reply'[r] \in Verdict THEN reply'[r] ELSE "none"
    BY <1>3, <2>1, VerdictInIs, VerdictOutside
  <2>3. QED
    BY <1>1, <1>2, <1>3, <2>2 DEF Still
<1>4. CASE WriterTop \/ WriterRecv \/ WriterNotified \/ WriterDrained \/ WriterFill \/ WriterSelect
  <2>1. UNCHANGED <<db, reply>> /\ wpc # "reply" /\ wpc' # "reply"
    BY <1>4 DEF WriterTop, WriterRecv, WriterNotified, WriterDrained, WriterFill, WriterSelect, handlerVars
  <2>2. QED
    BY <1>3, <2>1, Stutters
<1>5. ASSUME BatchFailed, UNCHANGED <<reply, batch>>, wpc # "reply"
      PROVE  \A r \in Request : Still(r)
  <2>1. \A i \in 1 .. Len(batch') : results'[i] = "failed"
    BY <1>1, <1>5 DEF BatchFailed
  <2>2. QED
    BY <1>3, <1>5, <2>1
<1>6. CASE WriterBegin \/ WriterStore
  <2>1. UNCHANGED <<db, reply, batch>> /\ wpc # "reply" /\ (wpc' # "reply" \/ BatchFailed)
    BY <1>6 DEF WriterBegin, WriterStore, handlerVars
  <2>2. QED
    BY <1>3, <1>5, <2>1, Stutters
<1>7. CASE WriterCommit
  <2>1. UNCHANGED <<reply, batch>> /\ wpc = "commit"
    BY <1>7 DEF WriterCommit, handlerVars
  <2>2. CASE BatchFailed /\ db' = db
    BY <1>5, <2>1, <2>2, Stutters
  <2>3. CASE BatchFailed /\ db' = tx
    BY <1>5, <2>1, <2>3, CommitDecides
  <2>4. CASE db' = tx /\ wpc' = "reply" /\ UNCHANGED results
    <3>1. ASSUME NEW r \in Request,
                 ~Still(r)
          PROVE  \E j \in 1 .. Len(batch) :
                    /\ batch[j] = r /\ results[j] \in Verdict
                    /\ Told(r) = "none" /\ Told(r)' = "none" /\ CommittedVerdict(r)' = results[j]
      <4>1. /\ CommittedVerdict(r) = IF pc[r] = "waiting" /\ reply[r] \in Verdict THEN reply[r] ELSE "none"
            /\ CommittedVerdict(r)' = VerdictIn(r, pc[r], reply[r], "reply", batch, results)
        BY <1>1, <2>1, <2>4, VerdictInIs, VerdictOutside
      <4>2. PICK j \in 1 .. Len(batch) : batch[j] = r /\ results[j] \in Verdict
        <5>1. CASE \A j \in 1 .. Len(batch) : batch[j] = r => results[j] \notin Verdict
          <6>1. CommittedVerdict(r)' = IF pc[r] = "waiting" /\ reply[r] \in Verdict THEN reply[r] ELSE "none"
            BY <4>1, <5>1, VerdictOutside
          <6>2. QED
            BY <1>2, <3>1, <4>1, <6>1 DEF Still
        <5>2. QED
          BY <5>1
      <4>3. reply[r] = "none" /\ InHands(r) /\ reply[r] \notin Verdict
        BY <4>2 DEF InHands, Within, RInv, Asking, Unanswered, Verdict
      <4>4. pc[r] = "waiting"
        BY <1>2, <3>1, <4>1, <4>3 DEF Still, VerdictIn
      <4>5. CommittedVerdict(r)' = results[j]
        BY <1>1, <4>1, <4>2, <4>3, <4>4, VerdictInside DEF RInv, Single
      <4>6. Told(r) = "none"
        BY <4>4 DEF RInv, Asking, Told
      <4>7. QED
        BY <1>2, <4>2, <4>5, <4>6
    <3>2. QED
      BY <2>1, <2>4, <3>1, CommitDecides
  <2>5. QED
    BY <1>7, <2>1, <2>2, <2>3, <2>4 DEF WriterCommit, Recovered
<1>8. CASE WriterReply
  <2>1. /\ db' = db /\ batch' = Tail(batch) /\ results' = Tail(results) /\ wpc = "reply"
        /\ batch # <<>> /\ results # <<>> /\ Len(results) = Len(batch)
        /\ wpc' = IF batch' = <<>> THEN "top" ELSE "reply"
    BY <1>8 DEF WriterReply, WriterShape, IInv
  <2>2. PICK s \in Request : s = Head(batch)
    BY <1>1, <2>1
  <2>3. /\ s = batch[1] /\ Head(results) = results[1] /\ 1 \in 1 .. Len(batch)
         /\ results[1] \in Result
    BY <1>1, <2>1, <2>2
  <2>4. /\ \A i, j \in 1 .. Len(batch) : batch[i] = batch[j] => i = j
        /\ \A i, j \in 1 .. Len(batch') : batch'[i] = batch'[j] => i = j
        /\ \A r : Within(batch', r) => Within(batch, r) /\ r # s
    BY <1>1, <2>1, <2>2, TailWithin DEF RInv, Single
  <2>5. /\ \A i \in 1 .. Len(batch') : /\ i + 1 \in 1 .. Len(batch) /\ batch'[i] = batch[i + 1]
                                       /\ results'[i] = results[i + 1]
        /\ \A i \in 1 .. Len(batch) : i # 1 =>
              i - 1 \in 1 .. Len(batch') /\ batch'[i - 1] = batch[i] /\ results'[i - 1] = results[i]
        /\ batch' = <<>> => \A i \in 1 .. Len(batch) : i = 1
        /\ batch' \in Seq(Request)
    <3>1. /\ Len(batch') = Len(batch) - 1 /\ batch' \in Seq(Request)
          /\ Len(batch) \in Nat /\ Len(batch) # 0
      BY <1>1, <2>1
    <3>2. \A i \in 1 .. Len(batch') : batch'[i] = batch[i + 1] /\ results'[i] = results[i + 1]
      BY <1>1, <2>1
    <3>3. \A i \in 1 .. Len(batch') : i + 1 \in 1 .. Len(batch)
      BY <3>1
    <3>4. ASSUME NEW i \in 1 .. Len(batch), i # 1
          PROVE  i - 1 \in 1 .. Len(batch') /\ batch'[i - 1] = batch[i] /\ results'[i - 1] = results[i]
      <4>1. i - 1 \in 1 .. Len(batch') /\ (i - 1) + 1 = i
        BY <3>1, <3>4
      <4>2. QED
        BY <3>2, <4>1
    <3>5. batch' = <<>> => \A i \in 1 .. Len(batch) : i = 1
      <4>1. batch' = <<>> => Len(batch') = 0
        OBVIOUS
      <4>2. batch' = <<>> => Len(batch) = 1
        BY <3>1, <4>1
      <4>3. Len(batch) = 1 => \A i \in 1 .. Len(batch) : i = 1
        OBVIOUS
      <4>4. QED
        BY <4>2, <4>3
    <3>6. QED
      BY <3>1, <3>2, <3>3, <3>4, <3>5
  <2>6. /\ \A r \in Request \ {s} : reply'[r] = reply[r]
        /\ reply'[s] = IF pc[s] = "waiting" THEN results[1] ELSE reply[s]
    BY <1>8, <2>2 DEF WriterReply, IInv, Types
  <2>7. Still(s)
    <3>1. CASE pc[s] # "waiting"
      BY <1>1, <1>2, <2>2, <2>3, <3>1 DEF Still, CommittedVerdict
    <3>2. CASE pc[s] = "waiting"
      <4>1. reply[s] \notin Verdict
        <5>1. InHands(s)
          BY <2>2, <2>3 DEF InHands, Within
        <5>2. reply[s] = "none"
          BY <2>2, <2>3, <5>1 DEF RInv, Asking, Unanswered
        <5>3. QED
          BY <5>2 DEF Verdict
      <4>2. \A i \in 1 .. Len(batch') : batch'[i] # s
        BY <2>4 DEF Within
      <4>3. CommittedVerdict(s)' = IF results[1] \in Verdict THEN results[1] ELSE "none"
        BY <1>1, <2>6, <3>2, <4>2, VerdictInIs, VerdictOutside
      <4>4. CASE results[1] \in Verdict
        <5>1. VerdictIn(batch[1], "waiting", reply[s], "reply", batch, results) = results[1]
          BY <1>1, <2>2, <2>3, <2>4, <4>1, <4>4, VerdictInside
        <5>2. CommittedVerdict(s) = results[1]
          BY <2>1, <2>2, <2>3, <3>2, <5>1, VerdictInIs
        <5>3. QED
          BY <1>2, <2>2, <2>3, <4>3, <4>4, <5>2 DEF Still
      <4>5. CASE results[1] \notin Verdict
        <5>1. \A i \in 1 .. Len(batch) : batch[i] = s => i = 1
          BY <2>2, <2>3, <2>4
        <5>2. CommittedVerdict(s) = "none"
          BY <3>2, <4>1, <4>5, <5>1, VerdictInIs, VerdictOutside
        <5>3. QED
          BY <1>2, <2>2, <2>3, <4>3, <4>5, <5>2 DEF Still
      <4>6. QED
        BY <4>4, <4>5
    <3>3. QED
      BY <3>1, <3>2
  <2>8. ASSUME NEW r \in Request \ {s}
        PROVE  Still(r)
    <3>1. pc'[r] = pc[r] /\ reply'[r] = reply[r]
      BY <1>1, <2>6
    <3>2. CASE \E j \in 1 .. Len(batch) : batch[j] = r /\ results[j] \in Verdict
      <4>1. PICK j \in 1 .. Len(batch) : batch[j] = r /\ results[j] \in Verdict
        BY <3>2
      <4>2. /\ j # 1 /\ j - 1 \in 1 .. Len(batch') /\ batch'[j - 1] = r /\ results'[j - 1] = results[j]
            /\ wpc' = "reply"
        BY <2>1, <2>2, <2>3, <2>5, <4>1
      <4>3. CASE pc[r] # "waiting"
        BY <1>2, <3>1, <4>3 DEF Still, CommittedVerdict
      <4>4. CASE pc[r] = "waiting" /\ reply[r] \in Verdict
        BY <1>2, <3>1, <4>4 DEF Still, CommittedVerdict
      <4>5. CASE pc[r] = "waiting" /\ reply[r] \notin Verdict
        <5>1. VerdictIn(r, "waiting", reply[r], "reply", batch, results) = results[j]
          BY <1>1, <2>4, <4>1, <4>5, VerdictInside
        <5>2. VerdictIn(batch'[j - 1], "waiting", reply[r], "reply", batch', results') = results'[j - 1]
          <6>1. /\ batch' \in Seq(Request) /\ j - 1 \in 1 .. Len(batch')
                /\ \A i, k \in 1 .. Len(batch') : batch'[i] = batch'[k] => i = k
                /\ reply[r] \notin Verdict /\ results'[j - 1] \in Verdict
            BY <2>4, <2>5, <4>1, <4>2, <4>5
          <6>2. QED
            BY <6>1, VerdictInside
        <5>3. QED
          BY <1>1, <1>2, <2>1, <3>1, <4>2, <4>5, <5>1, <5>2, VerdictInIs DEF Still
      <4>6. QED
        BY <4>3, <4>4, <4>5
    <3>3. CASE \A j \in 1 .. Len(batch) : batch[j] = r => results[j] \notin Verdict
      <4>1. \A j \in 1 .. Len(batch') : batch'[j] = r => results'[j] \notin Verdict
        BY <2>5, <3>3
      <4>2. /\ CommittedVerdict(r)  = IF pc[r] = "waiting" /\ reply[r] \in Verdict THEN reply[r] ELSE "none"
            /\ CommittedVerdict(r)' = IF pc'[r] = "waiting" /\ reply'[r] \in Verdict THEN reply'[r] ELSE "none"
        BY <3>3, <4>1, VerdictInIs, VerdictOutside
      <4>3. QED
        BY <1>2, <3>1, <4>2 DEF Still
    <3>4. QED
      BY <3>2, <3>3
  <2>9. QED
    BY <2>1, <2>7, <2>8, Stutters
<1>9. QED
  BY <1>4, <1>6, <1>7, <1>8 DEF Writer

\* An abort or a crash loses a batch, or has just put it into effect; a crash
\* also takes the callers' connections.
LEMMA LossRefines ==
  ASSUME IInv, RInv, DrainTimeout \/ Restart
  PROVE  [Service!Next]_Service!vars
<1>1. ASSUME NEW r \in Request
      PROVE  Left(r) \/ Still(r)
  <2>1. /\ wpc' # "reply" /\ reply'[r] \in Verdict => reply'[r] = reply[r]
        /\ Types /\ Asking /\ Verdict = {"accepted", "duplicate", "conflict", "unauthorized"}
    BY DEF DrainTimeout, Restart, IInv, RInv, Verdict
  <2>2. CASE DrainTimeout
    <3>1. /\ pc'[r] = pc[r] /\ answer'[r] = answer[r] /\ wpc # "reply" /\ wpc' # "reply"
          /\ reply'[r] = reply[r] \/ (reply[r] = "none" /\ reply'[r] = "dropped")
      BY <2>2 DEF DrainTimeout, Dropped
    <3>2. QED
      BY <2>1, <3>1 DEF Still, Told, CommittedVerdict
  <2>3. CASE Restart
    <3>1. /\ pc'[r] \in {"idle", "done"} /\ wpc' = "top"
          /\ answer'[r] = IF pc[r] \in {"idle", "done"} THEN answer[r] ELSE "gone"
      BY <2>3 DEF Restart
    <3>2. CommittedVerdict(r)' = "none"
      BY <3>1 DEF CommittedVerdict
    <3>3. CASE pc[r] \in {"idle", "done"}
      BY <3>1, <3>2, <3>3 DEF Still, Told, CommittedVerdict
    <3>4. CASE pc[r] \notin {"idle", "done"}
      <4>1. answer[r] = "none" /\ answer'[r] = "gone"
        BY <2>1, <3>1, <3>4 DEF Asking
      <4>2. QED
        BY <2>1, <3>2, <4>1 DEF Left, Told
    <3>5. QED
      BY <3>3, <3>4
  <2>4. QED
    BY <2>2, <2>3
<1>2. CASE db' = db
  BY <1>1, <1>2, GivesUp
<1>3. CASE wpc = "commit" /\ db' = tx
  BY <1>1, <1>3, CommitDecides
<1>4. QED
  BY <1>2, <1>3 DEF DrainTimeout, Restart, Recovered

\* Queue, batches, savepoints, deadlines, shutdown and crashes together are no
\* more than a store that decides on each report in one instant, between the
\* call and the answer: every initial state and every step of the server is one
\* of the service, or none.
THEOREM IngestionIsAtomic == Spec => ImplementsService
<1>1. Init => Service!Init
  <2> SUFFICES ASSUME Init PROVE Service!Init
    OBVIOUS
  <2>1. /\ db = InitDB
        /\ \A r \in Request : pc[r] = "idle" /\ answer[r] = "none"
    BY DEF Init
  <2>2. \A r \in Request : CommittedVerdict(r) = "none"
    BY <2>1 DEF CommittedVerdict
  <2>3. QED
    BY <2>1, <2>2 DEF Service!Init, InitDB
<1>2. IInv /\ RInv /\ [Next]_vars => [Service!Next]_Service!vars
  <2> SUFFICES ASSUME IInv, RInv, [Next]_vars PROVE [Service!Next]_Service!vars
    OBVIOUS
  <2>1. CASE (Task /\ ~DrainTimeout) \/ UNCHANGED vars
    <3>1. UNCHANGED <<db, pc, answer, reply, wpc, batch, results>>
      BY <2>1 DEF Task, RequestShutdown, NotifyShutdown, JoinWriter, vars, handlerVars, writerVars
    <3>2. \A r \in Request : Still(r)
      BY <3>1 DEF Still, Told, CommittedVerdict
    <3>3. QED
      BY <3>1, <3>2, Stutters
  <2>2. QED
    BY <2>1, HandlerRefines, DeletionRefines, WriterRefines, LossRefines DEF Next, Task
<1>3. QED
  BY <1>1, <1>2, Invariance, InitRInv, RInvStep, PTL DEF Spec, ImplementsService, Service!Spec
=============================================================================
