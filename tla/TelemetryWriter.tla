--------------------------- MODULE TelemetryWriter ---------------------------
(***************************************************************************)
(* Telemetry ingestion (telemetry.rs, http.rs report, store.rs): the HTTP  *)
(* handlers that submit reports, the bounded queue between them and the    *)
(* single writer task, the batches the writer persists in one transaction, *)
(* and the shutdown that drains them.  The server may crash and be started *)
(* again at any step: the database survives, the rest does not.            *)
(*                                                                         *)
(* Time is left out: a deadline may expire whenever the code waits under   *)
(* it and its condition holds, and the flush timer may fire at once.  The  *)
(* counters behind stats() are left out.                                   *)
(***************************************************************************)
EXTENDS ReportStore, Sequences, FiniteSets

CONSTANTS Request,        \* one HTTP request each; a client's retry is another one
          Content,        \* [Request -> Write]: the report a request carries
          QueueCapacity,
          BatchSize

ASSUME WriterAssumption ==
  /\ IsFiniteSet(Request)
  /\ Content \in [Request -> Write]
  /\ QueueCapacity \in Nat \ {0}
  /\ BatchSize \in 1 .. QueueCapacity   \* TelemetryWriterConfig::new

VARIABLES
  db,        \* the committed database
  pc,        \* where each handler is
  answer,    \* what each handler told its client
  reply,     \* what each oneshot channel holds
  queue,     \* the mpsc channel
  closed,    \* the receiver was closed or dropped
  wpc,       \* where the writer task is
  draining,
  batch,     \* the reports in the writer's hands, in order of arrival
  results,   \* what became of them; inside the transaction, of a prefix
  tx,        \* the database as the writer's transaction sees it
  task,      \* TelemetryWriterTask: serving, being told to stop, gone
  notified   \* the permit that shutdown.notify stores

handlerVars == <<pc, answer, reply>>
channelVars == <<queue, closed>>
writerVars  == <<wpc, draining, batch, results, tx>>
taskVars    == <<task, notified>>
vars == <<db, handlerVars, channelVars, writerVars, taskVars>>

\* "failed": a statement of the report, or the whole batch, went wrong.
Result == Verdict \cup {"failed"}

\* Besides the results: 429 from the rate limiter or a full queue, 503 from the
\* database, a stopped writer or an expired deadline, and no answer at all.
Outcome == Result \cup {"limited", "full", "unavailable", "deadline", "gone"}

HandlerState == {"idle", "admitted", "reserved", "waiting", "done"}
WriterState  == {"top", "recv", "fill", "select", "begin", "store", "commit", "reply", "ended"}
TaskState    == {"serving", "requested", "stopping", "stopped", "aborted"}

InTransaction == wpc \in {"store", "commit"}
Requested     == task # "serving"
Reserved      == {r \in Request : pc[r] = "reserved"}

\* Mutant: a reserved slot does not count until its report is sent.
FreeSlot == Len(queue) < QueueCapacity

FreePermit == Len(queue) + Cardinality(Reserved) < QueueCapacity

\* What the disk may hold when the process loses a transaction half-way: a
\* COMMIT under way may have reached it or not.
Recovered == IF wpc = "commit" THEN {db, tx} ELSE {db}

Init ==
  /\ db = InitDB
  /\ pc = [r \in Request |-> "idle"]
  /\ answer = [r \in Request |-> "none"]
  /\ reply = [r \in Request |-> "none"]
  /\ queue = <<>> /\ closed = FALSE
  /\ wpc = "top" /\ draining = FALSE /\ batch = <<>> /\ results = <<>> /\ tx = InitDB
  /\ task = "serving" /\ notified = FALSE

-----------------------------------------------------------------------------
(* The handler of POST /report, and TelemetryWriter::submit.               *)

Finish(r, a) ==
  /\ pc' = [pc EXCEPT ![r] = "done"]
  /\ answer' = [answer EXCEPT ![r] = a]
  /\ reply' = [reply EXCEPT ![r] = "none"]

MoveTo(r, state) ==
  /\ pc' = [pc EXCEPT ![r] = state]
  /\ UNCHANGED <<answer, reply>>

\* host_for_token, which may fail, then the token bucket of the host.  A report that
\* names another host or is not valid is refused in between and leaves no trace.
Authenticate(r) ==
  /\ pc[r] = "idle"
  /\ \/ Content[r].host \in db.live /\ MoveTo(r, "admitted")
     \/ Content[r].host \in db.live /\ Finish(r, "limited")
     \/ Content[r].host \notin db.live /\ Finish(r, "unauthorized")
     \/ Finish(r, "unavailable")
  /\ UNCHANGED <<db, channelVars, writerVars, taskVars>>

\* timeout(enqueue_wait, sender.reserve()): the timeout polls reserve first.
Reserve(r) ==
  /\ pc[r] = "admitted"
  /\ \/ closed /\ Finish(r, "unavailable")
     \/ ~closed /\ FreePermit /\ MoveTo(r, "reserved")
     \/ ~closed /\ ~FreePermit /\ Finish(r, "full")
  /\ UNCHANGED <<db, channelVars, writerVars, taskVars>>

\* permit.send never fails, whatever became of the receiver meanwhile.
Send(r) ==
  /\ pc[r] = "reserved"
  /\ queue' = Append(queue, r)
  /\ MoveTo(r, "waiting")
  /\ UNCHANGED <<db, closed, writerVars, taskVars>>

\* timeout_at(deadline, response): the timeout polls the response first.
Receive(r) ==
  /\ pc[r] = "waiting"
  /\ \/ reply[r] \in Result /\ Finish(r, reply[r])
     \/ reply[r] = "dropped" /\ Finish(r, "unavailable")
     \/ reply[r] = "none" /\ Finish(r, "deadline")
  /\ UNCHANGED <<db, channelVars, writerVars, taskVars>>

\* The client hangs up and the handler is dropped where it awaits.  A queued
\* report stays queued.
Disconnect(r) ==
  /\ pc[r] \in {"admitted", "waiting"}
  /\ Finish(r, "gone")
  /\ UNCHANGED <<db, channelVars, writerVars, taskVars>>

Handler(r) ==
  Authenticate(r) \/ Reserve(r) \/ Send(r) \/ Receive(r) \/ Disconnect(r)

\* An administrator deletes a host.  SQLite has one writer at a time.
DeleteHost(h) ==
  /\ h \in db.live
  /\ ~InTransaction
  /\ db' = HostDeleted(db, h)
  /\ UNCHANGED <<handlerVars, channelVars, writerVars, taskVars>>

-----------------------------------------------------------------------------
(* run_writer.                                                             *)

\* Mutant: the writer drains but forgets to close the receiver.
DrainIf(requested) ==
  /\ closed' = closed
  /\ draining' = (draining \/ requested)

CloseIf(requested) ==
  /\ closed' = (closed \/ requested)
  /\ draining' = (draining \/ requested)

WriterTop ==
  /\ wpc = "top"
  /\ CloseIf(Requested)
  /\ wpc' = "recv"
  /\ UNCHANGED <<db, handlerVars, queue, batch, results, tx, taskVars>>

\* The first report of a batch.
WriterRecv ==
  /\ wpc = "recv"
  /\ queue # <<>>
  /\ batch' = <<Head(queue)>>
  /\ queue' = Tail(queue)
  /\ wpc' = "fill"
  /\ UNCHANGED <<db, handlerVars, closed, draining, results, tx, taskVars>>

\* shutdown.notify wakes either select.
WriterNotified ==
  /\ wpc \in {"recv", "select"}
  /\ ~draining /\ notified
  /\ notified' = FALSE
  /\ CloseIf(Requested)
  /\ wpc' = IF wpc = "select" THEN "fill" ELSE "recv"
  /\ UNCHANGED <<db, handlerVars, queue, batch, results, tx, task>>

\* Mutant: a reserved slot is not waited for.
QueueEmpty == closed /\ queue = <<>>

\* recv() yields None only once no permit is outstanding.
Exhausted == closed /\ queue = <<>> /\ Reserved = {}

WriterDrained ==
  /\ wpc = "recv"
  /\ Exhausted
  /\ wpc' = "ended"
  /\ UNCHANGED <<db, handlerVars, channelVars, draining, batch, results, tx, taskVars>>

\* The head of the collecting loop, and its try_recv branch when draining.
WriterFill ==
  /\ wpc = "fill"
  /\ IF Len(batch) = BatchSize
     THEN wpc' = "begin" /\ UNCHANGED <<channelVars, draining, batch>>
     ELSE /\ CloseIf(Requested)
          /\ \/ /\ ~draining'
                /\ wpc' = "select" /\ UNCHANGED <<queue, batch>>
             \/ /\ draining' /\ queue # <<>>
                /\ batch' = Append(batch, Head(queue)) /\ queue' = Tail(queue)
                /\ UNCHANGED wpc
             \/ /\ draining' /\ queue = <<>>
                /\ wpc' = "begin" /\ UNCHANGED <<queue, batch>>
  /\ UNCHANGED <<db, handlerVars, results, tx, taskVars>>

\* The select of the collecting loop: another report, or the flush timer.
WriterSelect ==
  /\ wpc = "select"
  /\ \/ /\ queue # <<>>
        /\ batch' = Append(batch, Head(queue)) /\ queue' = Tail(queue)
        /\ wpc' = "fill"
     \/ /\ wpc' = "begin"
        /\ UNCHANGED <<queue, batch>>
  /\ UNCHANGED <<db, handlerVars, closed, draining, results, tx, taskVars>>

-----------------------------------------------------------------------------
(* persist_batch and store_report_batch.                                   *)

\* The transaction returned an error: every report of the batch failed.
BatchFailed ==
  /\ results' = [i \in 1 .. Len(batch) |-> "failed"]
  /\ tx' = InitDB
  /\ wpc' = "reply"

WriterBegin ==
  /\ wpc = "begin"
  /\ \/ tx' = db /\ wpc' = "store" /\ UNCHANGED results
     \/ BatchFailed
  /\ UNCHANGED <<db, handlerVars, channelVars, draining, batch, taskVars>>

\* One report under its savepoint.  An error of a statement rolls back to the
\* savepoint, an error of the savepoint itself fails the batch.
WriterStore ==
  /\ wpc = "store"
  /\ LET w == Content[batch[Len(results) + 1]]
         Resolve(result) ==
           /\ results' = Append(results, result)
           /\ wpc' = IF Len(results') = Len(batch) THEN "commit" ELSE "store"
     IN  \/ tx' = Stored(tx, w) /\ Resolve(VerdictOn(tx, w))
         \/ UNCHANGED tx /\ Resolve("failed")
         \/ BatchFailed
  /\ UNCHANGED <<db, handlerVars, channelVars, draining, batch, taskVars>>

\* A COMMIT that reports an error may still have reached the disk.
WriterCommit ==
  /\ wpc = "commit"
  /\ \/ db' = tx /\ tx' = InitDB /\ wpc' = "reply" /\ UNCHANGED results
     \/ db' \in Recovered /\ BatchFailed
  /\ UNCHANGED <<handlerVars, channelVars, draining, batch, taskVars>>

\* completion.send: a handler that no longer waits has dropped its receiver.
WriterReply ==
  /\ wpc = "reply"
  /\ LET r == Head(batch)
     IN  reply' = IF pc[r] = "waiting" THEN [reply EXCEPT ![r] = Head(results)] ELSE reply
  /\ batch' = Tail(batch)
  /\ results' = Tail(results)
  /\ wpc' = IF batch' = <<>> THEN "top" ELSE "reply"
  /\ UNCHANGED <<db, pc, answer, channelVars, draining, tx, taskVars>>

Writer ==
  \/ WriterTop \/ WriterRecv \/ WriterNotified \/ WriterDrained
  \/ WriterFill \/ WriterSelect
  \/ WriterBegin \/ WriterStore \/ WriterCommit \/ WriterReply

-----------------------------------------------------------------------------
(* TelemetryWriterTask: shutdown, and its deadline.                        *)

RequestShutdown ==
  /\ task = "serving"
  /\ task' = "requested"
  /\ UNCHANGED <<db, handlerVars, channelVars, writerVars, notified>>

NotifyShutdown ==
  /\ task = "requested"
  /\ task' = "stopping"
  /\ notified' = TRUE
  /\ UNCHANGED <<db, handlerVars, channelVars, writerVars>>

JoinWriter ==
  /\ task = "stopping" /\ wpc = "ended"
  /\ task' = "stopped"
  /\ UNCHANGED <<db, handlerVars, channelVars, writerVars, notified>>

\* The receiver and what it holds are dropped, and with each report the sender
\* of its reply.
Dropped(r) == reply[r] = "none" /\ pc[r] = "waiting"

\* abort() takes effect where the writer awaits.
DrainTimeout ==
  /\ task = "stopping"
  /\ wpc \in {"recv", "select", "begin", "store", "commit"}
  /\ task' = "aborted"
  /\ db' \in Recovered
  /\ reply' = [r \in Request |-> IF Dropped(r) THEN "dropped" ELSE reply[r]]
  /\ wpc' = "ended" /\ draining' = TRUE /\ batch' = <<>> /\ results' = <<>> /\ tx' = InitDB
  /\ queue' = <<>> /\ closed' = TRUE
  /\ UNCHANGED <<pc, answer, notified>>

Task == RequestShutdown \/ NotifyShutdown \/ JoinWriter \/ DrainTimeout

\* The process dies, or exits after shutdown, and is started again.
Restart ==
  /\ db' \in Recovered
  /\ pc' = [r \in Request |-> IF pc[r] = "idle" THEN "idle" ELSE "done"]
  /\ answer' = [r \in Request |-> IF pc[r] \in {"idle", "done"} THEN answer[r] ELSE "gone"]
  /\ reply' = [r \in Request |-> "none"]
  /\ queue' = <<>> /\ closed' = FALSE
  /\ wpc' = "top" /\ draining' = FALSE /\ batch' = <<>> /\ results' = <<>> /\ tx' = InitDB
  /\ task' = "serving" /\ notified' = FALSE

-----------------------------------------------------------------------------
Next ==
  \/ \E r \in Request : Handler(r)
  \/ \E h \in Host : DeleteHost(h)
  \/ Writer
  \/ Task
  \/ Restart

Spec == Init /\ [][Next]_vars

\* The runtime polls the writer task and a handler that is not waiting for
\* anything; clients, administrators and signals owe nothing.
Fairness ==
  /\ WF_vars(Writer)
  /\ \A r \in Request : WF_vars(Send(r))

FairSpec == Spec /\ Fairness
-----------------------------------------------------------------------------
(* Properties.                                                             *)

\* Types, with the two resource bounds of TelemetryWriterConfig: a running
\* writer never has more than QueueCapacity reports queued or about to be
\* queued, nor more than BatchSize in one transaction.
TypeOK ==
  /\ db \in DB /\ tx \in DB
  /\ pc \in [Request -> HandlerState]
  /\ answer \in [Request -> Outcome \cup {"none"}]
  /\ reply \in [Request -> Result \cup {"none", "dropped"}]
  /\ queue \in Seq(Request) /\ closed \in BOOLEAN
  /\ wpc \in WriterState /\ draining \in BOOLEAN
  /\ batch \in Seq(Request) /\ Len(batch) <= BatchSize
  /\ results \in Seq(Result) /\ Len(results) <= Len(batch)
  /\ task \in TaskState /\ notified \in BOOLEAN
  /\ wpc # "ended" => Len(queue) + Cardinality(Reserved) <= QueueCapacity

\* The committed tables are consistent after every batch, crash and deletion:
\* however the reports of a host are reordered, retried and split into batches,
\* its latest pointer names its newest stored report and no other report of
\* the host holds a payload (store_report_in_transaction).
StoreConsistent == Consistent(db)

\* A result is never false: what a client was told stays true of the database
\* until the host it concerns is deleted.
Kept(d, w) == w.host \in d.live => d.row[w.id] # None /\ d.row[w.id].host = w.host

Justified(d, w, a) ==
  /\ a \in {"accepted", "duplicate"} => Kept(d, w)
  /\ a = "unauthorized" => w.host \notin d.live
  /\ a = "conflict" => \E h \in Host \ {w.host} :
                         h \in d.live => d.row[w.id] # None /\ d.row[w.id].host = h

\* A client that was told 202 may drop the report from its spool: it is in the
\* committed database whatever happened since to the batch, the queue or the
\* process (the comment above store_report_batch promises it).
AckDurable ==
  \A r \in Request : answer[r] \in {"accepted", "duplicate"} => Kept(db, Content[r])

\* 401 makes a client give up its pairing and 409 makes it drop the report.
\* Both are final answers, so neither may come from a race: 401 only once the
\* host is deleted, 409 only if the id is another host's.
RejectionsJustified ==
  \A r \in Request :
     answer[r] \in {"unauthorized", "conflict"} => Justified(db, Content[r], answer[r])

\* However often a report is retried, and whatever the answers that were lost,
\* at most one attempt is told accepted=true; a second one can follow only for
\* another host, after the first owner was deleted.
AcceptedOnce ==
  \A r, s \in Request :
     (/\ r # s /\ Content[r].id = Content[s].id
      /\ answer[r] = "accepted" /\ answer[s] = "accepted")
     => /\ Content[r].host # Content[s].host
        /\ ~({Content[r].host, Content[s].host} \subseteq db.live)

\* A writer that ends by itself, not aborted, leaves nobody behind: no report
\* is queued or about to be, and every waiting handler has its result.
GracefulDrain ==
  (wpc = "ended" /\ task # "aborted") =>
     /\ queue = <<>> /\ Reserved = {}
     /\ \A r \in Request : pc[r] = "waiting" => reply[r] \in Result

\* The verdict on a handler that still waits, once it is committed.
CommittedVerdict(r) ==
  IF pc[r] # "waiting" THEN "none"
  ELSE IF reply[r] \in Verdict THEN reply[r]
  ELSE IF wpc = "reply" /\ \E i \in 1 .. Len(batch) : batch[i] = r /\ results[i] \in Verdict
       THEN results[CHOOSE i \in 1 .. Len(batch) : batch[i] = r]
  ELSE "none"

Service == INSTANCE IngestService WITH
  ledger  <- [i \in ReportId |-> IF db.row[i] = None THEN None ELSE db.row[i].host],
  live    <- db.live,
  verdict <- [r \in Request |-> CommittedVerdict(r)],
  answer  <- [r \in Request |-> IF answer[r] \in Verdict \cup {"none"} THEN answer[r]
                                 ELSE "unknown"]

\* Queue, batches, savepoints, deadlines and crashes together are no more than
\* a store that decides on each report in one instant.
ImplementsService == Service!Spec

\* A queued report is answered by the writer alone, without help from the
\* request deadline, unless the process dies.
QueuedAnswered ==
  \A r \in Request :
     (pc[r] = "waiting" /\ ~(wpc = "ended" /\ task = "aborted"))
       ~> (reply[r] # "none" \/ pc[r] = "done" \/ task = "aborted")

\* A writer that is told to stop ends by itself: the drain deadline is only
\* needed when the database is slow (no fairness on DrainTimeout).
ShutdownEnds == (task = "stopping") ~> (wpc = "ended" \/ task = "serving")
=============================================================================
