------------------------------- MODULE Pairing -------------------------------
(***************************************************************************)
(* Pairing (http.rs, store.rs): the handlers that create and cancel        *)
(* invites, create and poll pairing requests, activate them and delete     *)
(* hosts, each in a deferred SQLite transaction on a connection of the     *)
(* pool.  A transaction reads from the snapshot that its first statement   *)
(* takes; its first write asks for the write lock, and fails (BUSY) when   *)
(* another connection has committed since the snapshot.  The writes and    *)
(* COMMIT are one step: other writers wait for it, readers do not see it.  *)
(*                                                                         *)
(* The other writers of the file (reports, retention) only make a snapshot *)
(* stale, which is one more reason for a call to fail.                     *)
(***************************************************************************)
EXTENDS PairingStore, Functions

CONSTANT PoolSize   \* connections of the pool

ASSUME PoolAssumption == PoolSize \in Nat \ {0}

VARIABLES
  db,       \* the committed database
  expired,  \* the requests whose fifteen minutes are over
  pc,       \* where each call is
  seen,     \* the snapshot of its transaction
  clock,    \* the requests that had expired at its Utc::now()
  answer    \* what its caller was told

vars == <<db, expired, pc, seen, clock, answer>>

InFlight == {c \in Call : pc[c] \in {"read", "write"}}

Init ==
  /\ db = InitDB
  /\ expired = {}
  /\ pc = [c \in Call |-> "idle"]
  /\ seen = [c \in Call |-> None]
  /\ clock = [c \in Call |-> {}]
  /\ answer = [c \in Call |-> None]

\* Mutant: a connection is given back while its transaction still reads.
FreeConnectionWriters == Cardinality({c \in Call : pc[c] = "write"}) < PoolSize

FreeConnection == Cardinality(InFlight) < PoolSize

\* The call is over, its connection back in the pool.
Finish(c, a) ==
  /\ pc' = [pc EXCEPT ![c] = "done"]
  /\ seen' = [seen EXCEPT ![c] = None]
  /\ clock' = [clock EXCEPT ![c] = {}]
  /\ answer' = [answer EXCEPT ![c] = a]

\* Identifiers and codes cannot be guessed: what a call names was made by a call
\* that is over.
Named(c) == Range(Op[c]) \cap Call

Known(c) == \A n \in Named(c) : pc[n] = "done"

\* create_invite writes at once, every other transaction reads first.
Begin(c) ==
  /\ pc[c] = "idle" /\ Op[c].kind # "poll"
  /\ Known(c) /\ FreeConnection
  /\ IF Op[c].kind = "invite"
     THEN pc' = [pc EXCEPT ![c] = "write"] /\ UNCHANGED seen
     ELSE pc' = [pc EXCEPT ![c] = "read"] /\ seen' = [seen EXCEPT ![c] = db]
  /\ UNCHANGED <<db, expired, clock, answer>>

\* pairing_status is one statement.
Poll(c) ==
  /\ pc[c] = "idle" /\ Op[c].kind = "poll"
  /\ Known(c) /\ FreeConnection
  /\ \E o \in PairingStatus(c, db, expired) : Finish(c, o.answer)
  /\ UNCHANGED <<db, expired>>

\* What the call has read decides on its answer, or on its first write.
Read(c) ==
  /\ pc[c] = "read"
  /\ IF Writes(c, seen[c], expired)
     THEN /\ pc' = [pc EXCEPT ![c] = "write"]
          /\ clock' = [clock EXCEPT ![c] = expired]
          /\ UNCHANGED <<seen, answer>>
     ELSE \E o \in Outcomes(c, seen[c], expired) : Finish(c, o.answer)
  /\ UNCHANGED <<db, expired>>

Fresh(c) == seen[c] \in {None, db}

Snapshot(c) == IF seen[c] = None THEN db ELSE seen[c]

\* Mutant: the checks are made before the transaction that writes is begun.
WriteCheckedBefore(c) ==
  /\ pc[c] = "write"
  /\ \E o \in Outcomes(c, Snapshot(c), clock[c]) : db' = o.db /\ Finish(c, o.answer)
  /\ UNCHANGED expired

\* The writes of the call and COMMIT.  Its answer may be lost on the way.
Write(c) ==
  /\ pc[c] = "write"
  /\ Fresh(c)
  /\ \E o \in Outcomes(c, Snapshot(c), clock[c]) :
       /\ db' = o.db
       /\ \E a \in {o.answer, "unknown"} : Finish(c, a)
  /\ UNCHANGED expired

\* A stale snapshot, the write lock not to be had in time, an error, a client
\* that disconnects, the process dying: the transaction is rolled back.
Fail(c) ==
  /\ c \in InFlight
  /\ Finish(c, "unknown")
  /\ UNCHANGED <<db, expired>>

Expire(p) ==
  /\ Exists(db, p) /\ p \notin expired
  /\ expired' = expired \cup {p}
  /\ UNCHANGED <<db, pc, seen, clock, answer>>

Next ==
  \/ \E c \in Call : Begin(c) \/ Poll(c) \/ Read(c) \/ Write(c) \/ Fail(c)
  \/ \E p \in Request : Expire(p)

Spec == Init /\ [][Next]_vars
-----------------------------------------------------------------------------
(* Properties.                                                             *)

TypeOK ==
  /\ db \in DB
  /\ expired \subseteq Request
  /\ pc \in [Call -> {"idle", "read", "write", "done"}]
  /\ Cardinality(InFlight) <= PoolSize
  /\ \A c \in Call :
       /\ seen[c] \in DB \cup {None}
       /\ clock[c] \subseteq Request
       /\ answer[c] \in Answer \cup {"unknown", None}
       /\ pc[c] = "done" <=> answer[c] # None

\* Every live host was activated by exactly one pairing request, which holds its
\* credential, from an invite that is active; and every active request or invite
\* has its live host.
PairingsMatchHosts ==
  /\ \A i \in Invite :
       LET Of == {p \in Request : Exists(db, p) /\ db.pairing[p].invite = i}
       IN  IF db.token[i] = None THEN db.invite[i] # "active" /\ Of = {}
           ELSE /\ db.invite[i] = "active"
                /\ Cardinality(Of) = 1
                /\ \A p \in Of : db.pairing[p].token = db.token[i]

\* The checks in the transactions leave the UNIQUE constraints nothing to catch:
\* no two requests share a secret or a token, and the token of a pending one is
\* no host's credential, so an activation that passed its checks cannot fail.
ConstraintsSuffice ==
  /\ \A p, q \in Request :
       (p # q /\ Exists(db, p) /\ Exists(db, q))
         => /\ db.pairing[p].secret # db.pairing[q].secret
            /\ db.pairing[p].token # db.pairing[q].token
  /\ \A p \in Request : Pending(db, p) => \A i \in Invite : db.token[i] # db.pairing[p].token

\* At most MaxPending live pending requests, and at most MaxPerDevice of one
\* device, however many create_pairing calls and cleanups race.
PendingBounded ==
  LET live == {p \in Request : Pending(db, p) /\ p \notin expired}
  IN  /\ Cardinality(live) <= MaxPending
      /\ \A v \in Device : Cardinality({p \in live : db.pairing[p].device = v}) <= MaxPerDevice

\* The audit table tells what became of every invite and host: each change is
\* logged exactly once, with the change, and a deleted instance never comes back.
Audited ==
  \A i \in Invite :
    LET Of(act) == {e \in db.audit : e.target = i /\ e.action = act}
    IN  /\ \A act \in {"create", "cancel", "activate", "delete"} : Cardinality(Of(act)) <= 1
        /\ Of("cancel") = {} \/ Of("activate") = {}
        /\ db.invite[i] = IF Of("create") = {} \/ Of("delete") # {} THEN "absent"
                          ELSE IF Of("cancel") # {} THEN "cancelled"
                          ELSE IF Of("activate") # {} THEN "active" ELSE "pending"

\* Answers stay true whatever ran beside the call: "active" was an activation of
\* that request (with that invite), and a refusal had its reason.
Happened(act, i, P) ==
  \E e \in db.audit : e.action = act /\ e.target = i /\ e.request \in P

AnswersHold ==
  \A c \in Call :
    LET i == IF Op[c].kind = "delete" THEN Op[c].instance ELSE Op[c].invite
    IN  CASE Op[c].kind = "activate" /\ answer[c] = "active" ->
               Happened("activate", i, {Op[c].request})
          [] Op[c].kind = "activate" /\ answer[c] = "conflict" ->
               \/ Happened("activate", i, Request) \/ Happened("cancel", i, {None})
               \/ \E j \in Invite : Happened("activate", j, {Op[c].request})
          [] Op[c].kind = "poll" /\ answer[c] = "active" ->
               \E j \in Invite : Happened("activate", j, {Op[c].request})
          [] Op[c].kind = "cancel" /\ answer[c] = "cancelled" ->
               Happened("cancel", i, {None}) /\ ~Happened("activate", i, Request)
          [] Op[c].kind = "cancel" /\ answer[c] = "not_pending" ->
               Happened("activate", i, Request) \/ Happened("cancel", i, {None})
          [] Op[c].kind = "delete" /\ answer[c] = "deleted" ->
               Happened("delete", i, {None}) /\ db.token[i] = None
          [] OTHER -> TRUE

\* The transactions are serializable: see PairingService.
Service == INSTANCE PairingService
ImplementsService == Service!Spec
=============================================================================
