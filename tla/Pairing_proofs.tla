---------------------------- MODULE Pairing_proofs ----------------------------
(***************************************************************************)
(* Proofs about Pairing, for any calls, limits and pool.                   *)
(*                                                                         *)
(* A database that the calls can produce is Sane: requests, invites and    *)
(* hosts match, the unique columns are unique, and the audit table tells   *)
(* the same story as the others.  Every outcome of a call on a sane        *)
(* database leaves a sane one, provided the rows that the call would       *)
(* insert are not there yet (Unborn).  Snapshots are databases of the past *)
(* and so are sane too; a write works on a snapshot that is still current. *)
(***************************************************************************)
EXTENDS Pairing, FiniteSetTheorems, TLAPS

In(A, act, i) == \E e \in A : e.action = act /\ e.target = i

Told(A, i) ==
  IF ~In(A, "create", i) \/ In(A, "delete", i) THEN "absent"
  ELSE IF In(A, "cancel", i) THEN "cancelled"
  ELSE IF In(A, "activate", i) THEN "active" ELSE "pending"

LogShape(A) ==
  /\ A \in SUBSET Event
  /\ \A e \in A : e.action = "activate" <=> e.request # None
  /\ \A e, f \in A : (e.action = f.action /\ e.target = f.target) => e = f
  /\ \A e \in A : In(A, "create", e.target)
  /\ \A i \in Invite : ~(In(A, "cancel", i) /\ In(A, "activate", i))

ActivationLogged(d) ==
  \A p \in Request : (Exists(d, p) /\ ~Pending(d, p)) =>
     \E e \in d.audit : e.action = "activate" /\ e.target = d.pairing[p].invite /\ e.request = p

Matched(d) ==
  \A i \in Invite :
     /\ d.token[i] = None =>
          /\ d.invite[i] # "active"
          /\ \A p \in Request : Exists(d, p) => d.pairing[p].invite # i
     /\ d.token[i] # None =>
          /\ d.invite[i] = "active"
          /\ \E p \in Request : Exists(d, p) /\ d.pairing[p].invite = i
          /\ \A p, q \in Request :
               (Exists(d, p) /\ Exists(d, q) /\ d.pairing[p].invite = i /\ d.pairing[q].invite = i)
                 => p = q
          /\ \A p \in Request :
               (Exists(d, p) /\ d.pairing[p].invite = i) => d.pairing[p].token = d.token[i]

Distinct(d) ==
  \A p, q \in Request :
     (p # q /\ Exists(d, p) /\ Exists(d, q))
       => /\ d.pairing[p].secret # d.pairing[q].secret
          /\ d.pairing[p].token # d.pairing[q].token

Sane(d) ==
  /\ d \in DB
  /\ Matched(d) /\ Distinct(d)
  /\ LogShape(d.audit) /\ ActivationLogged(d)
  /\ \A i \in Invite : d.invite[i] = Told(d.audit, i)

\* What call c may insert is not there yet.
Unborn(d, c) ==
  /\ \A e \in d.audit : e.target # c
  /\ c \in Request => ~Exists(d, c)

\* What every outcome of a call does.
Good(c, d, o) ==
  /\ Sane(o.db)
  /\ o.answer \in Answer \cup {"unknown"}
  /\ d.audit \subseteq o.db.audit
  /\ \A b \in Call \ {c} : Unborn(d, b) => Unborn(o.db, b)

-----------------------------------------------------------------------------
(* Types and the log.                                                      *)

LEMMA Constants ==
  /\ Invite \subseteq Call /\ Request \subseteq Call
  /\ None \notin Invite /\ None \notin Request
  /\ None \notin Token /\ None \notin Pairing /\ None \notin DB
  /\ \A a \in Answer \cup {"unknown"} : a # None
BY PairingAssumption, NoneAssumption DEF Invite, Request, Calls

\* An event of a kind that its target has not seen yet keeps the log in shape.
LEMMA LogGrows ==
  ASSUME NEW A, LogShape(A), NEW e \in Event,
         e.action = "activate" <=> e.request # None,
         ~In(A, e.action, e.target),
         e.action = "create" \/ In(A, "create", e.target),
         ~(e.action = "cancel" /\ In(A, "activate", e.target)),
         ~(e.action = "activate" /\ In(A, "cancel", e.target))
  PROVE  /\ LogShape(A \cup {e})
         /\ \A act, i : In(A \cup {e}, act, i) <=> (In(A, act, i) \/ (act = e.action /\ i = e.target))
<1>1. \A act, i : In(A \cup {e}, act, i) <=> (In(A, act, i) \/ (act = e.action /\ i = e.target))
  BY DEF In
<1>2. A \cup {e} \in SUBSET Event
  BY DEF LogShape
<1>3. \A f \in A \cup {e} : f.action = "activate" <=> f.request # None
  BY DEF LogShape
<1>4. \A f, g \in A \cup {e} : (f.action = g.action /\ f.target = g.target) => f = g
  BY DEF LogShape, In
<1>5. \A f \in A \cup {e} : In(A \cup {e}, "create", f.target)
  BY <1>1 DEF LogShape
<1>6. \A i \in Invite : ~(In(A \cup {e}, "cancel", i) /\ In(A \cup {e}, "activate", i))
  BY <1>1 DEF LogShape
<1>7. QED
  BY <1>1, <1>2, <1>3, <1>4, <1>5, <1>6 DEF LogShape

\* The initial database is sane, and nothing is born yet.
LEMMA InitSane == Sane(InitDB) /\ \A c \in Call : Unborn(InitDB, c)
<1>1. InitDB \in DB
  BY Constants DEF InitDB, DB
<1>2. Matched(InitDB) /\ Distinct(InitDB) /\ ActivationLogged(InitDB)
  BY Constants DEF InitDB, Matched, Distinct, ActivationLogged, Exists
<1>3. LogShape(InitDB.audit)
  BY DEF InitDB, LogShape, In
<1>4. \A i \in Invite : InitDB.invite[i] = Told(InitDB.audit, i)
  BY DEF InitDB, Told, In
<1>5. QED
  BY <1>1, <1>2, <1>3, <1>4, Constants DEF Sane, Unborn, InitDB, Exists

-----------------------------------------------------------------------------
(* One lemma per kind of call.                                             *)

\* create_invite: the invite is new, so no row and no event mentions it.
LEMMA CreateInviteGood ==
  ASSUME NEW d, Sane(d), NEW c \in Invite, Unborn(d, c), NEW o \in CreateInvite(c, d)
  PROVE  Good(c, d, o)
<1> DEFINE ev == [action |-> "create", target |-> c, request |-> None, by |-> c]
<1>a. d \in DB /\ c \in Call /\ c # None
  BY Constants DEF Sane
<1>b. /\ o.answer = "created"
      /\ o.db.invite = [d.invite EXCEPT ![c] = "pending"]
      /\ o.db.pairing = d.pairing /\ o.db.token = d.token
      /\ o.db.audit = d.audit \cup {ev}
  <2>1. o = [answer |-> "created", db |-> [d EXCEPT !.invite[c] = "pending", !.audit = d.audit \cup {ev}]]
    BY DEF CreateInvite, Reply, Logged
  <2>2. QED
    BY <1>a, <2>1 DEF DB
<1>c. ev \in Event
  BY <1>a DEF Event
<1>d. o.db \in DB
  <2>1. o.db = [d EXCEPT !.invite[c] = "pending", !.audit = d.audit \cup {ev}]
    BY DEF CreateInvite, Reply, Logged
  <2>2. [d.invite EXCEPT ![c] = "pending"] \in [Invite -> {"absent", "pending", "cancelled", "active"}]
    BY <1>a DEF DB
  <2>3. d.audit \cup {ev} \in SUBSET Event
    BY <1>a, <1>c DEF DB
  <2>4. o.db = [d EXCEPT !.invite = [d.invite EXCEPT ![c] = "pending"], !.audit = d.audit \cup {ev}]
    BY <1>a, <2>1 DEF DB
  <2>5. QED
    BY <1>a, <2>2, <2>3, <2>4 DEF DB
<1>e. \A act : ~In(d.audit, act, c)
  BY DEF Unborn, In
<1>f. /\ LogShape(o.db.audit)
      /\ \A act, i : In(o.db.audit, act, i) <=> (In(d.audit, act, i) \/ (act = "create" /\ i = c))
  BY <1>b, <1>c, <1>e, LogGrows DEF Sane
<1>1. d.invite[c] = "absent" /\ d.token[c] = None
  BY <1>e DEF Sane, Told, Matched
<1>2. Matched(o.db) /\ Distinct(o.db)
  BY <1>a, <1>b, <1>1 DEF Sane, Matched, Distinct, Exists, DB
<1>3. ActivationLogged(o.db)
  BY <1>b DEF Sane, ActivationLogged, Exists, Pending
<1>4. \A i \in Invite : o.db.invite[i] = Told(o.db.audit, i)
  <2>1. ASSUME NEW i \in Invite, i # c
        PROVE  o.db.invite[i] = Told(o.db.audit, i)
    <3>1. \A act : In(o.db.audit, act, i) <=> In(d.audit, act, i)
      BY <1>f, <2>1
    <3>2. Told(o.db.audit, i) = Told(d.audit, i)
      BY <3>1 DEF Told
    <3>3. o.db.invite[i] = d.invite[i]
      BY <1>a, <1>b, <2>1 DEF DB
    <3>4. QED
      BY <3>2, <3>3 DEF Sane
  <2>2. o.db.invite[c] = Told(o.db.audit, c)
    <3>1. Told(o.db.audit, c) = "pending"
      BY <1>e, <1>f DEF Told
    <3>2. QED
      BY <3>1, <1>a, <1>b DEF DB
  <2>3. QED
    BY <2>1, <2>2
<1>5. \A b \in Call \ {c} : Unborn(d, b) => Unborn(o.db, b)
  BY <1>b DEF Unborn, Exists
<1>6. QED
  BY <1>b, <1>d, <1>f, <1>2, <1>3, <1>4, <1>5 DEF Good, Sane, Answer

\* An outcome that leaves the database as it was.
LEMMA NothingGood ==
  ASSUME NEW d, Sane(d), NEW c \in Call, NEW a \in Answer \cup {"unknown"}
  PROVE  Good(c, d, Reply(a, d))
BY DEF Good, Reply

\* Invite i goes on to status s, and the audit table says so.
Moves(d, d2, c, act, i, p, s) ==
  /\ \/ act = "cancel" /\ p = None /\ d.invite[i] = "pending" /\ s = "cancelled"
     \/ act = "activate" /\ p \in Request /\ d.invite[i] = "pending" /\ s = "active"
     \/ act = "delete" /\ p = None /\ d.invite[i] = "active" /\ s = "absent"
  /\ d2.invite = [d.invite EXCEPT ![i] = s]
  /\ d2.audit = Logged(d, c, act, i, p)

\* A cancellation, an activation or a deletion is logged with the change.
LEMMA LogFollows ==
  ASSUME NEW d, Sane(d), NEW d2, NEW c \in Call, NEW i \in Invite, NEW p, NEW act, NEW s,
         Moves(d, d2, c, act, i, p, s)
  PROVE  /\ LogShape(d2.audit)
         /\ \A j \in Invite : d2.invite[j] = Told(d2.audit, j)
         /\ d2.invite \in [Invite -> {"absent", "pending", "cancelled", "active"}]
         /\ d2.audit \in SUBSET Event
         /\ d.audit \subseteq d2.audit
         /\ \A b : (\A e \in d.audit : e.target # b) => \A e \in d2.audit : e.target # b
<1> USE DEF Moves
<1>1. d.invite \in [Invite -> {"absent", "pending", "cancelled", "active"}]
  BY DEF Sane, DB
<1>2. PICK e \in Event : /\ e.action = act /\ e.target = i /\ e.request = p
                         /\ d2.audit = d.audit \cup {e}
  <2>1. [action |-> act, target |-> i, request |-> p, by |-> c] \in Event
    BY DEF Event
  <2>2. QED
    BY <2>1 DEF Logged
<1>3. d.invite[i] = Told(d.audit, i)
  BY <1>1 DEF Sane
<1>4. /\ In(d.audit, "create", i) /\ ~In(d.audit, "delete", i) /\ ~In(d.audit, "cancel", i)
      /\ In(d.audit, "activate", i) <=> d.invite[i] = "active"
  BY <1>3 DEF Told
<1>5. /\ LogShape(d2.audit)
      /\ \A a, j : In(d2.audit, a, j) <=> (In(d.audit, a, j) \/ (a = act /\ j = i))
  BY <1>2, <1>4, Constants, LogGrows DEF Sane
<1>6. Told(d2.audit, i) = s
  BY <1>4, <1>5 DEF Told
<1>7. ASSUME NEW j \in Invite, j # i
      PROVE  d2.invite[j] = Told(d2.audit, j)
  <2>1. \A a : In(d2.audit, a, j) <=> In(d.audit, a, j)
    BY <1>5, <1>7
  <2>2. Told(d2.audit, j) = Told(d.audit, j)
    BY <2>1 DEF Told
  <2>3. QED
    BY <1>1, <1>7, <2>2 DEF Sane
<1>8. d2.invite[i] = s /\ d2.invite \in [Invite -> {"absent", "pending", "cancelled", "active"}]
  BY <1>1
<1>9. \A b : (\A f \in d.audit : f.target # b) => \A f \in d2.audit : f.target # b
  BY <1>2, <1>4 DEF In
<1>10. QED
  BY <1>2, <1>5, <1>6, <1>7, <1>8, <1>9 DEF LogShape

\* The rows of the tables that a step leaves alone.
LEMMA FieldsOf ==
  ASSUME NEW d \in DB
  PROVE  /\ d.invite \in [Invite -> {"absent", "pending", "cancelled", "active"}]
         /\ d.pairing \in [Request -> Pairing \cup {None}]
         /\ d.token \in [Invite -> Token \cup {None}]
         /\ d.audit \in SUBSET Event
BY DEF DB

\* cancel_invite.
LEMMA CancelInviteGood ==
  ASSUME NEW d, Sane(d), NEW c \in Calls("cancel"), NEW o \in CancelInvite(c, d)
  PROVE  Good(c, d, o)
<1> DEFINE i == Op[c].invite
<1> DEFINE ev == [action |-> "cancel", target |-> i, request |-> None, by |-> c]
<1>1. i \in Invite /\ c \in Call /\ d \in DB
  BY PairingAssumption DEF Calls, Sane
<1>2. CASE d.invite[i] = "pending"
  <2>1. o = [answer |-> "cancelled", db |-> [d EXCEPT !.invite[i] = "cancelled", !.audit = d.audit \cup {ev}]]
    BY <1>2 DEF CancelInvite, Reply, Logged
  <2>2. o.db = [d EXCEPT !.invite = [d.invite EXCEPT ![i] = "cancelled"], !.audit = d.audit \cup {ev}]
    BY <1>1, <2>1 DEF DB
  <2>3. /\ o.db.invite = [d.invite EXCEPT ![i] = "cancelled"] /\ o.db.audit = d.audit \cup {ev}
        /\ o.db.pairing = d.pairing /\ o.db.token = d.token
    BY <1>1, <2>2 DEF DB
  <2>4. Moves(d, o.db, c, "cancel", i, None, "cancelled")
    BY <1>2, <2>3 DEF Moves, Logged
  <2>5. /\ LogShape(o.db.audit) /\ \A j \in Invite : o.db.invite[j] = Told(o.db.audit, j)
        /\ o.db.invite \in [Invite -> {"absent", "pending", "cancelled", "active"}]
        /\ o.db.audit \in SUBSET Event /\ d.audit \subseteq o.db.audit
        /\ \A b : (\A e \in d.audit : e.target # b) => \A e \in o.db.audit : e.target # b
    BY <1>1, <2>4, LogFollows
  <2>6. o.db \in DB
    BY <1>1, <2>2, <2>3, <2>5 DEF DB
  <2>7. Matched(o.db)
    <3>1. d.token[i] = None
      BY <1>1, <1>2 DEF Sane, Matched
    <3>2. QED
      BY <1>1, <2>3, <3>1, FieldsOf DEF Sane, Matched, Exists
  <2>8. Distinct(o.db)
    BY <2>3 DEF Sane, Distinct, Exists
  <2>9. ActivationLogged(o.db)
    BY <2>3 DEF Sane, ActivationLogged, Exists, Pending
  <2>10. \A b \in Call : Unborn(d, b) => Unborn(o.db, b)
    BY <2>3, <2>5 DEF Unborn, Exists
  <2>11. o.answer \in Answer
    BY <2>1 DEF Answer
  <2>12. QED
    BY <2>3, <2>5, <2>6, <2>7, <2>8, <2>9, <2>10, <2>11 DEF Good, Sane
<1>3. CASE d.invite[i] # "pending"
  <2>1. o \in {Reply("not_found", d), Reply("not_pending", d)}
    BY <1>1, <1>3, FieldsOf DEF CancelInvite
  <2>2. QED
    BY <1>1, <2>1, NothingGood DEF Answer
<1>4. QED
  BY <1>2, <1>3

\* pairing_status.
LEMMA PairingStatusGood ==
  ASSUME NEW d, Sane(d), NEW c \in Calls("poll"), NEW X, NEW o \in PairingStatus(c, d, X)
  PROVE  Good(c, d, o)
BY NothingGood DEF PairingStatus, Calls, Answer

\* The cleanup takes away pending requests only, to which nothing refers.
LEMMA CleanedUpSane ==
  ASSUME NEW d, Sane(d), NEW R \in SUBSET {p \in Request : Pending(d, p)}
  PROVE  LET e == CleanedUp(d, R)
         IN  /\ Sane(e) /\ e.audit = d.audit /\ e.invite = d.invite /\ e.token = d.token
             /\ \A p \in Request : e.pairing[p] = IF p \in R THEN None ELSE d.pairing[p]
             /\ \A c \in Call : Unborn(d, c) => Unborn(e, c)
<1> DEFINE e == CleanedUp(d, R)
<1>1. d \in DB
  BY DEF Sane
<1>2. /\ e.audit = d.audit /\ e.invite = d.invite /\ e.token = d.token
      /\ e.pairing = [p \in Request |-> IF p \in R THEN None ELSE d.pairing[p]]
  BY <1>1, FieldsOf DEF CleanedUp, DB
<1>3. \A p \in Request : e.pairing[p] = IF p \in R THEN None ELSE d.pairing[p]
  BY <1>2
<1>4. e \in DB
  BY <1>1, FieldsOf DEF CleanedUp, DB
<1> HIDE DEF e
<1>5. \A p \in Request : Exists(e, p) => /\ Exists(d, p) /\ e.pairing[p] = d.pairing[p]
                                         /\ Pending(e, p) <=> Pending(d, p)
  BY <1>3 DEF Exists, Pending
<1>6. \A p \in Request : (Exists(d, p) /\ d.pairing[p].invite # None) =>
         Exists(e, p) /\ e.pairing[p] = d.pairing[p]
  BY <1>3 DEF Exists, Pending
<1>7. Matched(e)
  BY <1>2, <1>5, <1>6, Constants DEF Sane, Matched
<1>8. Distinct(e)
  BY <1>5 DEF Sane, Distinct
<1>9. ActivationLogged(e)
  BY <1>2, <1>5 DEF Sane, ActivationLogged
<1>10. \A c \in Call : Unborn(d, c) => Unborn(e, c)
  BY <1>2, <1>5 DEF Unborn
<1>11. Sane(e)
  BY <1>2, <1>4, <1>7, <1>8, <1>9 DEF Sane
<1>12. QED
  BY <1>2, <1>3, <1>10, <1>11 DEF e

\* create_pairing: the row is new, and so are its secret and its token.
LEMMA CreatePairingGood ==
  ASSUME NEW d, Sane(d), NEW c \in Request, Unborn(d, c), NEW X, NEW o \in CreatePairing(c, d, X)
  PROVE  Good(c, d, o)
<1>1. c \in Call
  BY Constants
<1>2. CASE SameSecret(d, c) # {}
  <2>1. o \in {Reply("conflict", d), Reply("expired", d), Reply("ready", d)}
    BY <1>2 DEF CreatePairing, Replayed
  <2>2. QED
    BY <1>1, <2>1, NothingGood DEF Answer
<1>3. CASE SameSecret(d, c) = {}
  <2>1. PICK R \in SUBSET {p \in Request : Pending(d, p)} : o = Inserted(c, CleanedUp(d, R), X, d)
    BY <1>3 DEF CreatePairing, kSubset
  <2>2. PICK e : e = CleanedUp(d, R)
    OBVIOUS
  <2>3. /\ Sane(e) /\ e.audit = d.audit /\ e.invite = d.invite /\ e.token = d.token
        /\ \A p \in Request : e.pairing[p] = IF p \in R THEN None ELSE d.pairing[p]
        /\ \A b \in Call : Unborn(d, b) => Unborn(e, b)
    BY <2>2, CleanedUpSane
  <2>4. CASE o.db \in {d, e} /\ o.answer \in Answer
    BY <1>1, <2>3, <2>4 DEF Good, Answer
  <2>5. CASE /\ TokenFree(e, c)
             /\ o = Reply("created", [e EXCEPT !.pairing[c] =
                      [secret |-> Op[c].secret, device |-> Op[c].device,
                       token |-> Op[c].token, invite |-> None]])
    <3> DEFINE row == [secret |-> Op[c].secret, device |-> Op[c].device,
                       token |-> Op[c].token, invite |-> None]
    <3>1. row \in Pairing /\ row # None
      BY Constants DEF Pairing, Secret, Device, Token
    <3>2. e \in DB
      BY <2>3 DEF Sane
    <3>3. o.db = [e EXCEPT !.pairing = [e.pairing EXCEPT ![c] = row]]
      BY <2>5, <3>2 DEF Reply, DB
    <3>4. /\ o.db.invite = e.invite /\ o.db.token = e.token /\ o.db.audit = e.audit
          /\ o.db.pairing = [e.pairing EXCEPT ![c] = row]
      BY <3>2, <3>3 DEF DB
    <3>5. o.db \in DB
      <4> HIDE DEF row
      <4> QED
        BY <3>1, <3>2, <3>3, FieldsOf DEF DB
    <3>6. ~Exists(e, c)
      BY <1>1, <2>3 DEF Unborn
    <3>7. \A p \in Request : o.db.pairing[p] = IF p = c THEN row ELSE e.pairing[p]
      <4> HIDE DEF row
      <4> QED
        BY <3>2, <3>4, FieldsOf
    <3>8. Matched(o.db)
      BY <2>3, <3>4, <3>6, <3>7, Constants DEF Sane, Matched, Exists
    <3>9. Distinct(o.db)
      <4>1. \A p \in Request \ {c} : Exists(e, p) => e.pairing[p].secret # row.secret
        BY <1>3, <2>3 DEF SameSecret, Exists
      <4>2. \A p \in Request : Exists(e, p) => e.pairing[p].token # row.token
        BY <2>5 DEF TokenFree
      <4>3. \A p \in Request \ {c} : o.db.pairing[p] = e.pairing[p]
        BY <3>7
      <4>4. o.db.pairing[c] = row
        BY <3>7
      <4> HIDE DEF row
      <4>5. QED
        BY <2>3, <4>1, <4>2, <4>3, <4>4 DEF Sane, Distinct, Exists
    <3>10. ActivationLogged(o.db)
      BY <2>3, <3>4, <3>7 DEF Sane, ActivationLogged, Exists, Pending
    <3>11. \A b \in Call \ {c} : Unborn(d, b) => Unborn(o.db, b)
      BY <2>3, <3>4, <3>7 DEF Unborn, Exists
    <3>12. o.answer \in Answer
      BY <2>5 DEF Reply, Answer
    <3>13. QED
      BY <2>3, <3>4, <3>5, <3>8, <3>9, <3>10, <3>11, <3>12 DEF Good, Sane
  <2>6. QED
    BY <2>1, <2>2, <2>4, <2>5 DEF Inserted, Reply, Answer
<1>4. QED
  BY <1>2, <1>3

\* activate: a request and an invite that are both pending are bound to each
\* other and to the new host, which thereby has exactly this request.
LEMMA ActivateGood ==
  ASSUME NEW d, Sane(d), NEW c \in Calls("activate"), NEW X, NEW o \in Activate(c, d, X)
  PROVE  Good(c, d, o)
<1> DEFINE p == Op[c].request
           i == Op[c].invite
           row == d.pairing[p]
           row2 == [row EXCEPT !.invite = i]
<1>1. p \in Request /\ i \in Invite /\ c \in Call /\ d \in DB
  BY PairingAssumption DEF Calls, Sane
<1>2. CASE /\ Pending(d, p) /\ Usable(d, i)
           /\ d.token[i] = None /\ \A j \in Invite : d.token[j] # row.token
           /\ o = Reply("active", [d EXCEPT !.token[i] = row.token,
                                            !.pairing[p].invite = i,
                                            !.invite[i] = "active",
                                            !.audit = Logged(d, c, "activate", i, p)])
  <2>1. row \in Pairing /\ row # None /\ row.invite = None
    BY <1>1, <1>2, FieldsOf DEF Pending, Exists
  <2>2. row2 \in Pairing /\ row2 # None /\ row2.invite = i
        /\ row2.token = row.token /\ row2.secret = row.secret /\ i # None /\ row.token \in Token
    <3>1. row2 \in Pairing /\ row2.invite = i /\ row2.token = row.token /\ row2.secret = row.secret
      BY <1>1, <2>1 DEF Pairing
    <3>2. QED
      BY <1>1, <2>1, <3>1, Constants DEF Pairing
  <2>3. o.db = [d EXCEPT !.token = [d.token EXCEPT ![i] = row.token],
                         !.pairing = [d.pairing EXCEPT ![p] = row2],
                         !.invite = [d.invite EXCEPT ![i] = "active"],
                         !.audit = Logged(d, c, "activate", i, p)]
    BY <1>1, <1>2 DEF Reply, DB
  <2> HIDE DEF row2
  <2>4. /\ o.db.token = [d.token EXCEPT ![i] = row.token]
        /\ o.db.pairing = [d.pairing EXCEPT ![p] = row2]
        /\ o.db.invite = [d.invite EXCEPT ![i] = "active"]
        /\ o.db.audit = Logged(d, c, "activate", i, p)
    BY <1>1, <2>3 DEF DB
  <2>5. Moves(d, o.db, c, "activate", i, p, "active")
    BY <1>1, <1>2, <2>4 DEF Moves, Usable
  <2>6. /\ LogShape(o.db.audit) /\ \A j \in Invite : o.db.invite[j] = Told(o.db.audit, j)
        /\ o.db.invite \in [Invite -> {"absent", "pending", "cancelled", "active"}]
        /\ o.db.audit \in SUBSET Event /\ d.audit \subseteq o.db.audit
        /\ \A b : (\A e \in d.audit : e.target # b) => \A e \in o.db.audit : e.target # b
    <3> DEFINE n == o.db
    <3>1. Moves(d, n, c, "activate", i, p, "active") /\ i \in Invite /\ c \in Call
      BY <1>1, <2>5
    <3> HIDE DEF n, i, p, row
    <3>2. /\ LogShape(n.audit) /\ \A j \in Invite : n.invite[j] = Told(n.audit, j)
          /\ n.invite \in [Invite -> {"absent", "pending", "cancelled", "active"}]
          /\ n.audit \in SUBSET Event /\ d.audit \subseteq n.audit
          /\ \A b : (\A e \in d.audit : e.target # b) => \A e \in n.audit : e.target # b
      BY <3>1, LogFollows
    <3>3. QED
      BY <3>2 DEF n
  <2>7. o.db.token \in [Invite -> Token \cup {None}] /\ o.db.pairing \in [Request -> Pairing \cup {None}]
    <3>1. /\ d.token \in [Invite -> Token \cup {None}] /\ d.pairing \in [Request -> Pairing \cup {None}]
          /\ row.token \in Token /\ row2 \in Pairing
      BY <1>1, <2>2, FieldsOf
    <3> HIDE DEF row, i, p
    <3>2. o.db.token \in [Invite -> Token \cup {None}]
      BY <2>4, <3>1
    <3>3. o.db.pairing \in [Request -> Pairing \cup {None}]
      BY <2>4, <3>1
    <3>4. QED
      BY <3>2, <3>3
  <2>8. o.db \in DB
    BY <1>1, <2>3, <2>6, <2>7 DEF DB
  <2>9. /\ \A q \in Request : o.db.pairing[q] = IF q = p THEN row2 ELSE d.pairing[q]
        /\ \A j \in Invite : o.db.token[j] = IF j = i THEN row.token ELSE d.token[j]
        /\ \A j \in Invite : o.db.invite[j] = IF j = i THEN "active" ELSE d.invite[j]
    BY <1>1, <2>4, FieldsOf
  <2>10. Matched(o.db)
    <3>1. \A q \in Request : Exists(d, q) => d.pairing[q].invite # i
      BY <1>1, <1>2 DEF Sane, Matched
    <3>2. ASSUME NEW j \in Invite, j # i
          PROVE  /\ o.db.token[j] = d.token[j] /\ o.db.invite[j] = d.invite[j]
                 /\ \A q \in Request : (Exists(o.db, q) /\ o.db.pairing[q].invite = j)
                                         <=> (Exists(d, q) /\ d.pairing[q].invite = j)
                 /\ \A q \in Request : (Exists(o.db, q) /\ o.db.pairing[q].invite = j)
                                         => o.db.pairing[q] = d.pairing[q]
      BY <1>1, <2>1, <2>2, <2>9, <3>2, Constants DEF Exists
    <3>3. /\ o.db.token[i] = row.token /\ o.db.invite[i] = "active" /\ o.db.token[i] # None
          /\ \A q \in Request : (Exists(o.db, q) /\ o.db.pairing[q].invite = i) <=> q = p
          /\ o.db.pairing[p].token = row.token
      BY <1>1, <2>2, <2>9, <3>1, Constants DEF Exists
    <3>4. ASSUME NEW j \in Invite
          PROVE  /\ o.db.token[j] = None =>
                      /\ o.db.invite[j] # "active"
                      /\ \A q \in Request : Exists(o.db, q) => o.db.pairing[q].invite # j
                 /\ o.db.token[j] # None =>
                      /\ o.db.invite[j] = "active"
                      /\ \E q \in Request : Exists(o.db, q) /\ o.db.pairing[q].invite = j
                      /\ \A q, r \in Request :
                           (Exists(o.db, q) /\ Exists(o.db, r)
                              /\ o.db.pairing[q].invite = j /\ o.db.pairing[r].invite = j) => q = r
                      /\ \A q \in Request :
                           (Exists(o.db, q) /\ o.db.pairing[q].invite = j)
                             => o.db.pairing[q].token = o.db.token[j]
      <4>1. CASE j = i
        BY <1>1, <3>3, <4>1
      <4>2. CASE j # i
        <5>1. /\ d.token[j] = None =>
                   /\ d.invite[j] # "active"
                   /\ \A q \in Request : Exists(d, q) => d.pairing[q].invite # j
              /\ d.token[j] # None =>
                   /\ d.invite[j] = "active"
                   /\ \E q \in Request : Exists(d, q) /\ d.pairing[q].invite = j
                   /\ \A q, r \in Request :
                        (Exists(d, q) /\ Exists(d, r)
                           /\ d.pairing[q].invite = j /\ d.pairing[r].invite = j) => q = r
                   /\ \A q \in Request :
                        (Exists(d, q) /\ d.pairing[q].invite = j) => d.pairing[q].token = d.token[j]
          BY DEF Sane, Matched
        <5>2. QED
          BY <3>2, <4>2, <5>1
      <4>3. QED
        BY <4>1, <4>2
    <3>5. QED
      BY <3>4 DEF Matched
  <2>11. Distinct(o.db)
    <3>1. \A q \in Request : Exists(o.db, q) =>
             /\ Exists(d, q) /\ o.db.pairing[q].secret = d.pairing[q].secret
             /\ o.db.pairing[q].token = d.pairing[q].token
      BY <1>1, <2>1, <2>2, <2>9 DEF Exists
    <3>2. QED
      BY <3>1 DEF Sane, Distinct
  <2>12. ActivationLogged(o.db)
    <3>1. \E e \in o.db.audit : e.action = "activate" /\ e.target = i /\ e.request = p
      <4>1. [action |-> "activate", target |-> i, request |-> p, by |-> c] \in o.db.audit
        BY <2>4 DEF Logged
      <4> HIDE DEF p, i
      <4>2. QED
        BY <4>1
    <3>2. QED
      BY <1>1, <2>2, <2>6, <2>9, <3>1 DEF Sane, ActivationLogged, Exists, Pending
  <2>13. \A b \in Call : Unborn(d, b) => Unborn(o.db, b)
    BY <1>1, <2>1, <2>6, <2>9 DEF Unborn, Exists
  <2>14. o.answer \in Answer
    BY <1>2 DEF Reply, Answer
  <2>15. QED
    BY <2>6, <2>8, <2>10, <2>11, <2>12, <2>13, <2>14 DEF Good, Sane
<1>3. CASE o.db = d /\ o.answer \in Answer \cup {"unknown"}
  BY <1>1, <1>3 DEF Good
<1>4. QED
  BY <1>2, <1>3 DEF Activate, Reply, Answer

\* delete_host: the host and every request that refers to it go.
LEMMA DeleteHostGood ==
  ASSUME NEW d, Sane(d), NEW c \in Calls("delete"), NEW o \in DeleteHost(c, d)
  PROVE  Good(c, d, o)
<1> DEFINE i == Op[c].instance
<1>1. i \in Invite /\ c \in Call /\ d \in DB
  BY PairingAssumption DEF Calls, Sane
<1>2. CASE d.token[i] # None
  <2>1. /\ o.answer = "deleted"
        /\ o.db = [invite  |-> [d.invite EXCEPT ![i] = "absent"],
                   pairing |-> [p \in Request |-> IF Belongs(d, p, i) THEN None ELSE d.pairing[p]],
                   token   |-> [d.token EXCEPT ![i] = None],
                   audit   |-> Logged(d, c, "delete", i, None)]
    BY <1>2 DEF DeleteHost, Reply
  <2>2. d.invite[i] = "active"
    BY <1>1, <1>2 DEF Sane, Matched
  <2>3. Moves(d, o.db, c, "delete", i, None, "absent")
    BY <2>1, <2>2 DEF Moves
  <2>4. /\ LogShape(o.db.audit) /\ \A j \in Invite : o.db.invite[j] = Told(o.db.audit, j)
        /\ o.db.invite \in [Invite -> {"absent", "pending", "cancelled", "active"}]
        /\ o.db.audit \in SUBSET Event /\ d.audit \subseteq o.db.audit
        /\ \A b : (\A e \in d.audit : e.target # b) => \A e \in o.db.audit : e.target # b
    BY <1>1, <2>3, LogFollows
  <2>5. /\ \A q \in Request : o.db.pairing[q] = IF Belongs(d, q, i) THEN None ELSE d.pairing[q]
        /\ \A j \in Invite : o.db.token[j] = IF j = i THEN None ELSE d.token[j]
        /\ \A j \in Invite : o.db.invite[j] = IF j = i THEN "absent" ELSE d.invite[j]
    BY <1>1, <2>1, FieldsOf
  <2>6. o.db.token \in [Invite -> Token \cup {None}] /\ o.db.pairing \in [Request -> Pairing \cup {None}]
    BY <1>1, <2>1, FieldsOf
  <2>7. o.db \in DB
    BY <2>1, <2>4, <2>6 DEF DB
  <2>8. \A q \in Request : Exists(o.db, q) =>
           /\ Exists(d, q) /\ o.db.pairing[q] = d.pairing[q] /\ d.pairing[q].invite # i
           /\ Pending(o.db, q) <=> Pending(d, q)
    BY <2>5 DEF Exists, Pending, Belongs
  <2>9. \A j \in Invite : j # i => \A q \in Request :
           (Exists(d, q) /\ d.pairing[q].invite = j) => Exists(o.db, q)
    BY <2>5, Constants DEF Exists, Pending, Belongs
  <2>10. Matched(o.db)
    <3>1. ASSUME NEW j \in Invite, j # i
          PROVE  /\ o.db.token[j] = d.token[j] /\ o.db.invite[j] = d.invite[j]
                 /\ \A q \in Request : (Exists(o.db, q) /\ o.db.pairing[q].invite = j)
                                         <=> (Exists(d, q) /\ d.pairing[q].invite = j)
                 /\ \A q \in Request : Exists(o.db, q) => o.db.pairing[q] = d.pairing[q]
      BY <2>5, <2>8, <2>9, <3>1
    <3>2. /\ o.db.token[i] = None /\ o.db.invite[i] # "active"
          /\ \A q \in Request : Exists(o.db, q) => o.db.pairing[q].invite # i
      BY <1>1, <2>5, <2>8
    <3>3. QED
      BY <3>1, <3>2 DEF Sane, Matched
  <2>11. Distinct(o.db)
    BY <2>8 DEF Sane, Distinct
  <2>12. ActivationLogged(o.db)
    BY <2>4, <2>8 DEF Sane, ActivationLogged
  <2>13. \A b \in Call : Unborn(d, b) => Unborn(o.db, b)
    BY <2>4, <2>8 DEF Unborn
  <2>14. QED
    BY <2>1, <2>4, <2>7, <2>10, <2>11, <2>12, <2>13 DEF Good, Sane, Answer
<1>3. CASE d.token[i] = None
  BY <1>1, <1>3, NothingGood DEF DeleteHost, Answer
<1>4. QED
  BY <1>2, <1>3

\* Together: each kind of call, where what it may insert is not there yet.
LEMMA OutcomesGood ==
  ASSUME NEW d, Sane(d), NEW c \in Call, Unborn(d, c), NEW X, NEW o \in Outcomes(c, d, X)
  PROVE  Good(c, d, o)
<1>1. \/ Op[c].kind = "invite" /\ c \in Invite
      \/ Op[c].kind = "cancel" /\ c \in Calls("cancel")
      \/ Op[c].kind = "pair" /\ c \in Request
      \/ Op[c].kind = "poll" /\ c \in Calls("poll")
      \/ Op[c].kind = "activate" /\ c \in Calls("activate")
      \/ Op[c].kind = "delete" /\ c \in Calls("delete")
  BY PairingAssumption DEF Invite, Request, Calls
<1>2. QED
  BY <1>1, CreateInviteGood, CancelInviteGood, CreatePairingGood, PairingStatusGood,
     ActivateGood, DeleteHostGood DEF Outcomes

-----------------------------------------------------------------------------
(* The inductive invariant.                                                *)

Types ==
  /\ expired \in SUBSET Request
  /\ pc \in [Call -> {"idle", "read", "write", "done"}]
  /\ seen \in [Call -> DB \cup {None}]
  /\ clock \in [Call -> SUBSET Request]
  /\ answer \in [Call -> Answer \cup {"unknown", None}]

\* A call holds a snapshot of the past while it is in flight, and has come to a
\* write only if what it read there calls for one.
CallOK(c) ==
  /\ pc[c] = "done" <=> answer[c] # None
  /\ pc[c] # "done" => Unborn(db, c)
  /\ pc[c] \in {"read", "write"} => Op[c].kind # "poll"
  /\ pc[c] = "read" => Op[c].kind # "invite" /\ seen[c] # None
  /\ pc[c] = "write" => \/ Op[c].kind = "invite"
                        \/ seen[c] # None /\ Writes(c, seen[c], clock[c])
  /\ pc[c] \notin {"read", "write"} => seen[c] = None
  /\ seen[c] # None => Sane(seen[c]) /\ Unborn(seen[c], c) /\ seen[c].audit \subseteq db.audit
  /\ clock[c] \subseteq expired

IInv ==
  /\ Types
  /\ Sane(db)
  /\ Cardinality(InFlight) <= PoolSize
  /\ \A c \in Call : CallOK(c)

LEMMA InitInv == Init => IInv
<1> SUFFICES ASSUME Init PROVE IInv
  OBVIOUS
<1>1. Types
  BY Constants DEF Init, Types
<1>2. Sane(db) /\ \A c \in Call : Unborn(db, c)
  BY InitSane DEF Init
<1>3. Cardinality(InFlight) <= PoolSize
  <2>1. InFlight = {}
    BY DEF Init, InFlight
  <2>2. QED
    BY <2>1, FS_EmptySet, PoolAssumption
<1>4. \A c \in Call : CallOK(c)
  BY <1>2 DEF Init, CallOK
<1>5. QED
  BY <1>1, <1>2, <1>3, <1>4 DEF IInv

\* A call that is not in flight afterwards leaves its connection free.
LEMMA PoolKept ==
  ASSUME IInv, NEW c \in Call, pc' = [pc EXCEPT ![c] = "done"]
  PROVE  Cardinality(InFlight)' <= PoolSize
<1>1. InFlight' \subseteq InFlight /\ IsFiniteSet(InFlight)
  <2>1. InFlight \subseteq Call
    BY DEF InFlight
  <2>2. QED
    BY <2>1, FS_Subset, PairingAssumption DEF IInv, Types, InFlight
<1>2. Cardinality(InFlight') <= Cardinality(InFlight)
  BY <1>1, FS_Subset
<1>3. QED
  BY <1>1, <1>2, FS_CardinalityType, FS_Subset, PoolAssumption DEF IInv

\* A call that ends without a write.
LEMMA FinishInv ==
  ASSUME IInv, NEW c \in Call, NEW a \in Answer \cup {"unknown"}, Finish(c, a),
         UNCHANGED <<db, expired>>
  PROVE  IInv'
<1>1. Types'
  BY DEF IInv, Types, Finish
<1>2. Cardinality(InFlight)' <= PoolSize
  BY PoolKept DEF Finish
<1>3. CallOK(c)'
  BY Constants DEF IInv, Types, CallOK, Finish
<1>4. ASSUME NEW b \in Call \ {c} PROVE CallOK(b)'
  BY DEF IInv, Types, CallOK, Finish
<1>5. QED
  BY <1>1, <1>2, <1>3, <1>4 DEF IInv

\* A write of the call is a write on the committed database.
LEMMA WriteOnCurrent ==
  ASSUME IInv, NEW c \in Call, pc[c] = "write", Fresh(c)
  PROVE  /\ Snapshot(c) = db /\ Writes(c, db, clock[c]) /\ Unborn(db, c)
         /\ \A o \in Outcomes(c, Snapshot(c), clock[c]) : Good(c, db, o)
<1>1. Snapshot(c) = db
  BY DEF Snapshot, Fresh
<1>2. Unborn(db, c) /\ Sane(db)
  BY DEF IInv, CallOK
<1>3. Writes(c, db, clock[c])
  BY DEF IInv, CallOK, Fresh, Writes
<1>4. QED
  BY <1>1, <1>2, <1>3, OutcomesGood

LEMMA StepInv == IInv /\ [Next]_vars => IInv'
<1> SUFFICES ASSUME IInv, [Next]_vars PROVE IInv'
  OBVIOUS
<1>1. ASSUME NEW c \in Call, Begin(c) PROVE IInv'
  <2>1. db \in DB /\ db # None
    BY Constants DEF IInv, Sane
  <2>2. Types'
    BY <1>1, <2>1 DEF IInv, Types, Begin
  <2>3. Cardinality(InFlight)' <= PoolSize
    <3>1. InFlight' = InFlight \cup {c} /\ c \notin InFlight
      BY <1>1 DEF IInv, Types, Begin, InFlight
    <3>2. IsFiniteSet(InFlight)
      <4>1. InFlight \subseteq Call
        BY DEF InFlight
      <4>2. QED
        BY <4>1, FS_Subset, PairingAssumption
    <3>3. Cardinality(InFlight') = Cardinality(InFlight) + 1
      BY <3>1, <3>2, FS_AddElement
    <3>4. QED
      BY <1>1, <3>2, <3>3, FS_CardinalityType, PoolAssumption DEF Begin, FreeConnection
  <2>4. CallOK(c)'
    BY <1>1, <2>1 DEF IInv, Types, CallOK, Begin
  <2>5. ASSUME NEW b \in Call \ {c} PROVE CallOK(b)'
    BY <1>1 DEF IInv, Types, CallOK, Begin
  <2>6. QED
    BY <1>1, <2>2, <2>3, <2>4, <2>5 DEF IInv, Begin
<1>2. ASSUME NEW c \in Call, Poll(c) PROVE IInv'
  <2>1. PICK o \in PairingStatus(c, db, expired) : Finish(c, o.answer)
    BY <1>2 DEF Poll
  <2>2. c \in Calls("poll") /\ Sane(db)
    BY <1>2 DEF Poll, Calls, IInv
  <2>3. o.answer \in Answer \cup {"unknown"}
    BY <2>2, PairingStatusGood DEF Good
  <2>4. QED
    BY <1>2, <2>1, <2>3, FinishInv DEF Poll
<1>3. ASSUME NEW c \in Call, Read(c) PROVE IInv'
  <2>1. CASE Writes(c, seen[c], expired)
    <3>1. /\ pc' = [pc EXCEPT ![c] = "write"] /\ clock' = [clock EXCEPT ![c] = expired]
          /\ pc[c] = "read" /\ UNCHANGED <<db, expired, seen, answer>>
      BY <1>3, <2>1 DEF Read
    <3>2. Types'
      BY <3>1 DEF IInv, Types
    <3>3. InFlight' = InFlight
      BY <3>1 DEF IInv, Types, InFlight
    <3>4. CallOK(c)'
      BY <2>1, <3>1 DEF IInv, Types, CallOK
    <3>5. ASSUME NEW b \in Call \ {c} PROVE CallOK(b)'
      BY <3>1 DEF IInv, Types, CallOK
    <3>6. QED
      BY <3>1, <3>2, <3>3, <3>4, <3>5 DEF IInv
  <2>2. CASE ~Writes(c, seen[c], expired)
    <3>1. PICK o \in Outcomes(c, seen[c], expired) : Finish(c, o.answer)
      BY <1>3, <2>2 DEF Read
    <3>2. Sane(seen[c]) /\ Unborn(seen[c], c)
      BY <1>3 DEF IInv, CallOK, Read
    <3>3. o.answer \in Answer \cup {"unknown"}
      BY <3>2, OutcomesGood DEF Good
    <3>4. QED
      BY <1>3, <3>1, <3>3, FinishInv DEF Read
  <2>3. QED
    BY <2>1, <2>2
<1>4. ASSUME NEW c \in Call, Write(c) PROVE IInv'
  <2>1. PICK o \in Outcomes(c, Snapshot(c), clock[c]) :
          /\ db' = o.db
          /\ \E a \in {o.answer, "unknown"} : Finish(c, a)
    BY <1>4 DEF Write
  <2>2. Good(c, db, o)
    BY <1>4, <2>1, WriteOnCurrent DEF Write
  <2>3. PICK a \in Answer \cup {"unknown"} : Finish(c, a)
    BY <2>1, <2>2 DEF Good
  <2>4. /\ Sane(db') /\ db.audit \subseteq db'.audit /\ expired' = expired
        /\ \A b \in Call \ {c} : Unborn(db, b) => Unborn(db', b)
    BY <1>4, <2>1, <2>2 DEF Good, Write
  <2>5. Types'
    BY <2>3, <2>4 DEF IInv, Types, Finish
  <2>6. Cardinality(InFlight)' <= PoolSize
    BY <2>3, PoolKept DEF Finish
  <2>7. CallOK(c)'
    BY <2>3, Constants DEF IInv, Types, CallOK, Finish
  <2>8. ASSUME NEW b \in Call \ {c} PROVE CallOK(b)'
    <3>1. /\ pc'[b] = pc[b] /\ seen'[b] = seen[b] /\ clock'[b] = clock[b] /\ answer'[b] = answer[b]
      BY <2>3, <2>8 DEF IInv, Types, Finish
    <3>2. QED
      BY <2>4, <2>8, <3>1 DEF IInv, CallOK
  <2>9. QED
    BY <2>4, <2>5, <2>6, <2>7, <2>8 DEF IInv
<1>5. ASSUME NEW c \in Call, Fail(c) PROVE IInv'
  BY <1>5, FinishInv DEF Fail
<1>6. ASSUME NEW p \in Request, Expire(p) PROVE IInv'
  <2>1. Types' /\ InFlight' = InFlight
    BY <1>6 DEF IInv, Types, Expire, InFlight
  <2>2. ASSUME NEW b \in Call PROVE CallOK(b)'
    BY <1>6, <2>2 DEF IInv, CallOK, Expire
  <2>3. QED
    BY <1>6, <2>1, <2>2 DEF IInv, Expire
<1>7. CASE UNCHANGED vars
  <2>1. Types' /\ InFlight' = InFlight
    BY <1>7 DEF IInv, Types, vars, InFlight
  <2>2. ASSUME NEW b \in Call PROVE CallOK(b)'
    BY <1>7, <2>2 DEF IInv, CallOK, vars
  <2>3. QED
    BY <1>7, <2>1, <2>2 DEF IInv, vars
<1>8. QED
  BY <1>1, <1>2, <1>3, <1>4, <1>5, <1>6, <1>7 DEF Next

LEMMA Invariant == Spec => []IInv
BY InitInv, StepInv, PTL DEF Spec

-----------------------------------------------------------------------------
(* Properties of a sane database.                                          *)

\* The database, the clock and the calls keep their types, no more calls are in
\* flight than there are connections, and a call is over exactly when answered.
THEOREM TypeCorrect == Spec => []TypeOK
<1>1. IInv => TypeOK
  BY DEF IInv, Types, Sane, CallOK, TypeOK
<1>2. QED
  BY <1>1, Invariant, PTL

\* A host has its one request and its invite, and conversely.
THEOREM MatchKept == Spec => []PairingsMatchHosts
<1>1. IInv => PairingsMatchHosts
  <2> SUFFICES ASSUME IInv PROVE PairingsMatchHosts
    OBVIOUS
  <2>1. Matched(db)
    BY DEF IInv, Sane
  <2>2. ASSUME NEW i \in Invite, db.token[i] # None,
               NEW Of, Of = {p \in Request : Exists(db, p) /\ db.pairing[p].invite = i}
        PROVE  Cardinality(Of) = 1
    <3>1. PICK p \in Request : Exists(db, p) /\ db.pairing[p].invite = i
      BY <2>1, <2>2 DEF Matched
    <3>2. Of = {p}
      BY <2>1, <2>2, <3>1 DEF Matched
    <3>3. QED
      BY <3>2, FS_Singleton
  <2>3. QED
    BY <2>1, <2>2 DEF PairingsMatchHosts, Matched
<1>2. QED
  BY <1>1, Invariant, PTL

\* No activation that passed the checks runs into a UNIQUE constraint.
THEOREM ConstraintsKept == Spec => []ConstraintsSuffice
<1>1. IInv => ConstraintsSuffice
  <2> SUFFICES ASSUME IInv PROVE ConstraintsSuffice
    OBVIOUS
  <2>1. Matched(db) /\ Distinct(db) /\ db \in DB
    BY DEF IInv, Sane
  <2>2. ASSUME NEW p \in Request, Pending(db, p), NEW i \in Invite,
               db.token[i] = db.pairing[p].token
        PROVE  FALSE
    <3>1. db.token[i] # None
      BY <2>1, <2>2, FieldsOf, Constants DEF Pending, Exists, Pairing
    <3>2. PICK q \in Request : /\ Exists(db, q) /\ db.pairing[q].invite = i
                               /\ db.pairing[q].token = db.token[i]
      BY <2>1, <3>1 DEF Matched
    <3>3. q # p
      BY <2>2, <3>2, Constants DEF Pending
    <3>4. QED
      BY <2>1, <2>2, <3>2, <3>3 DEF Distinct, Pending
  <2>3. QED
    BY <2>1, <2>2 DEF ConstraintsSuffice, Distinct
<1>2. QED
  BY <1>1, Invariant, PTL

\* The audit table accounts for the status of every invite and host.
THEOREM AuditKept == Spec => []Audited
<1>1. IInv => Audited
  <2> SUFFICES ASSUME IInv, NEW i \in Invite
               PROVE  LET Of(act) == {e \in db.audit : e.target = i /\ e.action = act}
                      IN  /\ \A act \in {"create", "cancel", "activate", "delete"} :
                               Cardinality(Of(act)) <= 1
                          /\ Of("cancel") = {} \/ Of("activate") = {}
                          /\ db.invite[i] = IF Of("create") = {} \/ Of("delete") # {} THEN "absent"
                                            ELSE IF Of("cancel") # {} THEN "cancelled"
                                            ELSE IF Of("activate") # {} THEN "active" ELSE "pending"
    BY DEF Audited
  <2> DEFINE Of(act) == {e \in db.audit : e.target = i /\ e.action = act}
  <2>1. LogShape(db.audit) /\ db.invite[i] = Told(db.audit, i)
    BY DEF IInv, Sane
  <2>2. \A act : In(db.audit, act, i) <=> Of(act) # {}
    BY DEF In
  <2>3. ASSUME NEW act PROVE Cardinality(Of(act)) <= 1
    <3>1. CASE Of(act) = {}
      BY <3>1, FS_EmptySet
    <3>2. CASE Of(act) # {}
      <4>1. PICK e \in Of(act) : TRUE
        BY <3>2
      <4>2. Of(act) = {e}
        BY <2>1, <4>1 DEF LogShape
      <4>3. Cardinality({e}) = 1
        BY FS_Singleton
      <4> HIDE DEF Of
      <4>4. QED
        BY <4>2, <4>3
    <3>3. QED
      BY <3>1, <3>2
  <2> HIDE DEF Of
  <2>4. Of("cancel") = {} \/ Of("activate") = {}
    BY <2>1, <2>2 DEF LogShape
  <2>5. db.invite[i] = IF Of("create") = {} \/ Of("delete") # {} THEN "absent"
                       ELSE IF Of("cancel") # {} THEN "cancelled"
                       ELSE IF Of("activate") # {} THEN "active" ELSE "pending"
    BY <2>1, <2>2 DEF Told
  <2>6. QED
    BY <2>3, <2>4, <2>5 DEF Of
<1>2. QED
  BY <1>1, Invariant, PTL

-----------------------------------------------------------------------------
(* Answers.                                                                *)

\* The log A holds the event that answer a of call c speaks of.
Was(A, act, i, P) == \E e \in A : e.action = act /\ e.target = i /\ e.request \in P

Reason(A, c, a) ==
  /\ Op[c].kind = "activate" =>
       /\ a = "active" => Was(A, "activate", Op[c].invite, {Op[c].request})
       /\ a = "conflict" =>
            \/ Was(A, "activate", Op[c].invite, Request) \/ Was(A, "cancel", Op[c].invite, {None})
            \/ \E j \in Invite : Was(A, "activate", j, {Op[c].request})
  /\ (Op[c].kind = "poll" /\ a = "active") =>
       \E j \in Invite : Was(A, "activate", j, {Op[c].request})
  /\ Op[c].kind = "cancel" =>
       /\ a = "cancelled" => Was(A, "cancel", Op[c].invite, {None})
       /\ a = "not_pending" =>
            Was(A, "activate", Op[c].invite, Request) \/ Was(A, "cancel", Op[c].invite, {None})
  /\ (Op[c].kind = "delete" /\ a = "deleted") => Was(A, "delete", Op[c].instance, {None})

\* Events are never removed, so a reason stays one.
LEMMA ReasonStays ==
  ASSUME NEW A, NEW B, A \subseteq B, NEW c, NEW a, Reason(A, c, a)
  PROVE  Reason(B, c, a)
BY DEF Reason, Was

\* What is behind the status of an invite.
LEMMA StatusLogged ==
  ASSUME NEW d, Sane(d), NEW i \in Invite, d.invite[i] \notin {"absent", "pending"}
  PROVE  Was(d.audit, "activate", i, Request) \/ Was(d.audit, "cancel", i, {None})
<1>1. PICK e \in d.audit : e.target = i /\ e.action \in {"activate", "cancel"}
  BY DEF Sane, Told, In
<1>2. e.request \in Request \cup {None} /\ (e.action = "activate" <=> e.request # None)
  BY DEF Sane, LogShape, Event
<1>3. QED
  BY <1>1, <1>2 DEF Was

\* What is behind an active request.
LEMMA ActivationWas ==
  ASSUME NEW d, Sane(d), NEW p \in Request, Exists(d, p), ~Pending(d, p)
  PROVE  /\ Was(d.audit, "activate", d.pairing[p].invite, {p})
         /\ d.pairing[p].invite \in Invite
<1>1. d.pairing[p] \in Pairing
  BY FieldsOf DEF Sane, Exists
<1>2. d.pairing[p].invite \in Invite
  BY <1>1 DEF Pairing, Pending, Exists
<1>3. QED
  BY <1>2 DEF Sane, ActivationLogged, Was

LEMMA OutcomeReason ==
  ASSUME NEW d, Sane(d), NEW c \in Call, NEW X, NEW o \in Outcomes(c, d, X)
  PROVE  Reason(o.db.audit, c, o.answer)
<1>1. CASE Op[c].kind = "invite" \/ Op[c].kind = "pair"
  BY <1>1 DEF Reason
<1>2. CASE Op[c].kind = "poll"
  <2>1. o.db = d /\ Op[c].request \in Request /\ o.answer = "active" =>
          Exists(d, Op[c].request) /\ ~Pending(d, Op[c].request)
    BY <1>2, PairingAssumption DEF Outcomes, PairingStatus, Reply, Calls
  <2>2. o.db = d /\ Op[c].request \in Request
    BY <1>2, PairingAssumption DEF Outcomes, PairingStatus, Reply, Calls
  <2>3. QED
    BY <1>2, <2>1, <2>2, ActivationWas DEF Reason
<1>3. CASE Op[c].kind = "cancel"
  <2> DEFINE i == Op[c].invite
  <2>1. i \in Invite /\ d.invite \in [Invite -> {"absent", "pending", "cancelled", "active"}]
    BY <1>3, PairingAssumption, FieldsOf DEF Calls, Sane
  <2>2. CASE d.invite[i] = "pending"
    <3> DEFINE ev == [action |-> "cancel", target |-> i, request |-> None, by |-> c]
    <3>1. d \in DB
      BY DEF Sane
    <3>2. o = Reply("cancelled", [d EXCEPT !.invite[i] = "cancelled",
                                            !.audit = d.audit \cup {ev}])
      BY <1>3, <2>2 DEF Outcomes, CancelInvite, Logged
    <3>3. o.answer = "cancelled" /\ ev \in o.db.audit
      <4> HIDE DEF ev, i
      <4> QED
        BY <3>1, <3>2 DEF Reply, DB
    <3>4. Was(o.db.audit, "cancel", i, {None})
      BY <3>3 DEF Was
    <3>5. QED
      BY <1>3, <3>3, <3>4 DEF Reason
  <2>3. CASE d.invite[i] # "pending"
    <3>1. o.db = d /\ o.answer # "cancelled" /\ (o.answer = "not_pending" => d.invite[i] # "absent")
      BY <1>3, <2>1, <2>3 DEF Outcomes, CancelInvite, Reply
    <3>2. QED
      BY <1>3, <2>1, <2>3, <3>1, StatusLogged DEF Reason
  <2>4. QED
    BY <2>2, <2>3
<1>4. CASE Op[c].kind = "activate"
  <2> DEFINE i == Op[c].invite
             p == Op[c].request
  <2>1. i \in Invite /\ p \in Request /\ d \in DB
    BY <1>4, PairingAssumption DEF Calls, Sane
  <2>2. CASE o.db = d /\ o.answer = "active" /\ Exists(d, p) /\ ~Pending(d, p)
             /\ ReplayedActivation(d, p, i)
    BY <1>4, <2>1, <2>2, ActivationWas DEF Reason, ReplayedActivation
  <2>3. CASE o.db = d /\ o.answer = "conflict" /\ Exists(d, p) /\ ~Pending(d, p)
    BY <1>4, <2>1, <2>3, ActivationWas DEF Reason
  <2>4. CASE o.db = d /\ o.answer = "conflict" /\ d.invite[i] \notin {"absent", "pending"}
    BY <1>4, <2>1, <2>4, StatusLogged DEF Reason
  <2>5. CASE o = Reply("active", [d EXCEPT !.token[i] = d.pairing[p].token,
                                            !.pairing[p].invite = i,
                                            !.invite[i] = "active",
                                            !.audit = Logged(d, c, "activate", i, p)])
    <3> DEFINE ev == [action |-> "activate", target |-> i, request |-> p, by |-> c]
    <3>1. o.answer = "active" /\ o.db.audit = Logged(d, c, "activate", i, p)
      <4> HIDE DEF i, p
      <4> QED
        BY <2>1, <2>5 DEF Reply, DB
    <3>2. ev \in o.db.audit
      BY <3>1 DEF Logged
    <3>3. Was(o.db.audit, "activate", i, {p})
      BY <3>2 DEF Was
    <3>4. QED
      BY <1>4, <3>1, <3>3 DEF Reason
  <2>6. CASE o.answer \notin {"active", "conflict"}
    BY <1>4, <2>6 DEF Reason
  <2>7. o \in Activate(c, d, X)
    BY <1>4 DEF Outcomes
  <2>8. QED
    BY <2>2, <2>3, <2>4, <2>5, <2>6, <2>7 DEF Activate, Reply, Usable
<1>5. CASE Op[c].kind = "delete"
  <2> DEFINE i == Op[c].instance
             ev == [action |-> "delete", target |-> i, request |-> None, by |-> c]
  <2>1. o.answer = "deleted" => ev \in o.db.audit
    BY <1>5 DEF Outcomes, DeleteHost, Reply, Logged
  <2>2. o.answer = "deleted" => Was(o.db.audit, "delete", i, {None})
    BY <2>1 DEF Was
  <2>3. QED
    BY <1>5, <2>2 DEF Reason
<1>6. QED
  BY <1>1, <1>2, <1>3, <1>4, <1>5, PairingAssumption DEF Calls

\* A call whose transaction comes to no write leaves the database as it was.
LEMMA NoWrites ==
  ASSUME NEW c \in Call, NEW d, NEW X, ~Writes(c, d, X), NEW o \in Outcomes(c, d, X)
  PROVE  o.db = d
<1>1. CASE Op[c].kind = "pair"
  BY <1>1 DEF Writes, Outcomes, CreatePairing, Replayed, Reply
<1>2. CASE Op[c].kind = "invite"
  BY <1>2 DEF Writes
<1>3. CASE Op[c].kind \notin {"pair", "invite"}
  BY <1>3 DEF Writes
<1>4. QED
  BY <1>1, <1>2, <1>3

Reasons == \A c \in Call : Reason(db.audit, c, answer[c])

LEMMA UnknownReason ==
  ASSUME NEW A, NEW c, NEW a \in {None, "unknown"}
  PROVE  Reason(A, c, a)
BY Constants DEF Reason, Answer

LEMMA StepReasons == IInv /\ Reasons /\ [Next]_vars => Reasons'
<1> SUFFICES ASSUME IInv, Reasons, [Next]_vars PROVE Reasons'
  OBVIOUS
\* It is enough that the log grows and that the one new answer has its reason.
<1>1. ASSUME db.audit \subseteq db'.audit, NEW c \in Call, NEW a, Finish(c, a),
             Reason(db'.audit, c, a)
      PROVE  Reasons'
  <2>1. \A b \in Call : answer'[b] = IF b = c THEN a ELSE answer[b]
    BY <1>1 DEF IInv, Types, Finish
  <2>2. QED
    BY <1>1, <2>1, ReasonStays DEF Reasons
<1>2. ASSUME UNCHANGED <<db, answer>> PROVE Reasons'
  BY <1>2 DEF Reasons
<1>3. ASSUME NEW c \in Call, Begin(c) PROVE Reasons'
  BY <1>2, <1>3 DEF Begin
<1>4. ASSUME NEW c \in Call, Poll(c) PROVE Reasons'
  <2>1. PICK o \in PairingStatus(c, db, expired) : Finish(c, o.answer)
    BY <1>4 DEF Poll
  <2>2. o.db = db /\ o \in Outcomes(c, db, expired) /\ db' = db
    BY <1>4, <2>1 DEF Poll, PairingStatus, Outcomes, Reply
  <2>3. Reason(db.audit, c, o.answer)
    BY <2>2, OutcomeReason DEF IInv
  <2>4. QED
    BY <1>1, <2>1, <2>2, <2>3
<1>5. ASSUME NEW c \in Call, Read(c) PROVE Reasons'
  <2>1. CASE Writes(c, seen[c], expired)
    BY <1>2, <1>5, <2>1 DEF Read
  <2>2. CASE ~Writes(c, seen[c], expired)
    <3>1. PICK o \in Outcomes(c, seen[c], expired) : Finish(c, o.answer)
      BY <1>5, <2>2 DEF Read
    <3>2. Sane(seen[c]) /\ Unborn(seen[c], c) /\ seen[c].audit \subseteq db.audit /\ db' = db
      BY <1>5 DEF IInv, CallOK, Read
    <3>3. o.db.audit = seen[c].audit
      BY <2>2, <3>1, NoWrites
    <3>4. Reason(db.audit, c, o.answer)
      BY <3>1, <3>2, <3>3, OutcomeReason, ReasonStays
    <3>5. QED
      BY <1>1, <3>1, <3>2, <3>4
  <2>3. QED
    BY <2>1, <2>2
<1>6. ASSUME NEW c \in Call, Write(c) PROVE Reasons'
  <2>1. PICK o \in Outcomes(c, Snapshot(c), clock[c]) :
          /\ db' = o.db
          /\ \E a \in {o.answer, "unknown"} : Finish(c, a)
    BY <1>6 DEF Write
  <2>2. o \in Outcomes(c, db, clock[c]) /\ Good(c, db, o)
    BY <1>6, <2>1, WriteOnCurrent DEF Write
  <2>3. PICK a \in {o.answer, "unknown"} : Finish(c, a)
    BY <2>1
  <2>4. Reason(db'.audit, c, a)
    BY <2>1, <2>2, <2>3, OutcomeReason, UnknownReason DEF IInv
  <2>5. QED
    BY <1>1, <2>1, <2>2, <2>3, <2>4 DEF Good
<1>7. ASSUME NEW c \in Call, Fail(c) PROVE Reasons'
  BY <1>1, <1>7, UnknownReason DEF Fail
<1>8. ASSUME NEW p \in Request, Expire(p) PROVE Reasons'
  BY <1>2, <1>8 DEF Expire
<1>9. CASE UNCHANGED vars
  BY <1>2, <1>9 DEF vars
<1>10. QED
  BY <1>3, <1>4, <1>5, <1>6, <1>7, <1>8, <1>9 DEF Next

\* An answer that reports a change, or refuses for one, was given for a change that
\* was made, whatever ran beside the call.
THEOREM AnswersKept == Spec => []AnswersHold
<1>1. Init => Reasons
  <2>1. Init => \A c \in Call : answer[c] = None
    BY DEF Init
  <2>2. QED
    BY <2>1, UnknownReason DEF Reasons
<1>2. IInv /\ Reasons => AnswersHold
  <2> SUFFICES ASSUME IInv, Reasons PROVE AnswersHold
    OBVIOUS
  <2>1. \A act, i, P : Happened(act, i, P) <=> Was(db.audit, act, i, P)
    BY DEF Happened, Was
  <2>2. LogShape(db.audit) /\ Matched(db) /\ \A i \in Invite : db.invite[i] = Told(db.audit, i)
    BY DEF IInv, Sane
  <2>3. \A i \in Invite : Was(db.audit, "cancel", i, {None}) => ~Was(db.audit, "activate", i, Request)
    BY <2>2 DEF Was, In, LogShape
  <2>4. \A i \in Invite : Was(db.audit, "delete", i, {None}) => db.token[i] = None
    BY <2>2 DEF Was, In, Told, Matched
  <2>5. \A c \in Call : Op[c].kind = "cancel" => Op[c].invite \in Invite
    BY PairingAssumption DEF Calls
  <2>6. \A c \in Call : Op[c].kind = "delete" => Op[c].instance \in Invite
    BY PairingAssumption DEF Calls
  <2>7. \A c \in Call : Reason(db.audit, c, answer[c])
    BY DEF Reasons
  <2>8. QED
    BY <2>1, <2>3, <2>4, <2>5, <2>6, <2>7 DEF AnswersHold, Reason
<1>3. QED
  BY <1>1, <1>2, Invariant, StepReasons, PTL DEF Spec

-----------------------------------------------------------------------------
(* The limits on pending requests.                                         *)

Live(d, X) == {p \in Request : Pending(d, p) /\ p \notin X}

LiveOf(d, X, v) == {p \in Request : Pending(d, p) /\ p \notin X /\ d.pairing[p].device = v}

Bounded(d, X) ==
  /\ Cardinality(Live(d, X)) <= MaxPending
  /\ \A v \in Device : Cardinality(LiveOf(d, X, v)) <= MaxPerDevice

\* No pending request of e is new.
Shrinks(d, e) ==
  \A p \in Request : Pending(e, p) => Pending(d, p) /\ e.pairing[p] = d.pairing[p]

LEMMA Smaller ==
  ASSUME NEW S \in SUBSET Request, NEW T \in SUBSET S
  PROVE  Cardinality(T) <= Cardinality(S) /\ Cardinality(T) \in Nat /\ IsFiniteSet(T)
<1>1. IsFiniteSet(S)
  BY FS_Subset, PairingAssumption, Constants
<1>2. IsFiniteSet(T) /\ Cardinality(T) <= Cardinality(S)
  BY <1>1, FS_Subset
<1>3. QED
  BY <1>2, FS_CardinalityType

LEMMA ShrinksBounded ==
  ASSUME NEW d, NEW e, NEW X, NEW Y \in SUBSET Request, X \subseteq Y,
         Shrinks(d, e), Bounded(d, X)
  PROVE  Bounded(e, Y)
<1>1. Live(e, Y) \subseteq Live(d, X) /\ Live(d, X) \in SUBSET Request
  BY DEF Live, Shrinks
<1>2. \A v \in Device : /\ LiveOf(e, Y, v) \subseteq LiveOf(d, X, v)
                        /\ LiveOf(d, X, v) \in SUBSET Request
  BY DEF LiveOf, Shrinks
<1>3. Cardinality(Live(e, Y)) <= MaxPending
  <2>1. /\ Cardinality(Live(e, Y)) <= Cardinality(Live(d, X))
        /\ Cardinality(Live(e, Y)) \in Nat /\ Cardinality(Live(d, X)) \in Nat
    BY <1>1, Smaller
  <2>2. QED
    BY <2>1, PairingAssumption DEF Bounded
<1>4. ASSUME NEW v \in Device PROVE Cardinality(LiveOf(e, Y, v)) <= MaxPerDevice
  <2>1. /\ Cardinality(LiveOf(e, Y, v)) <= Cardinality(LiveOf(d, X, v))
        /\ Cardinality(LiveOf(e, Y, v)) \in Nat /\ Cardinality(LiveOf(d, X, v)) \in Nat
    BY <1>2, Smaller
  <2>2. QED
    BY <2>1, PairingAssumption DEF Bounded
<1>5. QED
  BY <1>3, <1>4 DEF Bounded

\* A request is added where there is room for one; those that expired since the
\* clock was read only make more room.
LEMMA RoomBounded ==
  ASSUME NEW S \in SUBSET Request, NEW T \in SUBSET Request, NEW c \in Request,
         NEW Limit \in Nat, T \subseteq S \cup {c}, Cardinality(S) < Limit
  PROVE  Cardinality(T) <= Limit
<1>1. IsFiniteSet(S) /\ Cardinality(S) \in Nat
  BY Smaller
<1>2. Cardinality(S \cup {c}) <= Cardinality(S) + 1 /\ Cardinality(S \cup {c}) \in Nat
  BY <1>1, FS_AddElement
<1>3. Cardinality(T) <= Cardinality(S \cup {c}) /\ Cardinality(T) \in Nat
  <2>1. S \cup {c} \in SUBSET Request /\ T \in SUBSET (S \cup {c})
    OBVIOUS
  <2>2. QED
    BY <2>1, Smaller
<1>4. QED
  BY <1>1, <1>2, <1>3

LEMMA OutcomeBounded ==
  ASSUME NEW d, Sane(d), NEW c \in Call, NEW X, NEW Z \in SUBSET Request, X \subseteq Z,
         Bounded(d, Z), NEW o \in Outcomes(c, d, X)
  PROVE  Bounded(o.db, Z)
<1>1. d \in DB
  BY DEF Sane
<1>2. CASE Op[c].kind \in {"invite", "cancel", "poll", "delete"}
  <2>1. Shrinks(d, o.db)
    <3>1. CASE Op[c].kind = "invite"
      <4>1. o.db = [d EXCEPT !.invite[c] = "pending", !.audit = Logged(d, c, "create", c, None)]
        BY <3>1 DEF Outcomes, CreateInvite, Reply
      <4>2. o.db.pairing = d.pairing
        BY <1>1, <4>1 DEF DB
      <4>3. QED
        BY <4>2 DEF Shrinks, Pending, Exists
    <3>2. CASE Op[c].kind = "cancel"
      <4>1. \/ o.db = d
            \/ o.db = [d EXCEPT !.invite[Op[c].invite] = "cancelled",
                                !.audit = Logged(d, c, "cancel", Op[c].invite, None)]
        BY <3>2 DEF Outcomes, CancelInvite, Reply
      <4>2. o.db.pairing = d.pairing
        BY <1>1, <4>1 DEF DB
      <4>3. QED
        BY <4>2 DEF Shrinks, Pending, Exists
    <3>3. CASE Op[c].kind = "poll"
      BY <3>3 DEF Outcomes, PairingStatus, Reply, Shrinks
    <3>4. CASE Op[c].kind = "delete"
      <4>1. \/ o.db = d
            \/ \E i : o.db.pairing = [p \in Request |-> IF Belongs(d, p, i) THEN None ELSE d.pairing[p]]
        BY <3>4 DEF Outcomes, DeleteHost, Reply
      <4>2. QED
        BY <4>1 DEF Shrinks, Pending, Exists
    <3>5. QED
      BY <1>2, <3>1, <3>2, <3>3, <3>4
  <2>2. QED
    BY <2>1, ShrinksBounded
<1>3. CASE Op[c].kind = "activate"
  <2> DEFINE i == Op[c].invite
             p == Op[c].request
  <2>1. i \in Invite /\ p \in Request /\ i # None
    BY <1>3, PairingAssumption, Constants DEF Calls
  <2>2. CASE o.db = d
    BY <2>2, ShrinksBounded DEF Shrinks
  <2>3. CASE o.db # d
    <3>1. /\ Pending(d, p)
          /\ o.db = [d EXCEPT !.token[i] = d.pairing[p].token, !.pairing[p].invite = i,
                              !.invite[i] = "active", !.audit = Logged(d, c, "activate", i, p)]
      BY <1>3, <2>3 DEF Outcomes, Activate, Reply
    <3>2. o.db.pairing = [d.pairing EXCEPT ![p] = [d.pairing[p] EXCEPT !.invite = i]]
      <4> HIDE DEF i, p
      <4> QED
        BY <1>1, <2>1, <3>1 DEF DB
    <3>3. d.pairing[p] \in Pairing
      BY <1>1, <2>1, <3>1, FieldsOf DEF Pending, Exists
    <3>4. [d.pairing[p] EXCEPT !.invite = i].invite = i
      BY <3>3 DEF Pairing
    <3>5. \A q \in Request \ {p} : o.db.pairing[q] = d.pairing[q]
      BY <1>1, <3>2, FieldsOf
    <3>6. o.db.pairing[p].invite = i
      BY <1>1, <2>1, <3>2, <3>4, FieldsOf
    <3>7. Shrinks(d, o.db)
      BY <2>1, <3>5, <3>6 DEF Shrinks, Pending, Exists
    <3>8. QED
      BY <3>7, ShrinksBounded
  <2>4. QED
    BY <2>2, <2>3
<1>4. CASE Op[c].kind = "pair" /\ SameSecret(d, c) # {}
  <2>1. o.db = d
    BY <1>4 DEF Outcomes, CreatePairing, Replayed, Reply
  <2>2. QED
    BY <2>1
<1>5. CASE Op[c].kind = "pair" /\ SameSecret(d, c) = {}
  <2>1. PICK R \in SUBSET {p \in Request : Pending(d, p)} : o = Inserted(c, CleanedUp(d, R), X, d)
    BY <1>5 DEF Outcomes, CreatePairing, kSubset
  <2>2. PICK e : e = CleanedUp(d, R)
    OBVIOUS
  <2>3. Sane(e) /\ \A p \in Request : e.pairing[p] = IF p \in R THEN None ELSE d.pairing[p]
    BY <2>2, CleanedUpSane
  <2>4. Shrinks(d, e)
    BY <2>3 DEF Shrinks, Pending, Exists
  <2>5. CASE o.db \in {d, e}
    BY <2>4, <2>5, ShrinksBounded
  <2>6. CASE /\ Room(e, X) /\ RoomForDevice(e, c, X)
             /\ o = Reply("created", [e EXCEPT !.pairing[c] =
                      [secret |-> Op[c].secret, device |-> Op[c].device,
                       token |-> Op[c].token, invite |-> None]])
    <3> DEFINE row == [secret |-> Op[c].secret, device |-> Op[c].device,
                       token |-> Op[c].token, invite |-> None]
    <3>1. c \in Request /\ e \in DB
      BY <1>5, <2>3 DEF Request, Calls, Sane
    <3>2. o.db.pairing = [e.pairing EXCEPT ![c] = row]
      <4> HIDE DEF row
      <4>1. o.db = [e EXCEPT !.pairing[c] = row]
        BY <2>6 DEF Reply, row
      <4>2. QED
        BY <3>1, <4>1 DEF DB
    <3>3. \A p \in Request : o.db.pairing[p] = IF p = c THEN row ELSE e.pairing[p]
      <4> HIDE DEF row
      <4> QED
        BY <3>1, <3>2, FieldsOf
    <3>4. row.device = Op[c].device
      OBVIOUS
    <3>5. Cardinality(Live(o.db, Z)) <= MaxPending
      <4>1. Live(o.db, Z) \subseteq Live(e, X) \cup {c}
        BY <3>3 DEF Live, Pending, Exists
      <4>2. Live(o.db, Z) \in SUBSET Request /\ Live(e, X) \in SUBSET Request
        BY DEF Live
      <4>3. Cardinality(Live(e, X)) < MaxPending
        BY <2>6 DEF Room, Live
      <4>4. QED
        BY <3>1, <4>1, <4>2, <4>3, RoomBounded, PairingAssumption
    <3>6. ASSUME NEW v \in Device PROVE Cardinality(LiveOf(o.db, Z, v)) <= MaxPerDevice
      <4>1. LiveOf(o.db, Z, v) \in SUBSET Request /\ LiveOf(e, X, v) \in SUBSET Request
            /\ LiveOf(d, Z, v) \in SUBSET Request
        BY DEF LiveOf
      <4>2. CASE v = Op[c].device
        <5>1. LiveOf(o.db, Z, v) \subseteq LiveOf(e, X, v) \cup {c}
          BY <3>3 DEF LiveOf, Pending, Exists
        <5>2. Cardinality(LiveOf(e, X, v)) < MaxPerDevice
          BY <2>6, <4>2 DEF RoomForDevice, LiveOf
        <5>3. QED
          BY <3>1, <4>1, <5>1, <5>2, RoomBounded, PairingAssumption
      <4>3. CASE v # Op[c].device
        <5>1. LiveOf(o.db, Z, v) \subseteq LiveOf(d, Z, v)
          <6> HIDE DEF row
          <6> QED
            BY <2>4, <3>3, <3>4, <4>3 DEF LiveOf, Pending, Exists, Shrinks
        <5>2. /\ Cardinality(LiveOf(o.db, Z, v)) <= Cardinality(LiveOf(d, Z, v))
              /\ Cardinality(LiveOf(o.db, Z, v)) \in Nat /\ Cardinality(LiveOf(d, Z, v)) \in Nat
          BY <4>1, <5>1, Smaller
        <5>3. QED
          BY <5>2, PairingAssumption DEF Bounded
      <4>4. QED
        BY <4>2, <4>3
    <3>7. QED
      BY <3>5, <3>6 DEF Bounded
  <2>7. QED
    BY <2>1, <2>2, <2>5, <2>6 DEF Inserted, Reply
<1>6. QED
  BY <1>2, <1>3, <1>4, <1>5, PairingAssumption DEF Calls

\* The limits hold however many create_pairing calls and cleanups race.
THEOREM LimitsKept == Spec => []PendingBounded
<1> DEFINE B == Bounded(db, expired)
<1>1. PendingBounded <=> B
  <2>1. \A v \in Device : {p \in Live(db, expired) : db.pairing[p].device = v} = LiveOf(db, expired, v)
    BY DEF Live, LiveOf
  <2>2. QED
    BY <2>1 DEF PendingBounded, Bounded, Live
<1>2. Init => B
  <2> SUFFICES ASSUME Init PROVE B
    OBVIOUS
  <2>1. Live(db, expired) = {} /\ \A v \in Device : LiveOf(db, expired, v) = {}
    BY DEF Init, InitDB, Live, LiveOf, Pending, Exists
  <2>2. QED
    BY <2>1, FS_EmptySet, PairingAssumption DEF Bounded
<1>3. IInv /\ B /\ [Next]_vars => B'
  <2> SUFFICES ASSUME IInv, B, [Next]_vars PROVE B'
    OBVIOUS
  <2>1. ASSUME UNCHANGED <<db, expired>> PROVE B'
    BY <2>1
  <2>2. ASSUME NEW c \in Call, Begin(c) \/ Poll(c) \/ Read(c) \/ Fail(c) PROVE B'
    BY <2>1, <2>2 DEF Begin, Poll, Read, Fail
  <2>3. ASSUME NEW c \in Call, Write(c) PROVE B'
    <3>1. PICK o \in Outcomes(c, db, clock[c]) : db' = o.db
      BY <2>3, WriteOnCurrent DEF Write
    <3>2. clock[c] \subseteq expired /\ expired' = expired /\ expired \in SUBSET Request /\ Sane(db)
      BY <2>3 DEF IInv, Types, CallOK, Write
    <3>3. QED
      BY <3>1, <3>2, OutcomeBounded
  <2>4. ASSUME NEW p \in Request, Expire(p) PROVE B'
    <3>1. db' = db /\ expired \subseteq expired' /\ expired' \in SUBSET Request
      BY <2>4 DEF IInv, Types, Expire
    <3>2. Shrinks(db, db')
      BY <3>1 DEF Shrinks
    <3>3. QED
      BY <3>1, <3>2, ShrinksBounded
  <2>5. CASE UNCHANGED vars
    BY <2>1, <2>5 DEF vars
  <2>6. QED
    BY <2>2, <2>3, <2>4, <2>5 DEF Next
<1>4. QED
  BY <1>1, <1>2, <1>3, Invariant, PTL DEF Spec

-----------------------------------------------------------------------------
(* Serializability: Pairing implements PairingService.                     *)

\* A call that comes to no write gives an answer that the service may refuse with.
LEMMA ReadRefuses ==
  ASSUME NEW c \in Call, Op[c].kind # "poll", NEW d, Sane(d), NEW X, ~Writes(c, d, X),
         NEW o \in Outcomes(c, d, X)
  PROVE  o.answer \in Service!Refusal(c)
<1>1. d \in DB
  BY DEF Sane
<1>2. CASE Op[c].kind = "invite"
  BY <1>2 DEF Writes
<1>3. CASE Op[c].kind = "pair"
  BY <1>3 DEF Writes, Outcomes, CreatePairing, Replayed, Reply, Service!Refusal
<1>4. CASE Op[c].kind = "cancel"
  <2> DEFINE i == Op[c].invite
  <2>1. i \in Invite /\ o.db = d
    BY <1>4, PairingAssumption, NoWrites DEF Calls
  <2>2. CASE d.invite[i] = "pending"
    <3>1. o.db = [d EXCEPT !.invite[i] = "cancelled", !.audit = Logged(d, c, "cancel", i, None)]
      BY <1>4, <2>2 DEF Outcomes, CancelInvite, Reply
    <3>2. d.invite \in [Invite -> {"absent", "pending", "cancelled", "active"}]
      BY <1>1 DEF DB
    <3>3. o.db.invite = [d.invite EXCEPT ![i] = "cancelled"]
      <4> HIDE DEF i
      <4> QED
        BY <1>1, <3>1 DEF DB
    <3> HIDE DEF i
    <3>4. o.db.invite[i] = "cancelled"
      BY <2>1, <3>2, <3>3
    <3>5. QED
      BY <2>1, <2>2, <3>4
  <2>3. CASE d.invite[i] # "pending"
    BY <1>4, <2>3 DEF Outcomes, CancelInvite, Reply, Service!Refusal
  <2>4. QED
    BY <2>2, <2>3
<1>5. CASE Op[c].kind = "activate"
  <2>1. o.answer # "unknown"
    BY <1>5 DEF Writes
  <2>2. o \in Activate(c, d, X)
    BY <1>5 DEF Outcomes
  <2>3. QED
    BY <1>5, <2>1, <2>2 DEF Activate, Reply, Service!Refusal
<1>6. CASE Op[c].kind = "delete"
  <2> DEFINE i == Op[c].instance
  <2>1. i \in Invite /\ o.db = d
    BY <1>6, PairingAssumption, NoWrites DEF Calls
  <2>2. CASE d.token[i] # None
    <3>1. o.db.token = [d.token EXCEPT ![i] = None]
      BY <1>6, <2>2 DEF Outcomes, DeleteHost, Reply
    <3>2. QED
      BY <1>1, <2>1, <2>2, <3>1, FieldsOf
  <2>3. CASE d.token[i] = None
    BY <1>6, <2>3 DEF Outcomes, DeleteHost, Reply, Service!Refusal
  <2>4. QED
    BY <2>2, <2>3
<1>7. QED
  BY <1>2, <1>3, <1>4, <1>5, <1>6, PairingAssumption DEF Calls

\* The service is about the same tables.
LEMMA SameStore ==
  /\ Service!Request = Request /\ Service!InitDB = InitDB
  /\ \A d, p : Service!Exists(d, p) <=> Exists(d, p)
  /\ \A c, d, X : Service!Outcomes(c, d, X) = Outcomes(c, d, X)
  /\ \A c, d, X : Service!Writes(c, d, X) <=> Writes(c, d, X)
<1>1. /\ Service!Request = Request /\ Service!Invite = Invite
      /\ \A d, p : Service!Exists(d, p) = Exists(d, p)
      /\ \A d, p : Service!Pending(d, p) = Pending(d, p)
      /\ \A a, d : Service!Reply(a, d) = Reply(a, d)
      /\ \A d, c, act, i, p : Service!Logged(d, c, act, i, p) = Logged(d, c, act, i, p)
  BY DEF Service!Request, Request, Service!Invite, Invite, Service!Calls, Calls,
     Service!Exists, Exists, Service!Pending, Pending, Service!Reply, Reply,
     Service!Logged, Logged
<1>2. Service!InitDB = InitDB
  BY <1>1 DEF Service!InitDB, InitDB
<1>3. \A c, d : Service!CreateInvite(c, d) = CreateInvite(c, d)
  BY <1>1 DEF Service!CreateInvite, CreateInvite
<1>4. \A c, d : Service!CancelInvite(c, d) = CancelInvite(c, d)
  BY <1>1 DEF Service!CancelInvite, CancelInvite
<1>5. \A c, d, X : Service!PairingStatus(c, d, X) = PairingStatus(c, d, X)
  BY <1>1 DEF Service!PairingStatus, PairingStatus
<1>6. \A d, c : Service!SameSecret(d, c) = SameSecret(d, c)
  BY <1>1 DEF Service!SameSecret, SameSecret
<1>7. \A c, d, X : Service!CreatePairing(c, d, X) = CreatePairing(c, d, X)
  BY DEF Service!CreatePairing, CreatePairing, Service!Replayed, Replayed,
     Service!SameSecret, SameSecret, Service!Request, Request, Service!Invite, Invite, Service!Calls, Calls,
     Service!Exists, Exists, Service!Pending, Pending, Service!Reply, Reply,
     Service!Inserted, Inserted, Service!CleanedUp, CleanedUp, Service!Room, Room,
     Service!RoomForDevice, RoomForDevice, Service!TokenFree, TokenFree,
     Service!kSubset, kSubset, Service!Min, Min, Service!Cardinality, Cardinality
<1>8. \A c, d, X : Service!Activate(c, d, X) = Activate(c, d, X)
  BY DEF Service!Request, Request, Service!Invite, Invite, Service!Calls, Calls,
     Service!Exists, Exists, Service!Pending, Pending, Service!Reply, Reply,
     Service!Logged, Logged, Service!Activate, Activate, Service!ReplayedActivation, ReplayedActivation,
     Service!Usable, Usable
<1>9. \A c, d : Service!DeleteHost(c, d) = DeleteHost(c, d)
  BY DEF Service!Request, Request, Service!Invite, Invite, Service!Calls, Calls,
     Service!Exists, Exists, Service!Pending, Pending, Service!Reply, Reply,
     Service!Logged, Logged, Service!DeleteHost, DeleteHost, Service!Belongs, Belongs
<1>10. \A c, d, X : Service!Outcomes(c, d, X) = Outcomes(c, d, X)
  BY <1>3, <1>4, <1>5, <1>7, <1>8, <1>9 DEF Service!Outcomes, Outcomes
<1>11. \A c, d, X : Service!Writes(c, d, X) = Writes(c, d, X)
  BY <1>6, <1>10 DEF Service!Writes, Writes
<1>12. QED
  BY <1>1, <1>2, <1>10, <1>11

\* Every initial state and every step of Pairing is one of the service, or none.
THEOREM Serializable == Spec => ImplementsService
<1>1. Init => Service!Init
  BY SameStore DEF Init, Service!Init
<1>2. IInv /\ [Next]_vars => [Service!Next]_Service!vars
  <2> SUFFICES ASSUME IInv, [Next]_vars PROVE [Service!Next]_Service!vars
    OBVIOUS
  <2>1. ASSUME NEW c \in Call, pc[c] # "done", NEW a \in Service!Refusal(c), Finish(c, a),
               UNCHANGED <<db, expired>>
        PROVE  Service!Next
    <3>1. answer[c] = None
      BY <2>1 DEF IInv, CallOK
    <3>2. Service!Refuse(c)
      BY <2>1, <3>1 DEF Finish, Service!Refuse
    <3>3. QED
      BY <3>2 DEF Service!Next
  <2>2. ASSUME NEW c \in Call, Begin(c) PROVE UNCHANGED Service!vars
    BY <2>2 DEF Begin, Service!vars
  <2>3. ASSUME NEW c \in Call, Poll(c) PROVE Service!Next
    <3>1. PICK o \in PairingStatus(c, db, expired) : Finish(c, o.answer)
      BY <2>3 DEF Poll
    <3>2. o.answer \in Service!Refusal(c)
      BY <2>3 DEF Poll, PairingStatus, Reply, Service!Refusal
    <3>3. QED
      BY <2>1, <2>3, <3>1, <3>2 DEF Poll
  <2>4. ASSUME NEW c \in Call, Read(c) PROVE [Service!Next]_Service!vars
    <3>1. CASE Writes(c, seen[c], expired)
      BY <2>4, <3>1 DEF Read, Service!vars
    <3>2. CASE ~Writes(c, seen[c], expired)
      <4>1. PICK o \in Outcomes(c, seen[c], expired) : Finish(c, o.answer)
        BY <2>4, <3>2 DEF Read
      <4>2. Sane(seen[c]) /\ Op[c].kind # "poll" /\ pc[c] = "read" /\ UNCHANGED <<db, expired>>
        BY <2>4 DEF Read, IInv, CallOK
      <4>3. o.answer \in Service!Refusal(c)
        BY <3>2, <4>1, <4>2, ReadRefuses
      <4>4. QED
        BY <2>1, <4>1, <4>2, <4>3
    <3>3. QED
      BY <3>1, <3>2
  <2>5. ASSUME NEW c \in Call, Write(c) PROVE Service!Next
    <3>1. PICK o \in Outcomes(c, db, clock[c]) :
            /\ db' = o.db
            /\ \E a \in {o.answer, "unknown"} : Finish(c, a)
      BY <2>5, WriteOnCurrent DEF Write
    <3>2. Writes(c, db, clock[c])
      BY <2>5, WriteOnCurrent DEF Write
    <3>3. clock[c] \in SUBSET expired /\ answer[c] = None /\ expired' = expired
      BY <2>5 DEF Write, IInv, CallOK
    <3>4. \E a \in {o.answer, "unknown"} : answer' = [answer EXCEPT ![c] = a]
      BY <3>1 DEF Finish
    <3>5. Service!Effect(c)
      BY <3>1, <3>2, <3>3, <3>4, SameStore DEF Service!Effect
    <3>6. QED
      BY <3>5 DEF Service!Next
  <2>6. ASSUME NEW c \in Call, Fail(c) PROVE Service!Next
    <3>1. Op[c].kind # "poll" /\ pc[c] # "done"
      BY <2>6 DEF IInv, CallOK, Fail, InFlight
    <3>2. "unknown" \in Service!Refusal(c)
      BY <3>1, PairingAssumption DEF Service!Refusal, Calls
    <3>3. QED
      BY <2>1, <2>6, <3>1, <3>2 DEF Fail
  <2>7. ASSUME NEW p \in Request, Expire(p) PROVE Service!Next
    <3>1. Service!Expire(p)
      BY <2>7, SameStore DEF Expire, Service!Expire
    <3>2. QED
      BY <3>1, SameStore DEF Service!Next
  <2>8. CASE UNCHANGED vars
    BY <2>8 DEF vars, Service!vars
  <2>9. QED
    BY <2>2, <2>3, <2>4, <2>5, <2>6, <2>7, <2>8 DEF Next
<1>3. QED
  BY <1>1, <1>2, Invariant, PTL DEF Spec, ImplementsService, Service!Spec

=============================================================================
