----------------------------- MODULE PairingStore -----------------------------
(***************************************************************************)
(* The pairing tables of the SQLite database and what create_invite,       *)
(* cancel_invite, create_pairing, pairing_status, activate and delete_host *)
(* (store.rs) answer and do to them.                                       *)
(*                                                                         *)
(* A row is named by the call that inserts it: an invite and its instance  *)
(* by the create_invite call, a pairing request by the create_pairing      *)
(* call.  The codes and hashes are as good as these names, so an           *)
(* activation code is the invite it was handed out for.  monitored_hosts   *)
(* and client_credentials are one table here, activate inserting into      *)
(* both and delete_host cascading from one to the other.  The status       *)
(* "denied" is read by the code and written by none of it; it is left out. *)
(***************************************************************************)
EXTENDS Naturals, FiniteSets, FiniteSetsExt

CONSTANTS Call,          \* the calls made in a run; a retry is another call
          Op,            \* [Call -> what the call asks for]
          None,
          MaxPending,    \* live pending requests, of all devices
          MaxPerDevice,  \* and of one
          CleanupLimit   \* expired requests one create_pairing removes

Calls(kind) == {c \in Call : Op[c].kind = kind}
Invite  == Calls("invite")   \* the invites, and the instances they stand for
Request == Calls("pair")     \* the pairing requests

ASSUME PairingAssumption ==
  /\ IsFiniteSet(Call)
  /\ Call = UNION {Calls(kind) : kind \in {"invite", "cancel", "pair", "poll", "activate", "delete"}}
  /\ \A c \in Calls("cancel") : Op[c].invite \in Invite
  /\ \A c \in Calls("poll") : Op[c].request \in Request
  /\ \A c \in Calls("activate") : Op[c].request \in Request /\ Op[c].invite \in Invite
  /\ \A c \in Calls("delete") : Op[c].instance \in Invite
  /\ {MaxPending, MaxPerDevice, CleanupLimit} \subseteq Nat \ {0}
  /\ None \notin Call

Secret == {Op[c].secret : c \in Request}
Device == {Op[c].device : c \in Request}
Token  == {Op[c].token : c \in Request}

Pairing == [secret : Secret, device : Device, token : Token,
            invite : Invite \cup {None}]   \* of an active request; None: pending

\* One audit event; request: the one that was activated.
Event == [action : {"create", "cancel", "activate", "delete"}, target : Invite,
          request : Request \cup {None}, by : Call]

DB == [invite  : [Invite -> {"absent", "pending", "cancelled", "active"}],
       pairing : [Request -> Pairing \cup {None}],
       token   : [Invite -> Token \cup {None}],   \* the credential of a live host
       audit   : SUBSET Event]

InitDB == [invite  |-> [i \in Invite |-> "absent"],
           pairing |-> [p \in Request |-> None],
           token   |-> [i \in Invite |-> None],
           audit   |-> {}]

Exists(d, p)  == d.pairing[p] # None
Pending(d, p) == Exists(d, p) /\ d.pairing[p].invite = None

Logged(d, c, act, i, p) ==
  d.audit \cup {[action |-> act, target |-> i, request |-> p, by |-> c]}

Reply(a, d) == [answer |-> a, db |-> d]

-----------------------------------------------------------------------------
(* The outcomes of call c on database d, the requests X having expired.    *)

CreateInvite(c, d) ==
  {Reply("created", [d EXCEPT !.invite[c] = "pending",
                              !.audit = Logged(d, c, "create", c, None)])}

CancelInvite(c, d) ==
  LET i == Op[c].invite
  IN  CASE d.invite[i] = "absent"  -> {Reply("not_found", d)}
        [] d.invite[i] = "pending" ->
             {Reply("cancelled", [d EXCEPT !.invite[i] = "cancelled",
                                           !.audit = Logged(d, c, "cancel", i, None)])}
        [] OTHER                   -> {Reply("not_pending", d)}

\* The row that create_pairing finds by polling_secret_hash.
SameSecret(d, c) == {p \in Request : Exists(d, p) /\ d.pairing[p].secret = Op[c].secret}

Replayed(c, d, X, p) ==
  LET row == d.pairing[p]
  IN  IF row.device # Op[c].device \/ row.token # Op[c].token THEN Reply("conflict", d)
      ELSE IF p \in X THEN Reply("expired", d) ELSE Reply("ready", d)

\* Mutant: the limit on a device counts one too many.
RoomOffByOne(d, c, X) ==
  Cardinality({p \in Request : Pending(d, p) /\ p \notin X /\ d.pairing[p].device = Op[c].device})
    <= MaxPerDevice

RoomForDevice(d, c, X) ==
  Cardinality({p \in Request : Pending(d, p) /\ p \notin X /\ d.pairing[p].device = Op[c].device})
    < MaxPerDevice

Room(d, X) == Cardinality({p \in Request : Pending(d, p) /\ p \notin X}) < MaxPending

\* Mutant: UNIQUE(token_hash) holds for pending requests only.
TokenFreePending(d, c) == \A p \in Request : Pending(d, p) => d.pairing[p].token # Op[c].token

TokenFree(d, c) == \A p \in Request : Exists(d, p) => d.pairing[p].token # Op[c].token

\* After the cleanup, which left d.
Inserted(c, d, X, before) ==
  IF ~Room(d, X) THEN Reply("at_capacity", d)
  ELSE IF ~RoomForDevice(d, c, X) THEN Reply("device_at_capacity", d)
  ELSE IF ~TokenFree(d, c) THEN Reply("conflict", before)
  ELSE Reply("created", [d EXCEPT !.pairing[c] =
         [secret |-> Op[c].secret, device |-> Op[c].device, token |-> Op[c].token, invite |-> None]])

CleanedUp(d, R) == [d EXCEPT !.pairing = [p \in Request |-> IF p \in R THEN None ELSE d.pairing[p]]]

CreatePairing(c, d, X) ==
  IF SameSecret(d, c) # {} THEN {Replayed(c, d, X, p) : p \in SameSecret(d, c)}
  ELSE LET dead == {p \in Request : Pending(d, p) /\ p \in X}
       IN  {Inserted(c, CleanedUp(d, R), X, d) :
              R \in kSubset(Min({CleanupLimit, Cardinality(dead)}), dead)}

PairingStatus(c, d, X) ==
  LET p == Op[c].request
  IN  {Reply(IF ~Exists(d, p) THEN "unauthorized"
             ELSE IF ~Pending(d, p) THEN "active"
             ELSE IF p \in X THEN "expired" ELSE "waiting", d)}

\* Mutant: an active request is taken for a replay whatever the invite.
ReplayedAnyInvite(d, p, i) == TRUE

\* The request was activated with this very invite, and its host is still there.
ReplayedActivation(d, p, i) ==
  d.pairing[p].invite = i /\ d.token[i] = d.pairing[p].token

\* Mutant: an activation takes an invite whatever its status.
UsableAnyStatus(d, i) == TRUE

Usable(d, i) == d.invite[i] = "pending"

Activate(c, d, X) ==
  LET p == Op[c].request
      i == Op[c].invite
      row == d.pairing[p]
  IN  {IF ~Exists(d, p) THEN Reply("not_found", d)
       ELSE IF d.invite[i] = "absent" THEN Reply("invalid_code", d)
       ELSE IF ~Pending(d, p)
       THEN Reply(IF ReplayedActivation(d, p, i) THEN "active" ELSE "conflict", d)
       ELSE IF ~Usable(d, i) THEN Reply("conflict", d)
       ELSE IF p \in X THEN Reply("expired", d)
       ELSE IF d.token[i] # None \/ \E j \in Invite : d.token[j] = row.token
       THEN Reply("unknown", d)   \* a UNIQUE constraint fails
       ELSE Reply("active", [d EXCEPT !.token[i] = row.token,
                                      !.pairing[p].invite = i,
                                      !.invite[i] = "active",
                                      !.audit = Logged(d, c, "activate", i, p)])}

\* Mutant: the requests that activated the host stay.
BelongsPending(d, p, i) == Pending(d, p) /\ d.pairing[p].device = i

Belongs(d, p, i) ==
  Exists(d, p) /\ (d.pairing[p].invite = i \/ (Pending(d, p) /\ d.pairing[p].device = i))

DeleteHost(c, d) ==
  LET i == Op[c].instance
  IN  IF d.token[i] = None THEN {Reply("not_found", d)}
      ELSE {Reply("deleted",
              [invite  |-> [d.invite EXCEPT ![i] = "absent"],
               pairing |-> [p \in Request |-> IF Belongs(d, p, i) THEN None ELSE d.pairing[p]],
               token   |-> [d.token EXCEPT ![i] = None],
               audit   |-> Logged(d, c, "delete", i, None)])}

Outcomes(c, d, X) ==
  CASE Op[c].kind = "invite"   -> CreateInvite(c, d)
    [] Op[c].kind = "cancel"   -> CancelInvite(c, d)
    [] Op[c].kind = "pair"     -> CreatePairing(c, d, X)
    [] Op[c].kind = "poll"     -> PairingStatus(c, d, X)
    [] Op[c].kind = "activate" -> Activate(c, d, X)
    [] Op[c].kind = "delete"   -> DeleteHost(c, d)

\* Whether the call comes to a statement that writes, and so needs the write lock.
Writes(c, d, X) ==
  CASE Op[c].kind = "invite" -> TRUE
    [] Op[c].kind = "pair"   -> SameSecret(d, c) = {}
    [] OTHER                 -> \E o \in Outcomes(c, d, X) : o.db # d \/ o.answer = "unknown"

Answer == {"created", "cancelled", "not_found", "not_pending", "conflict", "expired", "ready",
           "at_capacity", "device_at_capacity", "waiting", "active", "unauthorized",
           "invalid_code", "deleted"}

ASSUME NoneAssumption ==
  None \notin Token \cup Pairing \cup DB \cup Answer \cup {"unknown"}
=============================================================================
