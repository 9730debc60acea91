--------------------------- MODULE PairingService ---------------------------
(***************************************************************************)
(* What the pairing calls promise: each of them takes effect at most once, *)
(* in one instant, on the database as it is at that instant, as if no      *)
(* other call were running; an answer that reports a change is given for a *)
(* change that was made; and a call that is answered "unknown" (503, or    *)
(* nothing) may have taken effect or not.                                  *)
(***************************************************************************)
EXTENDS PairingStore

VARIABLES db, expired, answer

vars == <<db, expired, answer>>

Init ==
  /\ db = InitDB
  /\ expired = {}
  /\ answer = [c \in Call |-> None]

\* The clock of a call may be behind, not ahead.
Effect(c) ==
  /\ answer[c] = None
  /\ \E X \in SUBSET expired :
       /\ Writes(c, db, X)
       /\ \E o \in Outcomes(c, db, X) :
            /\ db' = o.db
            /\ \E a \in {o.answer, "unknown"} : answer' = [answer EXCEPT ![c] = a]
  /\ UNCHANGED expired

\* The answers of calls that find nothing to change, and "unknown".
Refusal(c) ==
  CASE Op[c].kind = "invite"   -> {"unknown"}
    [] Op[c].kind = "cancel"   -> {"not_found", "not_pending", "unknown"}
    [] Op[c].kind = "pair"     -> {"ready", "expired", "conflict", "unknown"}
    [] Op[c].kind = "poll"     -> {"waiting", "active", "expired", "unauthorized"}
    [] Op[c].kind = "activate" -> {"active", "not_found", "invalid_code", "conflict", "expired", "unknown"}
    [] Op[c].kind = "delete"   -> {"not_found", "unknown"}

Refuse(c) ==
  /\ answer[c] = None
  /\ \E a \in Refusal(c) : answer' = [answer EXCEPT ![c] = a]
  /\ UNCHANGED <<db, expired>>

Expire(p) ==
  /\ Exists(db, p) /\ p \notin expired
  /\ expired' = expired \cup {p}
  /\ UNCHANGED <<db, answer>>

Next ==
  \/ \E c \in Call : Effect(c) \/ Refuse(c)
  \/ \E p \in Request : Expire(p)

Spec == Init /\ [][Next]_vars
=============================================================================
