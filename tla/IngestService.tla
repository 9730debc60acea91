---------------------------- MODULE IngestService ----------------------------
(***************************************************************************)
(* What POST /api/v1/client/report promises, with no queue, batch,         *)
(* transaction or task in sight: a report takes effect at most in one      *)
(* instant between the call and the answer, the verdict in the answer is   *)
(* the one of that instant, and any other answer (429, 503, a lost         *)
(* connection) says nothing about whether the report took effect.          *)
(***************************************************************************)
CONSTANTS Request, Content, Host, ReportId, None

VARIABLES ledger,    \* the owner of every stored report id
          live,      \* the hosts that may report
          verdict,   \* what the store decided on a request not yet answered
          answer     \* what its caller was told

vars == <<ledger, live, verdict, answer>>

Verdict == {"accepted", "duplicate", "conflict", "unauthorized"}

Init ==
  /\ ledger = [i \in ReportId |-> None]
  /\ live = Host
  /\ verdict = [r \in Request |-> "none"]
  /\ answer = [r \in Request |-> "none"]

\* Verdict v on request r is the truth of the ledgers around the instant.
Sound(r, v) ==
  LET id == Content[r].id
      host == Content[r].host
  IN  CASE v = "accepted"     -> ledger[id] = None /\ ledger'[id] = host
        [] v = "duplicate"    -> ledger'[id] = host
        [] v = "conflict"     -> ledger'[id] \notin {None, host}
        [] v = "unauthorized" -> host \notin live

Undecided == {r \in Request : verdict[r] = "none" /\ answer[r] \in {"none", "unknown"}}

\* The reports B take effect together, with verdicts v.  An id enters the ledger
\* together with exactly one request that is told so.
Effect(B, v) ==
  /\ \A r \in B : v[r] = "unauthorized" <=> Content[r].host \notin live
  /\ \A r \in B : Sound(r, v[r])
  /\ \A i \in ReportId :
       LET Accepted == {r \in B : Content[r].id = i /\ v[r] = "accepted"}
       IN  \/ ledger'[i] = ledger[i] /\ Accepted = {}
           \/ \E r \in Accepted : Accepted = {r}

\* Callers that have no answer may be left without one at any time.
GaveUp(r)    == answer[r] = "none" /\ answer'[r] = "unknown" /\ verdict'[r] = "none"
Unchanged(r) == answer'[r] = answer[r] /\ verdict'[r] = verdict[r]

\* Some reports take effect.  A verdict may be lost with the process that
\* computed it.
Decide ==
  /\ <<ledger, verdict>>' # <<ledger, verdict>>
  /\ UNCHANGED live
  /\ \E B \in SUBSET Undecided : \E v \in [B -> Verdict] :
       /\ Effect(B, v)
       /\ \A r \in Request :
            \/ GaveUp(r)
            \/ Unchanged(r)
            \/ r \in B /\ answer[r] = "none" /\ answer'[r] = "none" /\ verdict'[r] = v[r]

Answer(r) ==
  /\ verdict[r] # "none"
  /\ answer' = [answer EXCEPT ![r] = verdict[r]]
  /\ verdict' = [verdict EXCEPT ![r] = "none"]
  /\ UNCHANGED <<ledger, live>>

GiveUp ==
  /\ \A r \in Request : GaveUp(r) \/ Unchanged(r)
  /\ UNCHANGED <<ledger, live>>

\* The credential is looked up before anything else.
Reject(r) ==
  /\ answer[r] = "none"
  /\ Content[r].host \notin live
  /\ answer' = [answer EXCEPT ![r] = "unauthorized"]
  /\ UNCHANGED <<ledger, live, verdict>>

DeleteHost(h) ==
  /\ h \in live
  /\ live' = live \ {h}
  /\ ledger' = [i \in ReportId |-> IF ledger[i] = h THEN None ELSE ledger[i]]
  /\ UNCHANGED <<verdict, answer>>

Next ==
  \/ Decide
  \/ GiveUp
  \/ \E r \in Request : Answer(r) \/ Reject(r)
  \/ \E h \in Host : DeleteHost(h)

Spec == Init /\ [][Next]_vars
=============================================================================
