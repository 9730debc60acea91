-------------------------- MODULE MCTelemetryWriter --------------------------
(* Small instances of TelemetryWriter: what the three requests carry. *)
EXTENDS TelemetryWriter, TLC

CONSTANTS h1, h2, r1, r2, r3

Report(h, i, t) == [host |-> h, id |-> i, at |-> t]

\* A report, its retry, and a report of another host that has the same id.
RetryAndCollision ==
  r1 :> Report(h1, 1, 1) @@ r2 :> Report(h1, 1, 1) @@ r3 :> Report(h2, 1, 1)

\* The report and its retry differ in nothing.
RetrySymmetry == Permutations({r1, r2})

\* Two reports of one host, collected at the same time.
SameTime == r1 :> Report(h1, 2, 1) @@ r2 :> Report(h1, 1, 1)
=============================================================================
