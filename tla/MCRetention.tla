----------------------------- MODULE MCRetention -----------------------------
(* Small instances of Retention: the reports that are sent. *)
EXTENDS Retention, TLC

CONSTANTS h1, h2

Report(h, t) == [host |-> h, at |-> t]

\* Three reports of one host, two of them in the same hour, and one of another.
TwoHosts == 1 :> Report(h1, 0) @@ 2 :> Report(h1, 1) @@ 3 :> Report(h1, 2) @@ 4 :> Report(h2, 1)

\* Three reports of one host.
OneHost == 1 :> Report(h1, 0) @@ 2 :> Report(h1, 1) @@ 3 :> Report(h1, 2)
=============================================================================
