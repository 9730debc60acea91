---------------------------- MODULE MCHostConsole ----------------------------
(* A small instance of HostConsole: the reports that are sent and the calls. *)
EXTENDS HostConsole, TLC

CONSTANTS d1, y1, y2, m1, m2

\* Three reports of the last host, two of them collected at the same time.
Reports == 1 :> [host |-> 3, at |-> 1] @@ 2 :> [host |-> 3, at |-> 2] @@ 3 :> [host |-> 3, at |-> 1]

History(from, to) == [kind |-> "history", host |-> 3, from |-> from, to |-> to]

\* A detail, the history of all times and that of one time, two remarks.
Calls ==
  d1 :> [kind |-> "detail", host |-> 3]
    @@ y1 :> History(None, None) @@ y2 :> History(1, 1)
    @@ m1 :> [kind |-> "remark", host |-> 3] @@ m2 :> [kind |-> "remark", host |-> 3]

\* The page and one report, or a read and three, or two remarks.
Apart ==
  {[calls |-> {}, reports |-> {1}], [calls |-> {m1, m2}, reports |-> {}]}
    \cup {[calls |-> {c}, reports |-> {1, 2, 3}] : c \in {d1, y1, y2}}
=============================================================================
