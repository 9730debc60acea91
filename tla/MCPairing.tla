------------------------------ MODULE MCPairing ------------------------------
(* Small instances of Pairing: the calls that are made. *)
EXTENDS Pairing, TLC

CONSTANTS i1, i2, p1, p2, p3, p4, a1, a2, c1, d1, q1, device

New == [kind |-> "invite"]
Cancel(i) == [kind |-> "cancel", invite |-> i]
Pair(s, v, t) == [kind |-> "pair", secret |-> s, device |-> v, token |-> t]
ActivateBy(p, i) == [kind |-> "activate", request |-> p, invite |-> i]
Delete(i) == [kind |-> "delete", instance |-> i]
Ask(p) == [kind |-> "poll", request |-> p]

\* A request is activated with either of two invites, one of which is cancelled and
\* its host deleted, while the device polls.
LifeOp == i1 :> New @@ i2 :> New @@ p1 :> Pair("s1", device, "t1")
          @@ c1 :> Cancel(i1) @@ a1 :> ActivateBy(p1, i1) @@ a2 :> ActivateBy(p1, i2)
          @@ d1 :> Delete(i1) @@ q1 :> Ask(p1)

\* Requests of two devices: one device repeats its request, before or after it was
\* activated and its host deleted, and makes a second; the other comes with the token
\* of the first.
RaceOp == p1 :> Pair("s1", device, "t1") @@ p2 :> Pair("s1", device, "t1")
          @@ p3 :> Pair("s3", device, "t3") @@ p4 :> Pair("s4", i1, "t1")
          @@ i1 :> New @@ a1 :> ActivateBy(p1, i1) @@ d1 :> Delete(i1)
=============================================================================
