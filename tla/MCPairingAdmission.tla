------------------------- MODULE MCPairingAdmission -------------------------
(* Small instances of PairingAdmission: where the calls come from. *)
EXTENDS PairingAdmission, TLC

CONSTANTS c1, c2, c3, c4, c5, s1, s2, s3, d1, d2, d3

\* Three sources call for three devices.
ThreeSources == c1 :> s1 @@ c2 :> s1 @@ c3 :> s2 @@ c4 :> s3 @@ c5 :> s1
ThreeDevices == c1 :> d1 @@ c2 :> d1 @@ c3 :> d2 @@ c4 :> d3 @@ c5 :> d2

\* One source calls for many devices.
OneSource == [c \in Call |-> s1]
OwnDevice == [c \in Call |-> c]
=============================================================================
