------------------------ MODULE MCDatabaseOwnership ------------------------
(* A small instance of DatabaseOwnership: the commands that are run. *)
EXTENDS DatabaseOwnership, TLC

CONSTANTS s1, s2, d1, d2, a1, a2

Commands == s1 :> "serve" @@ s2 :> "serve" @@ d1 :> "doctor" @@ d2 :> "doctor"
            @@ a1 :> "admin-create" @@ a2 :> "admin-reset-password"
=============================================================================
