-------------------------- MODULE DatabaseOwnership --------------------------
(***************************************************************************)
(* Who may use the database file, and how it comes into being: the         *)
(* commands of main.rs, the instance and maintenance locks                 *)
(* (database_lock.rs), and opening or creating the database               *)
(* (database_schema.rs).  Commands run side by side and may be killed at   *)
(* any step; the kernel then drops their locks and leaves the file.        *)
(*                                                                         *)
(* Of the file the model keeps what the start-up looks at: whether it      *)
(* exists, and whether the schema is in its main image or still in the     *)
(* WAL, where the read-only preflight does not look.                       *)
(***************************************************************************)
CONSTANTS Process,
          Command   \* [Process -> the command that it runs, again and again]

ASSUME CommandAssumption ==
  Command \in [Process -> {"serve", "doctor", "admin-create", "admin-reset-password"}]

VARIABLES
  pc,        \* where each process is
  instance,  \* the holders of the instance lock
  shared,    \* of the maintenance lock, and how
  exclusive,
  main,      \* the main image of the database file
  wal,       \* whether the WAL has the schema
  opened,    \* history: a command that may write has opened the database
  unclean    \* history: a process was killed, or its clean-up failed, while it
             \* was creating the database

locks == <<instance, shared, exclusive>>
file == <<main, wal>>
vars == <<pc, locks, file, opened, unclean>>

Init ==
  /\ pc = [p \in Process |-> "off"]
  /\ instance = {} /\ shared = {} /\ exclusive = {}
  /\ main = "absent" /\ wal = FALSE
  /\ opened = FALSE /\ unclean = FALSE

Goto(p, l) == pc' = [pc EXCEPT ![p] = l]

\* The process ends; its locks go with it.
Exit(p) ==
  /\ Goto(p, "off")
  /\ instance' = instance \ {p}
  /\ shared' = shared \ {p}
  /\ exclusive' = exclusive \ {p}

-----------------------------------------------------------------------------
(* The locks.  A lock that cannot be had at once ends the command.         *)

Serves(p) == Command[p] = "serve"
Offline(p) == Command[p] \in {"admin-create", "admin-reset-password"}

\* Mutant: a server that finds the lock taken goes on.
InstanceIgnored == TRUE

InstanceFree == instance = {}

TakeInstance(p) ==
  /\ pc[p] = "off" /\ Serves(p)
  /\ InstanceFree
  /\ instance' = instance \cup {p}
  /\ Goto(p, "maintenance")
  /\ UNCHANGED <<shared, exclusive, file, opened, unclean>>

\* Mutant: administrator commands run online.
ExclusivelyNever(p) == FALSE

Exclusively(p) == Offline(p)

TakeMaintenance(p) ==
  /\ pc[p] = IF Serves(p) THEN "maintenance" ELSE "off"
  /\ IF Exclusively(p)
     THEN shared \cup exclusive = {} /\ exclusive' = {p} /\ UNCHANGED shared
     ELSE exclusive = {} /\ shared' = shared \cup {p} /\ UNCHANGED exclusive
  /\ Goto(p, "open")
  /\ UNCHANGED <<instance, file, opened, unclean>>

\* The server gives up, and its instance lock.
MaintenanceRefused(p) ==
  /\ pc[p] = "maintenance" /\ exclusive # {}
  /\ Exit(p)
  /\ UNCHANGED <<file, opened, unclean>>

-----------------------------------------------------------------------------
(* open_or_initialize and open_existing.                                   *)

MayCreate(p) == Command[p] \in {"serve", "admin-create"}

\* create_new
Create(p) ==
  /\ pc[p] = "open" /\ MayCreate(p) /\ main = "absent"
  /\ main' = "empty"
  /\ Goto(p, "created")
  /\ UNCHANGED <<wal, locks, opened, unclean>>

\* Mutant: the preflight takes any file that exists.
PassesIfPresent == main # "absent"

Passes == main = "current"

\* open_existing: the preflight reads the main image only.
Open(p) ==
  /\ pc[p] = "open" /\ (main # "absent" \/ ~MayCreate(p))
  /\ IF Passes
     THEN /\ Goto(p, "running")
          /\ opened' = (opened \/ Command[p] # "doctor")
          /\ UNCHANGED locks
     ELSE Exit(p) /\ UNCHANGED opened
  /\ UNCHANGED <<file, unclean>>

\* Mutant: an initialization that fails leaves its file.
AfterFailureNothing(p) == Exit(p)

AfterFailure(p) == Goto(p, "cleanup") /\ UNCHANGED locks

\* initialize_empty commits the schema, to the WAL.
InitializeSchema(p) ==
  /\ pc[p] = "created"
  /\ Goto(p, "initialized")
  /\ wal' = TRUE
  /\ UNCHANGED <<main, locks, opened, unclean>>

\* checkpoint_and_sync
Checkpoint(p) ==
  /\ pc[p] = "initialized"
  /\ main' = "current" /\ wal' = FALSE
  /\ opened' = TRUE
  /\ Goto(p, "running")
  /\ UNCHANGED <<locks, unclean>>

\* Any step from the new file to its synchronization goes wrong; the checkpoint
\* may have been made.
InitializationFails(p) ==
  /\ pc[p] \in {"created", "initialized"}
  /\ AfterFailure(p)
  /\ \/ UNCHANGED file
     \/ pc[p] = "initialized" /\ main' = "current" /\ wal' = FALSE
  /\ UNCHANGED <<opened, unclean>>

\* cleanup_failed_initialization: the sidecars first, then the database.
RemoveSidecars(p) ==
  /\ pc[p] = "cleanup"
  /\ wal' = FALSE
  /\ Goto(p, "remove")
  /\ UNCHANGED <<main, locks, opened, unclean>>

RemoveMain(p) ==
  /\ pc[p] = "remove"
  /\ main' = "absent"
  /\ Exit(p)
  /\ UNCHANGED <<wal, opened, unclean>>

CleanupFails(p) ==
  /\ pc[p] \in {"cleanup", "remove"}
  /\ Exit(p)
  /\ unclean' = TRUE
  /\ UNCHANGED <<file, opened>>

-----------------------------------------------------------------------------
\* The command is done, has failed (no administrator, a bad password), or was shut
\* down; the lock outlives the workers.
Finish(p) ==
  /\ pc[p] = "running"
  /\ Exit(p)
  /\ UNCHANGED <<file, opened, unclean>>

Killed(p) ==
  /\ pc[p] # "off"
  /\ Exit(p)
  /\ unclean' = (unclean \/ pc[p] \in {"created", "initialized", "cleanup", "remove"})
  /\ UNCHANGED <<file, opened>>

Step(p) ==
  \/ TakeInstance(p) \/ TakeMaintenance(p) \/ MaintenanceRefused(p)
  \/ Create(p) \/ Open(p)
  \/ InitializeSchema(p) \/ Checkpoint(p) \/ InitializationFails(p)
  \/ RemoveSidecars(p) \/ RemoveMain(p) \/ CleanupFails(p)
  \/ Finish(p) \/ Killed(p)

Next == \E p \in Process : Step(p)

Spec == Init /\ [][Next]_vars
-----------------------------------------------------------------------------
(* Properties.                                                             *)

Label == {"off", "maintenance", "open", "created", "initialized", "cleanup", "remove", "running"}

\* Types; the locks admit one exclusive holder, or for maintenance shared ones.
TypeOK ==
  /\ pc \in [Process -> Label]
  /\ instance \subseteq Process /\ shared \subseteq Process /\ exclusive \subseteq Process
  /\ \A p, q \in instance : p = q
  /\ \A p \in exclusive : exclusive = {p} /\ shared = {}
  /\ main \in {"absent", "empty", "current"} /\ wal \in BOOLEAN
  /\ opened \in BOOLEAN /\ unclean \in BOOLEAN

Using == {p \in Process : pc[p] \notin {"off", "maintenance"}}

\* One server, or one administrator command, or neither: no two commands that may
\* write have the database, and an offline one shares it not even with a doctor.
OneOwner ==
  /\ \A p, q \in Using : p # q => Command[p] = "doctor" \/ Command[q] = "doctor"
  /\ \A p \in Using : Offline(p) => Using = {p}

\* A command that may write runs on the current schema only, and a database that
\* one of them has opened is never removed by another's failed initialization.
OpenedStaysCurrent ==
  /\ opened => main = "current"
  /\ \A p \in Process : (pc[p] = "running" /\ Command[p] # "doctor") => main = "current"

\* With nobody at work on it the database is absent or current, so that the next
\* start succeeds; only a process that was killed, or could not clean up, while it
\* created the file leaves one that every start rejects.  Even that one's WAL stays
\* with its file: wherever a process is killed, no WAL outlives its database, for
\* SQLite would take it for that of the file the next start creates.
LeftoverOnlyIfUnclean ==
  /\ (Using = {} /\ ~unclean) => main \in {"absent", "current"} /\ ~wal
  /\ wal => main = "empty"
=============================================================================
