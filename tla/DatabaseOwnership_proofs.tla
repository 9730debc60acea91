----------------------- MODULE DatabaseOwnership_proofs -----------------------
(***************************************************************************)
(* Proofs about DatabaseOwnership: for any number of commands, started and *)
(* killed in any order, the locks keep two owners apart, and what they do  *)
(* to the file leaves it current or absent.                                *)
(***************************************************************************)
EXTENDS DatabaseOwnership, TLAPS

Creating == {"created", "initialized", "cleanup", "remove"}

\* Who holds which lock follows from where it is, so that the exclusion of the
\* locks is one of the commands.
LocksHeld ==
  /\ instance = {p \in Process : Serves(p) /\ pc[p] # "off"}
  /\ shared = {p \in Using : ~Offline(p)}
  /\ exclusive = {p \in Using : Offline(p)}

\* What the creator of the file relies on: it may create, and nobody has opened it.
CreatorState ==
  \A p \in Process :
    pc[p] \in Creating =>
      /\ MayCreate(p) /\ ~opened
      /\ pc[p] = "created" => main = "empty"
      /\ pc[p] = "initialized" => main = "empty"
      /\ pc[p] = "remove" => ~wal

\* The file when nobody is creating it.
FileState ==
  /\ opened => main = "current"
  /\ \A p \in Process : (pc[p] = "running" /\ Command[p] # "doctor") => opened
  /\ (~unclean /\ \A p \in Process : pc[p] \notin Creating) => main \in {"absent", "current"} /\ ~wal
  /\ wal => main = "empty"

IInv == TypeOK /\ LocksHeld /\ CreatorState /\ FileState
-----------------------------------------------------------------------------
\* The initial state satisfies the invariant.
LEMMA InitInvariant == Init => IInv
  BY CommandAssumption
     DEF Init, IInv, TypeOK, Label, LocksHeld, Using, CreatorState, Creating, FileState

\* The lock's exclusion, in terms of the commands that use the database.
LEMMA Exclusion ==
  ASSUME IInv, NEW p \in Using, NEW q \in Using, p # q
  PROVE  ~Offline(p) /\ (Command[p] = "doctor" \/ Command[q] = "doctor")
  <1>1. ~Offline(p)
    BY DEF IInv, TypeOK, LocksHeld, Using
  <1>2. ~Offline(q)
    BY DEF IInv, TypeOK, LocksHeld, Using
  <1>3. ~(Serves(p) /\ Serves(q))
    BY DEF IInv, TypeOK, LocksHeld, Using
  <1> QED
    BY <1>1, <1>2, <1>3, CommandAssumption DEF Offline, Serves, Using

\* A command that creates the file is the only one that may write.
LEMMA OneCreator ==
  ASSUME IInv, NEW p \in Process, pc[p] \in Creating,
         NEW q \in Process, q # p, pc[q] \notin {"off", "maintenance"}
  PROVE  Command[q] = "doctor"
  <1>1. p \in Using /\ q \in Using
    BY DEF Using, Creating
  <1>2. Command[p] # "doctor"
    BY DEF IInv, CreatorState, MayCreate
  <1> QED
    BY <1>1, <1>2, Exclusion

\* Every step preserves the invariant.
LEMMA StepInvariant == IInv /\ [Next]_vars => IInv'
  <1> SUFFICES ASSUME IInv, [Next]_vars PROVE IInv'
    OBVIOUS
  <1> USE DEF IInv, TypeOK, Label
  <1>1. CASE UNCHANGED vars
    BY <1>1 DEF vars, locks, file, LocksHeld, Using, CreatorState, FileState
  <1>2. ASSUME NEW p \in Process, Step(p) PROVE IInv'
    <2>1. CASE TakeInstance(p)
      <3> USE <2>1 DEF TakeInstance, InstanceFree, Goto, file
      <3>1. TypeOK' OBVIOUS
      <3>2. LocksHeld' BY DEF LocksHeld, Using
      <3>3. CreatorState' BY DEF CreatorState, Creating, MayCreate
      <3>4. FileState' BY DEF FileState, Creating
      <3> QED BY <3>1, <3>2, <3>3, <3>4
    <2>2. CASE TakeMaintenance(p)
      <3> USE <2>2 DEF TakeMaintenance, Goto, file, Exclusively
      <3>1. TypeOK' BY DEF LocksHeld, Using
      <3>2. LocksHeld' BY CommandAssumption DEF LocksHeld, Using, Serves, Offline
      <3>3. CreatorState' BY DEF CreatorState, Creating, MayCreate
      <3>4. FileState' BY DEF FileState, Creating
      <3> QED BY <3>1, <3>2, <3>3, <3>4
    <2>3. CASE MaintenanceRefused(p)
      <3> USE <2>3 DEF MaintenanceRefused, Goto, Exit, file
      <3>1. TypeOK' OBVIOUS
      <3>2. LocksHeld' BY DEF LocksHeld, Using
      <3>3. CreatorState' BY DEF CreatorState, Creating, MayCreate
      <3>4. FileState' BY DEF FileState, Creating
      <3> QED BY <3>1, <3>2, <3>3, <3>4
    <2>4. CASE Create(p)
      <3> USE <2>4 DEF Create, Goto, locks
      <3>1. TypeOK' OBVIOUS
      <3>2. LocksHeld' BY DEF LocksHeld, Using
      <3>3. \A q \in Process : q # p => pc[q] \notin Creating
        BY OneCreator, CommandAssumption DEF MayCreate, Creating
      <3>4. CreatorState' BY <3>3 DEF CreatorState, FileState, Creating, MayCreate
      <3>5. FileState' BY DEF FileState, Creating
      <3> QED BY <3>1, <3>2, <3>4, <3>5
    <2>5. CASE Open(p)
      <3> USE <2>5 DEF Open, Passes, Goto, Exit, file, locks
      <3>1. TypeOK'
        <4>1. opened' \in BOOLEAN OBVIOUS
        <4>2. pc' \in [Process -> Label] OBVIOUS
        <4> QED BY <4>1, <4>2
      <3>2. LocksHeld' BY DEF LocksHeld, Using
      <3>3. opened' => opened \/ \A q \in Process : pc[q] \notin Creating
        BY OneCreator, CommandAssumption DEF Creating
      <3>4. CreatorState' BY <3>3 DEF CreatorState, Creating, MayCreate
      <3>5. FileState' BY DEF FileState, Creating
      <3> QED BY <3>1, <3>2, <3>4, <3>5
    <2>6. CASE InitializeSchema(p)
      <3> USE <2>6 DEF InitializeSchema, Goto, locks
      <3>1. TypeOK' OBVIOUS
      <3>2. LocksHeld' BY DEF LocksHeld, Using
      <3>3. \A q \in Process : q # p => pc[q] \notin Creating
        BY OneCreator DEF CreatorState, MayCreate, Creating
      <3>4. CreatorState' BY <3>3 DEF CreatorState, Creating, MayCreate
      <3>5. FileState' BY DEF FileState, CreatorState, Creating
      <3> QED BY <3>1, <3>2, <3>4, <3>5
    <2>7. CASE Checkpoint(p)
      <3> USE <2>7 DEF Checkpoint, Goto, locks
      <3>1. TypeOK' OBVIOUS
      <3>2. LocksHeld' BY DEF LocksHeld, Using
      <3>3. \A q \in Process : q # p => pc[q] \notin Creating
        BY OneCreator DEF CreatorState, MayCreate, Creating
      <3>4. CreatorState' BY <3>3 DEF CreatorState, Creating, MayCreate
      <3>5. FileState' BY <3>3 DEF FileState, Creating
      <3> QED BY <3>1, <3>2, <3>4, <3>5
    <2>8. CASE InitializationFails(p)
      <3> USE <2>8 DEF InitializationFails, AfterFailure, Goto, locks, file
      <3>1. TypeOK' OBVIOUS
      <3>2. LocksHeld' BY DEF LocksHeld, Using
      <3>3. \A q \in Process : q # p => pc[q] \notin Creating
        BY OneCreator DEF CreatorState, MayCreate, Creating
      <3>4. CreatorState' BY <3>3 DEF CreatorState, Creating, MayCreate
      <3>5. FileState' BY DEF FileState, CreatorState, Creating
      <3> QED BY <3>1, <3>2, <3>4, <3>5
    <2>9. CASE RemoveSidecars(p)
      <3> USE <2>9 DEF RemoveSidecars, Goto, locks
      <3>1. TypeOK' OBVIOUS
      <3>2. LocksHeld' BY DEF LocksHeld, Using
      <3>3. CreatorState' BY DEF CreatorState, Creating, MayCreate
      <3>4. FileState' BY DEF FileState, Creating
      <3> QED BY <3>1, <3>2, <3>3, <3>4
    <2>10. CASE RemoveMain(p)
      <3> USE <2>10 DEF RemoveMain, Goto, Exit
      <3>1. TypeOK' OBVIOUS
      <3>2. LocksHeld' BY DEF LocksHeld, Using
      <3>3. \A q \in Process : q # p => pc[q] \notin Creating
        BY OneCreator DEF CreatorState, MayCreate, Creating
      <3>4. CreatorState' BY <3>3 DEF CreatorState, Creating, MayCreate
      <3>5. FileState' BY DEF FileState, CreatorState, Creating
      <3> QED BY <3>1, <3>2, <3>4, <3>5
    <2>11. CASE CleanupFails(p)
      <3> USE <2>11 DEF CleanupFails, Goto, Exit, file
      <3>1. TypeOK' OBVIOUS
      <3>2. LocksHeld' BY DEF LocksHeld, Using
      <3>3. CreatorState' BY DEF CreatorState, Creating, MayCreate
      <3>4. FileState' BY DEF FileState, Creating
      <3> QED BY <3>1, <3>2, <3>3, <3>4
    <2>12. CASE Finish(p)
      <3> USE <2>12 DEF Finish, Goto, Exit, file
      <3>1. TypeOK' OBVIOUS
      <3>2. LocksHeld' BY DEF LocksHeld, Using
      <3>3. CreatorState' BY DEF CreatorState, Creating, MayCreate
      <3>4. FileState' BY DEF FileState, Creating
      <3> QED BY <3>1, <3>2, <3>3, <3>4
    <2>13. CASE Killed(p)
      <3> USE <2>13 DEF Killed, Goto, Exit, file
      <3>1. TypeOK' OBVIOUS
      <3>2. LocksHeld' BY DEF LocksHeld, Using
      <3>3. CreatorState' BY DEF CreatorState, Creating, MayCreate
      <3>4. FileState' BY DEF FileState, Creating
      <3> QED BY <3>1, <3>2, <3>3, <3>4
    <2> QED
      BY <1>2, <2>1, <2>2, <2>3, <2>4, <2>5, <2>6, <2>7, <2>8, <2>9, <2>10, <2>11, <2>12, <2>13
         DEF Step
  <1> QED
    BY <1>1, <1>2 DEF Next

\* The invariant holds in every reachable state.
LEMMA Invariant == Spec => []IInv
  BY InitInvariant, StepInvariant, PTL DEF Spec
-----------------------------------------------------------------------------
\* The locks never have two servers, or an exclusive holder beside another
\* (ApplicationLock, MaintenanceLock).
THEOREM LocksExclude == Spec => []TypeOK
  BY Invariant, PTL DEF IInv

\* However commands are started and killed, the instance and maintenance locks keep
\* two writers, and a doctor and an offline command, from using the database
\* together (ApplicationLock, MaintenanceLock).
THEOREM OwnersExclude == Spec => []OneOwner
  <1>1. IInv => OneOwner
    BY Exclusion DEF OneOwner, Using
  <1> QED
    BY <1>1, Invariant, PTL

\* No failed initialization removes, and no preflight lets through, anything but
\* what it should: what a writing command has opened is current and stays so
\* (open_or_initialize, fail_initialization).
THEOREM OpenedIsSafe == Spec => []OpenedStaysCurrent
  <1>1. IInv => OpenedStaysCurrent
    BY DEF IInv, FileState, OpenedStaysCurrent
  <1> QED
    BY <1>1, Invariant, PTL

\* Without a kill or a failed clean-up at the wrong moment the next start finds a
\* database it accepts, or none, and at no moment does a kill leave the WAL of a
\* database that is gone (cleanup_failed_initialization).
THEOREM InitializationCleansUp == Spec => []LeftoverOnlyIfUnclean
  <1>1. IInv => LeftoverOnlyIfUnclean
    BY DEF IInv, FileState, LeftoverOnlyIfUnclean, Using, Creating
  <1> QED
    BY <1>1, Invariant, PTL
=============================================================================
