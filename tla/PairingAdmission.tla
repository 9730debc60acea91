-------------------------- MODULE PairingAdmission --------------------------
(***************************************************************************)
(* check_create, check_poll and check_activation of PairingAdmission: a    *)
(* call reads the clock, waits for the mutex, and spends a token of its    *)
(* source and then one of its device or request, each from a map of its    *)
(* own.  Calls may get the mutex in another order than they read the       *)
(* clock, so that a bucket sees its time go backwards.                     *)
(*                                                                         *)
(* The three checks differ in their limits; here both maps have the same.  *)
(*                                                                         *)
(* The names of the specification differ from those of ReportBuckets, so   *)
(* that RateLimits_proofs can be about both.                               *)
(***************************************************************************)
EXTENDS TokenBuckets

CONSTANTS Call, Source, Id,
          From,    \* [Call -> Source]
          Names,   \* [Call -> Id]
          MaxClock \* bound: the last time of the clock

ASSUME AdmissionAssumption ==
  /\ From \in [Call -> Source] /\ Names \in [Call -> Id]
  /\ MaxClock \in Nat
  /\ None \notin Nat /\ None \notin {"source", "id", "admitted"}

VARIABLES
  sources, ids,  \* the maps
  clock,
  at,            \* the time each call has read
  result,        \* what each call was told, None while it has no answer
  judged,        \* history: the time up to which each source has its credit, that
                 \* of the last refill, or of the removal of its full bucket
  back           \* history: how far judged has gone back, in all

admissionVars == <<sources, ids, clock, at, result, judged, back>>

AdmissionInit ==
  /\ sources = [s \in Source |-> None]
  /\ ids = [i \in Id |-> None]
  /\ clock = 0
  /\ at = [c \in Call |-> None]
  /\ result = [c \in Call |-> None]
  /\ judged = [s \in Source |-> 0]
  /\ back = [s \in Source |-> 0]

Arrive(c) ==
  /\ at[c] = None
  /\ at' = [at EXCEPT ![c] = clock]
  /\ UNCHANGED <<sources, ids, clock, result, judged, back>>

\* Everything under the mutex.
Check(c) ==
  /\ at[c] # None /\ result[c] = None
  /\ \E first \in CheckAt(sources, From[c], at[c]) :
       /\ sources' = first.buckets
       /\ IF first.wait > 0
          THEN result' = [result EXCEPT ![c] = "source"] /\ UNCHANGED ids
          ELSE \E second \in CheckAt(ids, Names[c], at[c]) :
                 /\ ids' = second.buckets
                 /\ result' = [result EXCEPT ![c] = IF second.wait > 0 THEN "id" ELSE "admitted"]
  /\ judged' = [s \in Source |-> IF sources'[s] # None THEN sources'[s].refilled
                                ELSE IF sources[s] # None THEN Max({judged[s], at[c]})
                                ELSE judged[s]]
  /\ back' = [s \in Source |-> back[s] + Elapsed(judged[s], judged'[s])]
  /\ UNCHANGED <<clock, at>>

ClockTicks == clock < MaxClock /\ clock' = clock + 1 /\ UNCHANGED <<sources, ids, at, result, judged, back>>

AdmissionNext == ClockTicks \/ \E c \in Call : Arrive(c) \/ Check(c)

AdmissionSpec == AdmissionInit /\ [][AdmissionNext]_admissionVars
-----------------------------------------------------------------------------
(* Properties.                                                             *)

\* Types; neither map holds more buckets than its capacity.
AdmissionTypeOK ==
  /\ sources \in [Source -> Bucket \cup {None}] /\ Cardinality(Present(sources)) <= Capacity
  /\ ids \in [Id -> Bucket \cup {None}] /\ Cardinality(Present(ids)) <= Capacity
  /\ clock \in 0 .. MaxClock
  /\ at \in [Call -> (0 .. clock) \cup {None}]
  /\ result \in [Call -> {"source", "id", "admitted", None}]
  /\ judged \in [Source -> Nat] /\ back \in [Source -> Nat]

\* The calls of source s that read the clock in first .. last and spent a token.
Spent(s, first, last) ==
  {c \in Call : From[c] = s /\ result[c] \in {"id", "admitted"} /\ at[c] \in first .. last}

\* What a source gets through is its budget, and what the clock going backwards
\* has added to it, but no more.
BudgetPlusSkew ==
  \A s \in Source : \A first, last \in 0 .. clock :
    first <= last =>
      Cardinality(Spent(s, first, last)) * Interval <= Burst * Interval + (last - first) + back[s]

\* What the comment on PairingAdmission and docs/project-workflow.md say of the
\* budget of a source: it is bounded, by a burst and its refills.
BudgetBounded ==
  \A s \in Source : \A first, last \in 0 .. clock :
    first <= last =>
      Cardinality(Spent(s, first, last)) * Interval <= Burst * Interval + (last - first)
=============================================================================
