---------------------------- MODULE ReportBuckets ----------------------------
(***************************************************************************)
(* The rate limit on reports (http.rs, ReportBuckets): one map of buckets  *)
(* behind a mutex, the clock read by its holder, so that a check is one    *)
(* step.  check_invite_account of PairingAdmission works the same way.     *)
(***************************************************************************)
EXTENDS TokenBuckets, Sequences

CONSTANTS Host,
          MaxNow   \* bound: the last time of the clock

ASSUME ReportBucketsAssumption == IsFiniteSet(Host) /\ MaxNow \in Nat

VARIABLES
  buckets,
  now,
  admitted,  \* history: the times at which each host was let through
  promise    \* history: when a host that was refused may come back

vars == <<buckets, now, admitted, promise>>

Init ==
  /\ buckets = [h \in Host |-> None]
  /\ now = 0
  /\ admitted = [h \in Host |-> <<>>]
  /\ promise = [h \in Host |-> None]

\* A host without a bucket was promised room in the map, which the next caller
\* may take; a host with a bucket has its own.
Allow(h) ==
  \E result \in CheckAt(buckets, h, now) :
    /\ buckets' = result.buckets
    /\ admitted' = IF result.wait = 0 THEN [admitted EXCEPT ![h] = Append(@, now)] ELSE admitted
    /\ promise' = [x \in Host |->
         IF x = h THEN IF result.wait = 0 THEN None ELSE now + RetryAfter(result.wait)
         ELSE IF result.buckets[x] = None THEN None ELSE promise[x]]
    /\ UNCHANGED now

Tick == now < MaxNow /\ now' = now + 1 /\ UNCHANGED <<buckets, admitted, promise>>

Next == Tick \/ \E h \in Host : Allow(h)

Spec == Init /\ [][Next]_vars
-----------------------------------------------------------------------------
(* Properties.                                                             *)

\* Types; the map never holds more buckets than its capacity.
TypeOK ==
  /\ buckets \in [Host -> Bucket \cup {None}]
  /\ Cardinality(Present(buckets)) <= Capacity
  /\ now \in 0 .. MaxNow
  /\ admitted \in [Host -> Seq(0 .. now)]
  /\ promise \in [Host -> Nat \cup {None}]

\* No host gets more through than a burst and one report per interval, in no
\* stretch of time, also when its bucket was evicted or dropped in between.
RateBounded ==
  \A h \in Host : \A i, j \in DOMAIN admitted[h] :
    i <= j => (j - i + 1) * Interval <= Burst * Interval + admitted[h][j] - admitted[h][i]

\* Retry-After is enough: a refused host that has waited for so long is admitted,
\* unless it waited for room in the map and another host was faster.
RetryAfterSuffices ==
  \A h \in Host :
    (promise[h] # None /\ promise[h] <= now)
      => \A result \in CheckAt(buckets, h, now) : result.wait = 0
=============================================================================
