---------------------------- MODULE TokenBuckets ----------------------------
(***************************************************************************)
(* The bounded maps of token buckets that limit pairing calls              *)
(* (pairing_admission.rs, Bucket and BoundedBuckets) and reports (http.rs, *)
(* TokenBucket and ReportBuckets); the two are the same but for names.     *)
(*                                                                         *)
(* A bucket's credit is its tokens times the refill interval, so that one  *)
(* unit of time earns one unit of credit and a call costs Interval.  The   *)
(* code keeps it in f64; here it is exact.                                 *)
(***************************************************************************)
EXTENDS Naturals, FiniteSets, FiniteSetsExt

CONSTANTS None,
          Burst,     \* tokens of a full bucket
          Interval,  \* time that earns one token
          Capacity,  \* buckets a map holds
          Ttl,       \* a bucket not seen for so long is dropped
          Second     \* what Retry-After is rounded up to

\* The first line is BucketPolicy::new and BoundedBuckets::new; the second holds of
\* the limits in production(), and a bucket that is dropped is full because of it.
ASSUME BucketAssumption ==
  /\ {Burst, Interval, Capacity, Ttl, Second} \subseteq Nat \ {0}
  /\ Ttl >= Burst * Interval
  /\ None \notin [credit : Nat, refilled : Nat, seen : Nat]

Bucket == [credit   : 0 .. Burst * Interval,
           refilled : Nat,   \* last_refill, updated
           seen     : Nat]   \* last_seen

\* saturating_duration_since
Elapsed(now, since) == IF now > since THEN now - since ELSE 0

Full(now) == [credit |-> Burst * Interval, refilled |-> now, seen |-> now]

\* Mutant: the credit of a bucket is not capped.
CreditUncapped(b, now) == b.credit + Elapsed(now, b.refilled)

\* tokens_at
CreditAt(b, now) == Min({b.credit + Elapsed(now, b.refilled), Burst * Interval})

Present(m) == {k \in DOMAIN m : m[k] # None}

\* A map after the check, and how long the caller has to wait, 0 when admitted.
Checked(m, k, now) ==
  LET credit == CreditAt(m[k], now)
      left   == IF credit < Interval THEN credit ELSE credit - Interval
  IN  [buckets |-> [m EXCEPT ![k] = [credit |-> left, refilled |-> now, seen |-> now]],
       wait    |-> IF credit < Interval THEN Interval - credit ELSE 0]

Retained(m, now) ==
  [k \in DOMAIN m |-> IF m[k] # None /\ Elapsed(now, m[k].seen) < Ttl THEN m[k] ELSE None]

\* Mutant: there is room while the map is no more than full.
HasRoomOffByOne(m) == Cardinality(Present(m)) <= Capacity

HasRoom(m) == Cardinality(Present(m)) < Capacity

\* Mutant: the bucket seen least recently goes, full or not.
EvictableAny(m, now) == {k \in Present(m) : \A l \in Present(m) : m[k].seen <= m[l].seen}

\* What make_room may remove: of the full buckets one seen least recently.
Evictable(m, now) ==
  LET full == {k \in Present(m) : CreditAt(m[k], now) >= Burst * Interval}
  IN  {k \in full : \A l \in full : m[k].seen <= m[l].seen}

UntilOneIsFull(m, now) == Min({Burst * Interval - CreditAt(m[k], now) : k \in Present(m)})

\* check_at, allow_at: the possible results.
CheckAt(m, k, now) ==
  LET kept == Retained(m, now)
      With(n) == Checked([n EXCEPT ![k] = Full(now)], k, now)
  IN  IF kept[k] # None THEN {Checked(kept, k, now)}
      ELSE IF HasRoom(kept) THEN {With(kept)}
      ELSE IF Evictable(kept, now) # {}
      THEN {With([kept EXCEPT ![old] = None]) : old \in Evictable(kept, now)}
      ELSE {[buckets |-> kept, wait |-> Max({1, UntilOneIsFull(kept, now)})]}

\* Mutant: as_secs() without the remainder.
RetryAfterTruncated(wait) == Max({Second, (wait \div Second) * Second})

\* limited: whole seconds, rounded up, at least one.
RetryAfter(wait) == ((wait + Second - 1) \div Second) * Second
=============================================================================
