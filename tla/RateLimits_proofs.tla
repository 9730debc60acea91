-------------------------- MODULE RateLimits_proofs --------------------------
(***************************************************************************)
(* The rate limits on reports and on pairing calls keep what they promise, *)
(* whatever the limits, the capacity of the maps and the number of hosts,  *)
(* sources, devices and calls.                                             *)
(*                                                                         *)
(* Every result of CheckAt is described once (Outcome), for a map with any *)
(* keys K and a time that may be earlier than those in the map, in terms   *)
(* of the level of a key: the credit of its bucket, or a full burst when   *)
(* it has none.  Dropping or evicting a bucket leaves the level as it is.  *)
(*                                                                         *)
(* Reports are checked at times that never go back (ReportBuckets), and a  *)
(* host gets no more than its budget.  Pairing calls are not               *)
(* (PairingAdmission): what the bucket of a source is set back by is the   *)
(* surplus it may get.                                                     *)
(***************************************************************************)
EXTENDS ReportBuckets, PairingAdmission, FiniteSetLemmas, SequenceTheorems

Most == Burst * Interval

\* A report costs something and a burst is at least one report.
LEMMA Limits ==
  /\ Most \in Nat \ {0} /\ Interval \in Nat \ {0} /\ Interval <= Most
  /\ Capacity \in Nat \ {0} /\ Second \in Nat \ {0}
  /\ Ttl \in Nat /\ Ttl >= Most
<1>1. /\ Burst \in Nat \ {0} /\ Interval \in Nat \ {0} /\ Capacity \in Nat \ {0}
      /\ Ttl \in Nat /\ Second \in Nat \ {0} /\ Ttl >= Burst * Interval
  BY BucketAssumption
<1>2. \A i, b \in Nat \ {0} : b * i \in Nat \ {0} /\ i <= b * i
  OBVIOUS
<1>3. QED
  BY <1>1, <1>2 DEF Most

Maps(K) == [K -> Bucket \cup {None}]

LEMMA NoBucket == None \notin Bucket
<1>1. Bucket \subseteq [credit : Nat, refilled : Nat, seen : Nat]
  <2>1. 0 .. Burst * Interval \subseteq Nat
    OBVIOUS
  <2>2. QED
    BY <2>1 DEF Bucket
<1>2. QED
  BY <1>1, BucketAssumption

\* What a bucket may spend: it never exceeds a burst, and grows as the time does.
LEMMA Credit ==
  ASSUME NEW b \in Bucket, NEW t \in Nat
  PROVE  CreditAt(b, t) = IF b.credit + Elapsed(t, b.refilled) <= Most
                          THEN b.credit + Elapsed(t, b.refilled) ELSE Most
<1>1. b.credit \in Nat /\ b.refilled \in Nat /\ Most \in Nat
  BY Limits DEF Bucket
<1>2. b.credit + Elapsed(t, b.refilled) \in Nat
  BY <1>1 DEF Elapsed
<1>3. Min({b.credit + Elapsed(t, b.refilled), Most})
        = IF b.credit + Elapsed(t, b.refilled) <= Most
          THEN b.credit + Elapsed(t, b.refilled) ELSE Most
  BY <1>1, <1>2, MinOfTwo
<1>4. QED
  BY <1>3 DEF CreditAt, Most

LEMMA CreditBounds ==
  ASSUME NEW b \in Bucket, NEW t \in Nat
  PROVE  /\ CreditAt(b, t) \in 0 .. Most
         /\ CreditAt(b, t) >= b.credit
         /\ CreditAt(b, t) <= b.credit + Elapsed(t, b.refilled)
         /\ CreditAt(b, t + 1) \in 0 .. Most
         /\ CreditAt(b, t + 1) <= CreditAt(b, t) + 1
<1>1. b.credit \in 0 .. Most /\ b.refilled \in Nat /\ Most \in Nat
  BY Limits DEF Bucket, Most
<1>2. CreditAt(b, t) = IF b.credit + Elapsed(t, b.refilled) <= Most
                       THEN b.credit + Elapsed(t, b.refilled) ELSE Most
  BY Credit
<1>3. CreditAt(b, t + 1) = IF b.credit + Elapsed(t + 1, b.refilled) <= Most
                           THEN b.credit + Elapsed(t + 1, b.refilled) ELSE Most
  BY <1>1, Credit
<1>4. /\ Elapsed(t, b.refilled) \in Nat /\ Elapsed(t + 1, b.refilled) \in Nat
      /\ Elapsed(t + 1, b.refilled) <= Elapsed(t, b.refilled) + 1
  BY <1>1 DEF Elapsed
<1>5. QED
  BY <1>1, <1>2, <1>3, <1>4

\* A bucket has no more than its credit at the time it was refilled, or before.
LEMMA AtOnce ==
  ASSUME NEW b \in Bucket, NEW t \in Nat, t <= b.refilled
  PROVE  CreditAt(b, t) = b.credit
<1>1. b.credit \in 0 .. Most /\ b.refilled \in Nat
  BY DEF Bucket, Most
<1>2. Elapsed(t, b.refilled) = 0
  BY <1>1 DEF Elapsed
<1>3. QED
  BY <1>1, <1>2, Credit

\* Retry-After is a number of seconds that is not shorter than the wait.
LEMMA RoundedUp ==
  ASSUME NEW w \in Nat
  PROVE  RetryAfter(w) \in Nat /\ RetryAfter(w) >= w
<1>1. Second \in Nat \ {0}
  BY Limits
<1> DEFINE q == (w + Second - 1) \div Second
<1>2. q \in Nat /\ q * Second <= w + Second - 1 /\ w + Second - 1 < q * Second + Second
  BY <1>1
<1>3. q * Second \in Nat
  BY <1>1, <1>2
<1>4. RetryAfter(w) = q * Second
  BY DEF RetryAfter
<1> HIDE DEF q
<1>5. QED
  BY <1>1, <1>2, <1>3, <1>4

-----------------------------------------------------------------------------
(* What one check does.                                                    *)

\* A map with the keys K, as it is between two calls.
Sane(K, m) ==
  /\ m \in Maps(K)
  /\ IsFiniteSet(Present(m)) /\ Cardinality(Present(m)) <= Capacity
  /\ \A k \in K : m[k] # None => m[k].refilled = m[k].seen

\* What a host may spend: without a bucket it would be given a full one.
Level(m, h, t) == IF m[h] = None THEN Most ELSE CreditAt(m[h], t)

LEMMA LevelType ==
  ASSUME NEW K, NEW t \in Nat, NEW m, Sane(K, m), NEW h \in K
  PROVE  /\ Level(m, h, t) \in 0 .. Most
         /\ Level(m, h, t + 1) \in 0 .. Most
         /\ Level(m, h, t + 1) <= Level(m, h, t) + 1
<1>1. CASE m[h] = None
  BY <1>1, Limits DEF Level
<1>2. CASE m[h] # None
  <2>1. m[h] \in Bucket
    BY <1>2 DEF Sane, Maps
  <2>2. QED
    BY <1>2, <2>1, CreditBounds DEF Level
<1>3. QED
  BY <1>1, <1>2

LEMMA PresentKeys ==
  ASSUME NEW K, NEW m \in Maps(K)
  PROVE  Present(m) = {k \in K : m[k] # None}
BY DEF Present, Maps

LEMMA PresentType ==
  ASSUME NEW K, NEW m, Sane(K, m)
  PROVE  IsFiniteSet(Present(m)) /\ Cardinality(Present(m)) \in Nat
BY FS_CardinalityType DEF Sane

\* A bucket goes only when it is full, by its age or to make room.
Thinned(K, m, n, t) ==
  /\ n \in Maps(K)
  /\ \A h \in K : \/ n[h] = m[h]
                  \/ n[h] = None /\ m[h] # None /\ CreditAt(m[h], t) = Most

LEMMA ThinnedLevels ==
  ASSUME NEW K, NEW t \in Nat, NEW m, Sane(K, m), NEW n, Thinned(K, m, n, t)
  PROVE  /\ Sane(K, n)
         /\ \A h \in K : Level(n, h, t) = Level(m, h, t)
         /\ Present(n) \subseteq Present(m)
         /\ Present(n) # Present(m) => Cardinality(Present(n)) < Capacity
<1>1. m \in Maps(K) /\ n \in Maps(K)
  BY DEF Sane, Thinned
<1>2. Present(n) \subseteq Present(m)
  BY <1>1, PresentKeys DEF Thinned
<1>3. /\ IsFiniteSet(Present(n))
      /\ Cardinality(Present(n)) <= Cardinality(Present(m))
      /\ Present(n) # Present(m) => Cardinality(Present(n)) < Cardinality(Present(m))
  <2>1. IsFiniteSet(Present(m)) /\ IsFiniteSet(Present(n))
    BY <1>2, PresentType, FS_Subset
  <2>2. Cardinality(Present(m)) \in Nat /\ Cardinality(Present(n)) \in Nat
    BY <2>1, FS_CardinalityType
  <2>3. QED
    BY <1>2, <2>1, <2>2, FS_Subset
<1>4. Cardinality(Present(m)) \in Nat /\ Cardinality(Present(n)) \in Nat /\ Capacity \in Nat
  BY <1>3, PresentType, FS_CardinalityType, Limits
<1>5. Cardinality(Present(m)) <= Capacity
  BY DEF Sane
<1>6. \A h \in K : Level(n, h, t) = Level(m, h, t)
  BY DEF Thinned, Level
<1>7. Sane(K, n)
  BY <1>1, <1>3, <1>4, <1>5 DEF Sane, Thinned
<1>8. QED
  BY <1>2, <1>3, <1>4, <1>5, <1>6, <1>7

\* The time to live is long enough for a bucket to fill up.
LEMMA RetainedThins ==
  ASSUME NEW K, NEW t \in Nat, NEW m, Sane(K, m)
  PROVE  Thinned(K, m, Retained(m, t), t)
<1>1. m \in Maps(K) /\ DOMAIN m = K
  BY DEF Sane, Maps
<1>2. ASSUME NEW h \in K, m[h] # None, ~(Elapsed(t, m[h].seen) < Ttl)
      PROVE  CreditAt(m[h], t) = Most
  <2>1. m[h] \in Bucket /\ m[h].refilled = m[h].seen 
    BY <1>1, <1>2 DEF Sane, Maps
  <2>2. m[h].credit \in Nat /\ Elapsed(t, m[h].refilled) \in Nat
    BY <2>1 DEF Bucket, Elapsed
  <2>3. Elapsed(t, m[h].refilled) >= Most
    BY <1>2, <2>1, <2>2, Limits
  <2>4. QED
    BY <2>1, <2>2, <2>3, Credit, Limits
<1>3. Retained(m, t) \in Maps(K)
  BY <1>1 DEF Retained, Maps
<1>4. \A h \in K : Retained(m, t)[h] = IF m[h] # None /\ Elapsed(t, m[h].seen) < Ttl
                                          THEN m[h] ELSE None
  BY <1>1 DEF Retained
<1>5. QED
  BY <1>2, <1>3, <1>4 DEF Thinned

Refilled(c, t) == [credit |-> c, refilled |-> t, seen |-> t]

\* The host is let through.
Admits(m, k, t, r) ==
  /\ r.wait = 0 /\ Level(m, k, t) >= Interval
  /\ r.buckets[k] = Refilled(Level(m, k, t) - Interval, t)

\* Its bucket lacks a token, and the wait is the time that earns the rest of it.
Lacks(m, k, t, r) ==
  /\ m[k] # None /\ Level(m, k, t) < Interval /\ r.wait = Interval - Level(m, k, t)
  /\ r.buckets[k] = Refilled(Level(m, k, t), t)

\* It has no bucket and none of the others is full: the wait fills one of them.
Crowded(K, m, k, t, r) ==
  /\ r.wait \in Nat \ {0} /\ m[k] = None /\ r.buckets[k] = None
  /\ \A p \in K : m[p] # None => CreditAt(m[p], t) # Most
  /\ \E p \in K : r.buckets[p] # None /\ Most - CreditAt(r.buckets[p], t) <= r.wait

\* The others keep their buckets.
Alone(K, m, k, r) ==
  /\ Sane(K, r.buckets) /\ r.wait \in Nat
  /\ \A h \in K \ {k} : r.buckets[h] = m[h]

\* The others keep what they may spend.
Apart(K, m, k, t, r) ==
  /\ Sane(K, r.buckets) /\ r.wait \in Nat
  /\ \A h \in K \ {k} :
       \/ r.buckets[h] = m[h]
       \/ r.buckets[h] = None /\ m[h] # None /\ CreditAt(m[h], t) = Most

\* The host had its share: it is let through as soon as it has a bucket to spend from.
LEMMA CheckedOutcome ==
  ASSUME NEW K, NEW t \in Nat, NEW m, Sane(K, m), NEW k \in K, m[k] # None,
         NEW r, r = Checked(m, k, t)
  PROVE  /\ Alone(K, m, k, r)
         /\ Admits(m, k, t, r) \/ Lacks(m, k, t, r)
<1> DEFINE c == CreditAt(m[k], t)
           l == IF c < Interval THEN c ELSE c - Interval
           n == [m EXCEPT ![k] = Refilled(l, t)]
<1>1. m \in Maps(K) /\ c \in 0 .. Most /\ Level(m, k, t) = c
  BY CreditBounds DEF Sane, Maps, Level
<1>2. l \in 0 .. Most /\ Interval \in Nat \ {0} /\ Most \in Nat
  BY <1>1, Limits
<1>3. r.buckets = n /\ r.wait = IF c < Interval THEN Interval - c ELSE 0
  BY DEF Checked, Refilled
<1>4. Refilled(l, t) \in Bucket /\ Refilled(l, t) # None
  <2>1. Refilled(l, t) \in Bucket
    BY <1>2 DEF Refilled, Bucket, Most
  <2>2. QED
    BY <2>1, NoBucket
<1> HIDE DEF l
<1>5. n \in Maps(K) /\ n[k] = Refilled(l, t) /\ \A h \in K \ {k} : n[h] = m[h]
  BY <1>1, <1>4 DEF Maps
<1>6. Present(n) = Present(m)
  <2>1. Present(n) = {h \in K : n[h] # None} /\ Present(m) = {h \in K : m[h] # None}
    BY <1>1, <1>5, PresentKeys
  <2> HIDE DEF n
  <2>2. QED
    BY <1>4, <1>5, <2>1
<1>7. Sane(K, n)
  <2>1. n[k].refilled = n[k].seen
    BY <1>5 DEF Refilled
  <2> HIDE DEF n
  <2>2. QED
    BY <1>5, <1>6, <2>1 DEF Sane
<1>8. CASE c < Interval
  <2>1. l = c /\ r.wait = Interval - c
    BY <1>3, <1>8 DEF l
  <2> HIDE DEF n, c
  <2>2. Lacks(m, k, t, r)
    BY <1>1, <1>3, <1>5, <1>8, <2>1 DEF Lacks
  <2>3. r.wait \in Nat
    BY <1>1, <1>2, <1>8, <2>1
  <2>4. QED
    BY <1>3, <1>5, <1>7, <2>2, <2>3 DEF Alone
<1>9. CASE ~(c < Interval)
  <2>1. l = c - Interval /\ r.wait = 0
    BY <1>3, <1>9 DEF l
  <2>2. c >= Interval
    BY <1>1, <1>2, <1>9
  <2> HIDE DEF n, c
  <2>3. Admits(m, k, t, r)
    BY <1>1, <1>3, <1>5, <2>1, <2>2 DEF Admits
  <2>4. QED
    BY <1>3, <1>5, <1>7, <2>1, <2>3 DEF Alone
<1>10. QED
  BY <1>8, <1>9

\* A host that is given a bucket is let through.
LEMMA WithOutcome ==
  ASSUME NEW K, NEW t \in Nat, NEW n, Sane(K, n), NEW k \in K, n[k] = None,
         Cardinality(Present(n)) < Capacity,
         NEW r, r = Checked([n EXCEPT ![k] = Full(t)], k, t)
  PROVE  /\ Alone(K, n, k, r)
         /\ Admits(n, k, t, r)
<1> DEFINE f == [n EXCEPT ![k] = Full(t)]
<1>1. n \in Maps(K) /\ Most \in Nat /\ Interval <= Most /\ Interval \in Nat
  BY Limits DEF Sane
<1>2. Full(t) \in Bucket /\ Full(t) # None
  <2>1. Full(t) \in Bucket
    BY <1>1 DEF Full, Bucket, Most
  <2>2. QED
    BY <2>1, NoBucket
<1>3. r = Checked(f, k, t)
  OBVIOUS
<1>4. f \in Maps(K) /\ f[k] = Full(t) /\ \A h \in K \ {k} : f[h] = n[h]
  BY <1>1, <1>2 DEF Maps
<1> HIDE DEF f
<1>5. Present(f) = Present(n) \cup {k} /\ k \notin Present(n)
  BY <1>1, <1>2, <1>4, PresentKeys
<1>6. IsFiniteSet(Present(f)) /\ Cardinality(Present(f)) = Cardinality(Present(n)) + 1
  BY <1>5, PresentType, FS_AddElement
<1>7. Sane(K, f)
  <2>1. Cardinality(Present(f)) <= Capacity
    BY <1>6, PresentType, Limits
  <2>2. f[k].refilled = f[k].seen
    BY <1>4 DEF Full
  <2>3. QED
    BY <1>4, <1>6, <2>1, <2>2 DEF Sane
<1>8. Level(f, k, t) = Most
  <2>1. f[k].credit = Most /\ f[k].refilled = t
    BY <1>4 DEF Full, Most
  <2>2. f[k] \in Bucket
    BY <1>2, <1>4
  <2>3. CreditAt(f[k], t) \in 0 .. Most /\ CreditAt(f[k], t) >= f[k].credit
    BY <2>2, CreditBounds
  <2>4. CreditAt(f[k], t) = Most
    BY <1>1, <2>1, <2>3
  <2>5. QED
    BY <1>2, <1>4, <2>4 DEF Level
<1>9. Level(n, k, t) = Most
  BY DEF Level
<1>10. Alone(K, f, k, r) /\ (Admits(f, k, t, r) \/ Lacks(f, k, t, r))
  BY <1>2, <1>3, <1>4, <1>7, CheckedOutcome
<1>11. Admits(f, k, t, r)
  BY <1>1, <1>8, <1>10 DEF Lacks
<1>12. Admits(n, k, t, r)
  BY <1>8, <1>9, <1>11 DEF Admits
<1>13. QED
  BY <1>4, <1>10, <1>12 DEF Alone

\* What make_room removes is full, and gone after.
LEMMA EvictedThins ==
  ASSUME NEW K, NEW t \in Nat, NEW m, Sane(K, m), NEW old \in Evictable(m, t)
  PROVE  LET n == [m EXCEPT ![old] = None]
         IN  Thinned(K, m, n, t) /\ Cardinality(Present(n)) < Capacity
<1> DEFINE n == [m EXCEPT ![old] = None]
<1>1. old \in Present(m) /\ CreditAt(m[old], t) >= Burst * Interval
  BY DEF Evictable
<1>2. m \in Maps(K) /\ Present(m) = {h \in K : m[h] # None}
  BY PresentKeys DEF Sane
<1>3. old \in K /\ m[old] # None
  BY <1>1, <1>2
<1>4. CreditAt(m[old], t) = Most
  <2>1. CreditAt(m[old], t) \in 0 .. Most
    BY <1>2, <1>3, CreditBounds DEF Sane, Maps
  <2>2. QED
    BY <1>1, <2>1, Limits DEF Most
<1>5. n \in Maps(K) /\ n[old] = None /\ \A h \in K \ {old} : n[h] = m[h]
  BY <1>2, <1>3 DEF Maps
<1> HIDE DEF n
<1>6. Thinned(K, m, n, t)
  BY <1>3, <1>4, <1>5 DEF Thinned
<1>7. Present(n) # Present(m)
  BY <1>1, <1>2, <1>5, PresentKeys
<1>8. QED
  BY <1>6, <1>7, ThinnedLevels DEF n

\* As long as one bucket is full, one can be removed.
LEMMA FullIsEvictable ==
  ASSUME NEW K, NEW t \in Nat, NEW m, Sane(K, m), NEW p \in K, m[p] # None, CreditAt(m[p], t) = Most
  PROVE  Evictable(m, t) # {}
<1> DEFINE full == {k \in Present(m) : CreditAt(m[k], t) >= Burst * Interval}
           S == {m[k].seen : k \in full}
<1>1. m \in Maps(K) /\ full \in SUBSET Present(m)
  BY DEF Sane
<1>2. IsFiniteSet(full)
  BY <1>1, PresentType, FS_Subset
<1>3. p \in full
  BY <1>1, PresentKeys, Limits DEF Most
<1>4. \A k \in full : m[k].seen \in Nat
  BY <1>1, PresentKeys DEF Maps, Bucket
<1>5. S \in SUBSET Nat /\ S # {}
  BY <1>3, <1>4
<1>6. IsFiniteSet(S)
  <2> DEFINE f == [k \in full |-> m[k].seen]
  <2>1. f \in [full -> S] /\ \A s \in S : \E k \in full : f[k] = s
    OBVIOUS
  <2> HIDE DEF f, S, full
  <2>2. f \in Surjection(full, S)
    BY <2>1 DEF Surjection
  <2>3. QED
    BY <1>2, <2>2, FS_Surjection
<1>7. PICK s \in S : \A u \in S : s <= u
  BY <1>5, <1>6, Extremes
<1>8. PICK k \in full : m[k].seen = s
  BY <1>7
<1>9. \A l \in full : m[k].seen <= m[l].seen
  BY <1>7, <1>8
<1>10. k \in Evictable(m, t)
  BY <1>9 DEF Evictable
<1>11. QED
  BY <1>10

\* The wait for room fills one of the buckets there are.
LEMMA WaitFillsOne ==
  ASSUME NEW K, NEW t \in Nat, NEW m, Sane(K, m), ~HasRoom(m)
  PROVE  LET w == Max({1, UntilOneIsFull(m, t)})
         IN  /\ w \in Nat \ {0}
             /\ \E p \in K : m[p] # None /\ Most - CreditAt(m[p], t) <= w
<1> DEFINE S == {Burst * Interval - CreditAt(m[p], t) : p \in Present(m)}
<1>1. m \in Maps(K)
  BY DEF Sane
<1>2. \A p \in Present(m) : p \in K /\ m[p] # None /\ CreditAt(m[p], t) \in 0 .. Most
  BY <1>1, PresentKeys, CreditBounds DEF Sane, Maps
<1>3. S \in SUBSET Nat
  BY <1>2, Limits DEF Most
<1>4. IsFiniteSet(S)
  <2> DEFINE P == Present(m)
             f == [p \in P |-> Burst * Interval - CreditAt(m[p], t)]
  <2>1. IsFiniteSet(P)
    BY PresentType
  <2>2. f \in [P -> S] /\ \A s \in S : \E p \in P : f[p] = s
    OBVIOUS
  <2> HIDE DEF f, S, P
  <2>3. f \in Surjection(P, S)
    BY <2>2 DEF Surjection
  <2>4. QED
    BY <2>1, <2>3, FS_Surjection
<1>5. S # {}
  <2>1. Cardinality(Present(m)) # 0
    BY PresentType, Limits DEF HasRoom
  <2>2. Present(m) # {}
    BY <2>1, FS_EmptySet
  <2>3. QED
    BY <2>2
<1>6. UntilOneIsFull(m, t) \in S
  <2> HIDE DEF S
  <2>1. Min(S) \in S
    BY <1>3, <1>4, <1>5, MinMax
  <2>2. QED
    BY <2>1 DEF S, UntilOneIsFull
<1>7. PICK p \in Present(m) : UntilOneIsFull(m, t) = Burst * Interval - CreditAt(m[p], t)
  BY <1>6
<1> DEFINE u == UntilOneIsFull(m, t)
<1>8. u \in Nat
  BY <1>3, <1>6
<1>9. Max({1, u}) \in Nat /\ Max({1, u}) >= 1 /\ Max({1, u}) >= u
  BY <1>8, MaxOfTwo
<1>10. QED
  BY <1>2, <1>7, <1>9 DEF Most

\* A check lets the host through, or tells it what it lacks; the other hosts keep
\* what they may spend.
LEMMA Outcome ==
  ASSUME NEW K, NEW t \in Nat, NEW m, Sane(K, m), NEW k \in K, NEW r \in CheckAt(m, k, t)
  PROVE  /\ Apart(K, m, k, t, r)
         /\ Admits(m, k, t, r) \/ Lacks(m, k, t, r) \/ Crowded(K, m, k, t, r)
<1> DEFINE kept == Retained(m, t)
           With(n) == Checked([n EXCEPT ![k] = Full(t)], k, t)
<1>1. /\ Thinned(K, m, kept, t) /\ Sane(K, kept)
      /\ \A h \in K : Level(kept, h, t) = Level(m, h, t)
  BY RetainedThins, ThinnedLevels
<1> HIDE DEF kept
<1>2. CASE kept[k] # None
  <2>1. r = Checked(kept, k, t)
    BY <1>2 DEF CheckAt, kept
  <2>2. Alone(K, kept, k, r) /\ (Admits(kept, k, t, r) \/ Lacks(kept, k, t, r))
    BY <1>1, <1>2, <2>1, CheckedOutcome
  <2>3. kept[k] = m[k]
    BY <1>1, <1>2 DEF Thinned
  <2>4. Admits(m, k, t, r) \/ Lacks(m, k, t, r)
    BY <1>1, <2>2, <2>3 DEF Admits, Lacks
  <2>5. QED
    BY <1>1, <2>2, <2>4 DEF Thinned, Alone, Apart
<1>3. ASSUME NEW n, Thinned(K, m, n, t), n[k] = None, Cardinality(Present(n)) < Capacity, r = With(n)
      PROVE  Apart(K, m, k, t, r) /\ Admits(m, k, t, r)
  <2>1. Sane(K, n) /\ Level(n, k, t) = Level(m, k, t)
    BY <1>3, ThinnedLevels
  <2>2. Alone(K, n, k, r) /\ Admits(n, k, t, r)
    BY <1>3, <2>1, WithOutcome
  <2>3. Admits(m, k, t, r)
    BY <2>1, <2>2 DEF Admits
  <2>4. QED
    BY <1>3, <2>2, <2>3 DEF Thinned, Alone, Apart
<1>4. CASE kept[k] = None /\ HasRoom(kept)
  <2>1. r = With(kept)
    BY <1>4 DEF CheckAt, kept
  <2>2. QED
    BY <1>1, <1>3, <1>4, <2>1 DEF HasRoom
<1>5. CASE kept[k] = None /\ ~HasRoom(kept) /\ Evictable(kept, t) # {}
  <2>1. PICK old \in Evictable(kept, t) : r = With([kept EXCEPT ![old] = None])
    BY <1>5 DEF CheckAt, kept
  <2> DEFINE n == [kept EXCEPT ![old] = None]
  <2>2. Thinned(K, kept, n, t) /\ Cardinality(Present(n)) < Capacity
    BY <1>1, EvictedThins
  <2>3. r = With(n)
    BY <2>1
  <2> HIDE DEF n
  <2>4. Thinned(K, m, n, t)
    BY <1>1, <2>2 DEF Thinned
  <2>5. n[k] = None
    BY <1>5, <2>2 DEF Thinned
  <2>6. QED
    BY <1>3, <2>2, <2>3, <2>4, <2>5
<1>6. CASE kept[k] = None /\ ~HasRoom(kept) /\ Evictable(kept, t) = {}
  <2> DEFINE w == Max({1, UntilOneIsFull(kept, t)})
  <2>1. r = [buckets |-> kept, wait |-> w]
    BY <1>6 DEF CheckAt, kept
  <2>2. w \in Nat \ {0} /\ \E p \in K : kept[p] # None /\ Most - CreditAt(kept[p], t) <= w
    BY <1>1, <1>6, WaitFillsOne
  <2> HIDE DEF w
  <2>3. kept = m
    <3>1. Present(kept) = Present(m)
      <4>1. Cardinality(Present(kept)) \in Nat /\ Capacity \in Nat
        BY <1>1, PresentType, Limits
      <4>2. QED
        BY <1>1, <1>6, <4>1, ThinnedLevels DEF HasRoom
    <3>2. kept \in Maps(K) /\ m \in Maps(K)
      BY <1>1 DEF Sane
    <3>3. \A h \in K : kept[h] = m[h]
      BY <1>1, <3>1, <3>2, PresentKeys DEF Thinned
    <3>4. QED
      BY <3>2, <3>3 DEF Maps
  <2>4. Crowded(K, m, k, t, r)
    <3>1. \A p \in K : m[p] # None => CreditAt(m[p], t) # Most
      BY <1>6, <2>3, FullIsEvictable
    <3>2. QED
      BY <1>6, <2>1, <2>2, <2>3, <3>1 DEF Crowded
  <2>5. QED
    BY <1>1, <2>1, <2>2, <2>4 DEF Thinned, Apart
<1>7. QED
  BY <1>2, <1>4, <1>5, <1>6

-----------------------------------------------------------------------------
(* Types and capacity.                                                     *)

\* Both times of a bucket are those of the last check, and no later than now.
Invariant ==
  /\ TypeOK /\ Sane(Host, buckets)
  /\ \A h \in Host : buckets[h] # None => buckets[h].refilled <= now

LEMMA AllowTypes ==
  ASSUME Invariant, NEW h \in Host, Allow(h)
  PROVE  Invariant' /\ now' = now
<1>1. PICK r \in CheckAt(buckets, h, now) :
        /\ buckets' = r.buckets
        /\ admitted' = IF r.wait = 0 THEN [admitted EXCEPT ![h] = Append(@, now)] ELSE admitted
        /\ promise' = [x \in Host |->
             IF x = h THEN IF r.wait = 0 THEN None ELSE now + RetryAfter(r.wait)
             ELSE IF r.buckets[x] = None THEN None ELSE promise[x]]
        /\ now' = now
  BY DEF Allow
<1>2. now \in 0 .. MaxNow /\ now \in Nat
  BY DEF Invariant, TypeOK
<1>3. /\ Apart(Host, buckets, h, now, r)
      /\ \/ Admits(buckets, h, now, r)
         \/ Lacks(buckets, h, now, r)
         \/ Crowded(Host, buckets, h, now, r)
  BY <1>2, Outcome DEF Invariant
<1>4. buckets' \in [Host -> Bucket \cup {None}] /\ Cardinality(Present(buckets')) <= Capacity
  BY <1>1, <1>3 DEF Sane, Maps, Apart
<1>5. admitted' \in [Host -> Seq(0 .. now)]
  <2>1. admitted \in [Host -> Seq(0 .. now)]
    BY DEF Invariant, TypeOK
  <2>2. Append(admitted[h], now) \in Seq(0 .. now)
    BY <1>2, <2>1
  <2>3. QED
    BY <1>1, <2>1, <2>2
<1>6. promise' \in [Host -> Nat \cup {None}]
  <2>1. now + RetryAfter(r.wait) \in Nat
    BY <1>2, <1>3, RoundedUp DEF Apart
  <2>2. QED
    BY <1>1, <2>1 DEF Invariant, TypeOK
<1>7. TypeOK'
  BY <1>1, <1>2, <1>4, <1>5, <1>6 DEF TypeOK
<1>8. \A x \in Host : buckets'[x] # None => buckets'[x].refilled <= now
  <2>1. \A x \in Host \ {h} : buckets'[x] # None => buckets'[x].refilled <= now
    BY <1>1, <1>3 DEF Invariant, Apart
  <2>2. \A c : Refilled(c, now).refilled <= now
    BY <1>2 DEF Refilled
  <2>3. buckets'[h] # None => buckets'[h].refilled <= now
    BY <1>1, <1>3, <2>2 DEF Admits, Lacks, Crowded
  <2>4. QED
    BY <2>1, <2>3
<1>9. QED
  BY <1>1, <1>3, <1>7, <1>8 DEF Invariant, Apart

LEMMA InvariantHolds == Spec => []Invariant
<1>1. Init => Invariant
  <2> SUFFICES ASSUME Init PROVE Invariant
    OBVIOUS
  <2>1. buckets \in Maps(Host) /\ Present(buckets) = {}
    BY DEF Init, Maps, Present
  <2>2. IsFiniteSet(Present(buckets)) /\ Cardinality(Present(buckets)) <= Capacity
    BY <2>1, FS_EmptySet, Limits
  <2>3. now \in 0 .. MaxNow
    BY ReportBucketsAssumption DEF Init
  <2>4. admitted \in [Host -> Seq(0 .. now)] /\ promise \in [Host -> Nat \cup {None}]
    BY DEF Init
  <2>5. QED
    BY <2>1, <2>2, <2>3, <2>4 DEF Invariant, TypeOK, Sane, Maps, Init
<1>2. Invariant /\ [Next]_vars => Invariant'
  <2> SUFFICES ASSUME Invariant, [Next]_vars PROVE Invariant'
    OBVIOUS
  <2>1. CASE Tick
    <3>1. now \in Nat /\ now' = now + 1 /\ now' \in 0 .. MaxNow
      BY <2>1, ReportBucketsAssumption DEF Tick, Invariant, TypeOK
    <3>2. Seq(0 .. now) \subseteq Seq(0 .. now')
      <4>1. 0 .. now \subseteq 0 .. now'
        BY <3>1
      <4>2. QED
        BY <4>1, SeqMonotonic
    <3>3. TypeOK'
      BY <2>1, <3>1, <3>2 DEF Tick, Invariant, TypeOK
    <3>4. \A h \in Host : buckets[h] # None => buckets[h].refilled \in Nat
      BY DEF Invariant, Sane, Maps, Bucket
    <3>5. \A h \in Host : buckets[h] # None => buckets[h].refilled <= now + 1
      BY <3>1, <3>4 DEF Invariant
    <3>6. QED
      BY <2>1, <3>1, <3>3, <3>5 DEF Tick, Invariant
  <2>2. CASE \E h \in Host : Allow(h)
    BY <2>2, AllowTypes
  <2>3. CASE UNCHANGED vars
    BY <2>3 DEF Invariant, TypeOK, vars
  <2>4. QED
    BY <2>1, <2>2, <2>3 DEF Next
<1>3. QED
  BY <1>1, <1>2, PTL DEF Spec

\* The map never holds more buckets than its capacity: ReportBuckets::make_room.
THEOREM TypeCorrect == Spec => []TypeOK
<1>1. Invariant => TypeOK
  BY DEF Invariant
<1>2. QED
  BY <1>1, InvariantHolds, PTL

-----------------------------------------------------------------------------
(* What a host gets through.                                               *)

\* How a call changes what its host may spend, and leaves that of the others.
LEMMA AllowLevels ==
  ASSUME Invariant, NEW h \in Host, Allow(h)
  PROVE  /\ now' = now
         /\ \A x \in Host \ {h} : /\ Level(buckets', x, now) = Level(buckets, x, now)
                                  /\ admitted'[x] = admitted[x]
         /\ \/ /\ admitted'[h] = admitted[h]
               /\ Level(buckets', h, now) = Level(buckets, h, now)
            \/ /\ admitted'[h] = Append(admitted[h], now)
               /\ Level(buckets, h, now) >= Interval
               /\ Level(buckets', h, now) = Level(buckets, h, now) - Interval
<1>1. PICK r \in CheckAt(buckets, h, now) :
        /\ buckets' = r.buckets
        /\ admitted' = IF r.wait = 0 THEN [admitted EXCEPT ![h] = Append(@, now)] ELSE admitted
        /\ now' = now
  BY DEF Allow
<1>2. now \in Nat /\ admitted \in [Host -> Seq(0 .. now)] /\ Sane(Host, buckets)
  BY DEF Invariant, TypeOK
<1>3. /\ Apart(Host, buckets, h, now, r)
      /\ \/ Admits(buckets, h, now, r)
         \/ Lacks(buckets, h, now, r)
         \/ Crowded(Host, buckets, h, now, r)
  BY <1>2, Outcome
<1>4. \A x \in Host \ {h} : /\ Level(buckets', x, now) = Level(buckets, x, now)
                            /\ admitted'[x] = admitted[x]
  BY <1>1, <1>2, <1>3 DEF Level, Apart
<1>5. Level(buckets, h, now) \in 0 .. Most /\ Most \in Nat /\ Interval \in Nat \ {0}
  BY <1>2, LevelType, Limits DEF Invariant
<1>6. ASSUME NEW c \in 0 .. Most, r.buckets[h] = Refilled(c, now)
      PROVE  Level(buckets', h, now) = c
  <2>1. Refilled(c, now) \in Bucket
    BY <1>2, <1>6 DEF Refilled, Bucket, Most
  <2>2. Refilled(c, now).credit = c /\ Refilled(c, now).refilled = now
    BY DEF Refilled
  <2>3. CreditAt(Refilled(c, now), now) = c
    BY <1>2, <1>5, <2>1, <2>2, AtOnce
  <2>4. QED
    BY <1>1, <1>6, <2>1, <2>3, NoBucket DEF Level
<1>7. CASE Admits(buckets, h, now, r)
  <2>1. Level(buckets, h, now) - Interval \in 0 .. Most
    BY <1>5, <1>7 DEF Admits
  <2>2. Level(buckets', h, now) = Level(buckets, h, now) - Interval
    BY <1>6, <1>7, <2>1 DEF Admits
  <2>3. admitted'[h] = Append(admitted[h], now)
    BY <1>1, <1>2, <1>7 DEF Admits
  <2>4. QED
    BY <1>1, <1>4, <1>7, <2>2, <2>3 DEF Admits
<1>8. CASE Lacks(buckets, h, now, r)
  <2>1. Level(buckets', h, now) = Level(buckets, h, now)
    BY <1>5, <1>6, <1>8 DEF Lacks
  <2>2. r.wait # 0
    BY <1>5, <1>8 DEF Lacks
  <2>3. QED
    BY <1>1, <1>4, <2>1, <2>2
<1>9. CASE Crowded(Host, buckets, h, now, r)
  <2>1. Level(buckets', h, now) = Level(buckets, h, now)
    BY <1>1, <1>9 DEF Crowded, Level
  <2>2. r.wait # 0
    BY <1>9 DEF Crowded
  <2>3. QED
    BY <1>1, <1>4, <2>1, <2>2
<1>10. QED
  BY <1>3, <1>7, <1>8, <1>9

Cost(n) == n * Interval

LEMMA CostGrows ==
  ASSUME NEW n \in Nat
  PROVE  Cost(n) \in Nat /\ Cost(n + 1) = Cost(n) + Interval /\ Cost(1) = Interval
BY Limits DEF Cost

\* What a host got through since some report, and what it may still spend, is no more
\* than a burst and what the time since then has earned.
Budget(h) ==
  \A i \in DOMAIN admitted[h] :
    Cost(Len(admitted[h]) - i + 1) + Level(buckets, h, now) <= Most + (now - admitted[h][i])

Rate(h) ==
  \A i, j \in DOMAIN admitted[h] :
    i <= j => Cost(j - i + 1) <= Most + admitted[h][j] - admitted[h][i]

LEMMA BudgetOfAppend ==
  ASSUME Invariant, NEW h \in Host, Budget(h), Rate(h), now' = now,
         admitted'[h] = Append(admitted[h], now), Level(buckets, h, now) >= Interval,
         Level(buckets', h, now) = Level(buckets, h, now) - Interval
  PROVE  Budget(h)' /\ Rate(h)'
<1> DEFINE s == admitted[h]
           l == Level(buckets, h, now)
           n == Len(s)
<1>1. now \in Nat /\ s \in Seq(0 .. now)
  BY DEF Invariant, TypeOK
<1>2. /\ n \in Nat /\ DOMAIN s = 1 .. n /\ \A i \in 1 .. n : s[i] \in 0 .. now
      /\ DOMAIN (admitted'[h]) = 1 .. n + 1 /\ Len(admitted'[h]) = n + 1
      /\ admitted'[h][n + 1] = now /\ \A i \in 1 .. n : admitted'[h][i] = s[i]
  BY <1>1
<1>3. /\ l \in 0 .. Most /\ Most \in Nat /\ Interval \in Nat \ {0}
      /\ l >= Interval /\ Level(buckets', h, now) = l - Interval
  BY <1>1, LevelType, Limits DEF Invariant
<1>4. \A i \in 1 .. n : Cost(n - i + 1) + l <= Most + (now - s[i])
  BY <1>2 DEF Budget
<1>5. \A i \in 1 .. n : /\ n - i + 1 \in Nat
                        /\ Cost(n - i + 1) \in Nat
                        /\ Cost(n + 1 - i + 1) = Cost(n - i + 1) + Interval
  <2>1. \A i \in 1 .. n : n - i + 1 \in Nat /\ n + 1 - i + 1 = (n - i + 1) + 1
    BY <1>2
  <2>2. QED
    BY <2>1, CostGrows
<1>6. Cost(1) = Interval
  BY CostGrows
<1> HIDE DEF s, l, n
<1>7. Budget(h)'
  <2>1. SUFFICES ASSUME NEW i \in 1 .. n + 1
        PROVE  Cost(n + 1 - i + 1) + (l - Interval) <= Most + (now - admitted'[h][i])
    <3> DEFINE s2 == admitted'[h]
               l2 == Level(buckets', h, now)
    <3>1. SUFFICES \A i \in DOMAIN s2 : Cost(Len(s2) - i + 1) + l2 <= Most + (now - s2[i])
      BY DEF Budget
    <3>2. n \in Nat /\ DOMAIN s2 = 1 .. n + 1 /\ Len(s2) = n + 1 /\ l2 = l - Interval
      BY <1>2, <1>3
    <3>3. \A i \in 1 .. n + 1 : Cost(n + 1 - i + 1) + (l - Interval) <= Most + (now - s2[i])
      OBVIOUS
    <3> HIDE DEF s2, l2
    <3>4. QED
      BY <3>2, <3>3
  <2>2. CASE i = n + 1
    <3>1. n + 1 - i + 1 = 1
      BY <1>2, <2>2
    <3>2. QED
      BY <1>1, <1>2, <1>3, <1>6, <2>2, <3>1
  <2>3. CASE i \in 1 .. n
    <3> DEFINE c == Cost(n - i + 1)
    <3>1. c + l <= Most + (now - s[i]) /\ c \in Nat /\ Cost(n + 1 - i + 1) = c + Interval
      BY <1>4, <1>5, <2>3
    <3>2. s[i] \in Int /\ admitted'[h][i] = s[i]
      BY <1>2, <2>3
    <3> HIDE DEF c
    <3>3. (c + Interval) + (l - Interval) <= Most + (now - s[i])
      BY <1>1, <1>3, <3>1, <3>2
    <3>4. QED
      BY <3>1, <3>2, <3>3
  <2>4. QED
    BY <1>2, <2>2, <2>3
<1>8. Rate(h)'
  <2>1. SUFFICES ASSUME NEW i \in 1 .. n + 1, NEW j \in 1 .. n + 1, i <= j
        PROVE  Cost(j - i + 1) <= Most + admitted'[h][j] - admitted'[h][i]
    BY <1>2 DEF Rate
  <2>2. CASE j \in 1 .. n
    <3>1. i \in 1 .. n
      BY <1>2, <2>1, <2>2
    <3>2. Cost(j - i + 1) <= Most + s[j] - s[i]
      BY <1>2, <2>1, <2>2, <3>1 DEF Rate, s
    <3>3. QED
      BY <1>2, <2>2, <3>1, <3>2
  <2>3. CASE j = n + 1 /\ i \in 1 .. n
    <3> DEFINE c == Cost(n - i + 1)
    <3>1. c + l <= Most + (now - s[i]) /\ c \in Nat /\ Cost(n + 1 - i + 1) = c + Interval
      BY <1>4, <1>5, <2>3
    <3>2. s[i] \in Int /\ admitted'[h][i] = s[i] /\ admitted'[h][j] = now
      BY <1>2, <2>3
    <3> DEFINE e == s[i]
    <3>3. c \in Nat /\ e \in Int /\ c + l <= Most + (now - e)
      BY <3>1, <3>2
    <3> HIDE DEF c, e
    <3>4. c + Interval <= Most + now - e
      BY <1>1, <1>3, <3>3
    <3>5. Cost(j - i + 1) = c + Interval
      <4>1. j = n + 1 /\ n \in Nat /\ i \in Nat
        BY <1>2, <2>3
      <4>2. j - i + 1 = n + 1 - i + 1
        BY <4>1
      <4>3. QED
        BY <3>1, <4>2
    <3>6. Most + admitted'[h][j] - admitted'[h][i] = Most + now - e
      BY <3>2 DEF e
    <3>7. QED
      BY <3>4, <3>5, <3>6
  <2>4. CASE j = n + 1 /\ i = n + 1
    <3>1. j - i + 1 = 1
      BY <1>2, <2>4
    <3>2. QED
      BY <1>1, <1>2, <1>3, <1>6, <2>4, <3>1, Limits
  <2>5. QED
    BY <1>2, <2>2, <2>3, <2>4
<1>9. QED
  BY <1>7, <1>8

\* No host gets more reports through than its burst and rate, in no stretch of time:
\* ReportBuckets::allow_at, with its expiry and make_room.
THEOREM RateKept == Spec => []RateBounded
<1> DEFINE Inv == \A h \in Host : Budget(h) /\ Rate(h)
<1>1. Init => Inv
  <2>1. Init => \A h \in Host : DOMAIN admitted[h] = {}
    BY DEF Init
  <2>2. QED
    BY <2>1 DEF Budget, Rate
<1>2. Inv /\ Invariant /\ Invariant' /\ [Next]_vars => Inv'
  <2> SUFFICES ASSUME Inv, Invariant, Invariant', [Next]_vars, NEW h \in Host
               PROVE  Budget(h)' /\ Rate(h)'
    OBVIOUS
  <2>1. Budget(h) /\ Rate(h)
    OBVIOUS
  <2>2. CASE Tick
    <3>1. now \in Nat /\ now' = now + 1 /\ buckets' = buckets /\ admitted' = admitted
      BY <2>2 DEF Tick, Invariant, TypeOK
    <3>2. /\ Level(buckets, h, now) \in Int /\ Level(buckets, h, now + 1) \in Int
          /\ Level(buckets, h, now + 1) <= Level(buckets, h, now) + 1 /\ Most \in Nat
      BY <3>1, LevelType, Limits DEF Invariant
    <3>3. /\ Len(admitted[h]) \in Nat /\ DOMAIN admitted[h] = 1 .. Len(admitted[h])
          /\ admitted[h] \in [1 .. Len(admitted[h]) -> 0 .. now]
      <4>1. admitted[h] \in Seq(0 .. now)
        BY DEF Invariant, TypeOK
      <4>2. QED
        BY <4>1, LenProperties
    <3>4. \A i \in DOMAIN admitted[h] : admitted[h][i] \in 0 .. now
                                        /\ Cost(Len(admitted[h]) - i + 1) \in Nat
      <4>1. \A i \in DOMAIN admitted[h] : admitted[h][i] \in 0 .. now
                                          /\ Len(admitted[h]) - i + 1 \in Nat
        BY <3>3
      <4>2. QED
        BY <4>1, CostGrows
    <3>5. Budget(h)'
      <4> DEFINE c(i) == Cost(Len(admitted[h]) - i + 1)
                 l == Level(buckets, h, now)
                 l2 == Level(buckets, h, now + 1)
      <4>1. \A i \in DOMAIN admitted[h] : c(i) + l <= Most + (now - admitted[h][i])
        BY <2>1 DEF Budget
      <4>2. \A i \in DOMAIN admitted[h] : c(i) \in Nat /\ admitted[h][i] \in Int
        BY <3>4
      <4>3. l \in Int /\ l2 \in Int /\ l2 <= l + 1
        BY <3>2
      <4> HIDE DEF c, l, l2
      <4>4. \A i \in DOMAIN admitted[h] : c(i) + l2 <= Most + ((now + 1) - admitted[h][i])
        BY <3>1, <3>2, <4>1, <4>2, <4>3
      <4>5. QED
        BY <3>1, <4>4 DEF Budget, c, l2
    <3>6. QED
      BY <2>1, <3>1, <3>5 DEF Rate
  <2>3. CASE \E x \in Host : Allow(x)
    <3>1. PICK x \in Host : Allow(x)
      BY <2>3
    <3>2. now' = now
      BY <3>1, AllowTypes
    <3>3. \/ /\ admitted'[h] = admitted[h]
             /\ Level(buckets', h, now) = Level(buckets, h, now)
          \/ /\ admitted'[h] = Append(admitted[h], now)
             /\ Level(buckets, h, now) >= Interval
             /\ Level(buckets', h, now) = Level(buckets, h, now) - Interval
      BY <3>1, AllowLevels
    <3>4. CASE admitted'[h] = admitted[h] /\ Level(buckets', h, now) = Level(buckets, h, now)
      BY <2>1, <3>2, <3>4 DEF Budget, Rate
    <3>5. QED
      BY <2>1, <3>2, <3>3, <3>4, BudgetOfAppend
  <2>4. CASE UNCHANGED vars
    BY <2>1, <2>4 DEF Budget, Rate, vars
  <2>5. QED
    BY <2>2, <2>3, <2>4 DEF Next
<1>3. Inv => RateBounded
  BY DEF Rate, RateBounded, Cost, Most
<1>4. QED
  BY <1>1, <1>2, <1>3, InvariantHolds, PTL DEF Spec

-----------------------------------------------------------------------------
(* Retry-After.                                                            *)

\* By the time it was promised, the bucket of the host, or one of the others if it was
\* refused for want of room, has earned enough.
Promised(h) ==
  promise[h] # None =>
    \/ /\ buckets[h] # None
       /\ buckets[h].credit + promise[h] >= buckets[h].refilled + Interval
    \/ /\ buckets[h] = None
       /\ \E p \in Host : /\ buckets[p] # None
                          /\ buckets[p].credit + promise[h] >= buckets[p].refilled + Most

\* A bucket has the credit c once it had the time to earn the rest.
LEMMA Earned ==
  ASSUME NEW b \in Bucket, NEW t \in Nat, NEW p \in Nat, p <= t,
         NEW c \in 0 .. Most, b.credit + p >= b.refilled + c
  PROVE  CreditAt(b, t) >= c
<1>1. b.credit \in Nat /\ b.refilled \in Nat /\ Most \in Nat
  BY Limits DEF Bucket
<1>2. Elapsed(t, b.refilled) \in Nat /\ b.refilled + Elapsed(t, b.refilled) >= t
  BY <1>1 DEF Elapsed
<1>3. QED
  BY <1>1, <1>2, Credit

LEMMA PromisedSuffices ==
  ASSUME Invariant, \A h \in Host : Promised(h)
  PROVE  RetryAfterSuffices
<1>1. SUFFICES ASSUME NEW h \in Host, promise[h] # None, promise[h] <= now,
                      NEW r \in CheckAt(buckets, h, now)
               PROVE  r.wait = 0
  BY DEF RetryAfterSuffices
<1>2. /\ now \in Nat /\ promise[h] \in Nat
      /\ Interval \in 0 .. Most /\ Most \in 0 .. Most /\ Most \in Nat
  BY <1>1, Limits DEF Invariant, TypeOK
<1>3. \/ Admits(buckets, h, now, r)
      \/ Lacks(buckets, h, now, r)
      \/ Crowded(Host, buckets, h, now, r)
  BY <1>2, Outcome DEF Invariant
<1>4. \A p \in Host : buckets[p] # None => /\ buckets[p] \in Bucket
                                           /\ CreditAt(buckets[p], now) \in 0 .. Most
  <2>1. \A p \in Host : buckets[p] # None => buckets[p] \in Bucket
    BY DEF Invariant, Sane, Maps
  <2>2. QED
    BY <1>2, <2>1, CreditBounds
<1>5. CASE buckets[h] # None
  <2>1. CreditAt(buckets[h], now) >= Interval
    BY <1>1, <1>2, <1>4, <1>5, Earned DEF Promised
  <2>2. ~Lacks(buckets, h, now, r)
    BY <1>2, <1>4, <1>5, <2>1 DEF Lacks, Level
  <2>3. ~Crowded(Host, buckets, h, now, r)
    BY <1>5 DEF Crowded
  <2>4. QED
    BY <1>3, <2>2, <2>3 DEF Admits
<1>6. CASE buckets[h] = None
  <2>1. PICK p \in Host : /\ buckets[p] # None
                          /\ buckets[p].credit + promise[h] >= buckets[p].refilled + Most
    BY <1>1, <1>6 DEF Promised
  <2>2. CreditAt(buckets[p], now) >= Most
    BY <1>1, <1>2, <1>4, <2>1, Earned
  <2>3. CreditAt(buckets[p], now) = Most
    BY <1>2, <1>4, <2>1, <2>2
  <2>4. ~Crowded(Host, buckets, h, now, r)
    BY <2>1, <2>3 DEF Crowded
  <2>5. QED
    BY <1>3, <1>6, <2>4 DEF Admits, Lacks
<1>7. QED
  BY <1>5, <1>6

\* What a refused host is told covers what its bucket, or the fullest of the others, lacks.
LEMMA AllowPromises ==
  ASSUME Invariant, NEW h \in Host, Allow(h), NEW x \in Host, Promised(x)
  PROVE  Promised(x)'
<1>1. PICK r \in CheckAt(buckets, h, now) :
        /\ buckets' = r.buckets
        /\ promise' = [y \in Host |->
             IF y = h THEN IF r.wait = 0 THEN None ELSE now + RetryAfter(r.wait)
             ELSE IF r.buckets[y] = None THEN None ELSE promise[y]]
  BY DEF Allow
<1>2. now \in Nat
  BY DEF Invariant, TypeOK
<1>3. /\ Apart(Host, buckets, h, now, r)
      /\ \/ Admits(buckets, h, now, r)
         \/ Lacks(buckets, h, now, r)
         \/ Crowded(Host, buckets, h, now, r)
  BY <1>2, Outcome DEF Invariant
<1>4. CASE x # h
  <2>1. CASE r.buckets[x] = None
    BY <1>1, <1>4, <2>1 DEF Promised
  <2>2. CASE r.buckets[x] # None
    <3>1. promise'[x] = promise[x] /\ buckets'[x] = buckets[x]
      BY <1>1, <1>3, <1>4, <2>2 DEF Apart
    <3>2. QED
      BY <1>1, <2>2, <3>1 DEF Promised
  <2>3. QED
    BY <2>1, <2>2
<1>5. CASE x = h /\ Admits(buckets, h, now, r)
  BY <1>1, <1>5 DEF Admits, Promised
<1>6. RetryAfter(r.wait) \in Nat /\ RetryAfter(r.wait) >= r.wait
  BY <1>3, RoundedUp DEF Apart
<1>7. Level(buckets, h, now) \in 0 .. Most /\ Most \in Nat /\ Interval \in Nat \ {0}
  BY <1>2, LevelType, Limits DEF Invariant
<1>8. CASE x = h /\ Lacks(buckets, h, now, r)
  <2> DEFINE c == Level(buckets, h, now)
  <2>1. r.wait = Interval - c /\ c < Interval /\ buckets'[h] = Refilled(c, now)
    BY <1>1, <1>8 DEF Lacks
  <2>2. promise'[h] = now + RetryAfter(r.wait)
    BY <1>1, <1>7, <2>1
  <2>3. Refilled(c, now) # None
    <3>1. Refilled(c, now) \in Bucket
      BY <1>2, <1>7 DEF Refilled, Bucket, Most
    <3>2. QED
      BY <3>1, NoBucket
  <2>4. Refilled(c, now).credit = c /\ Refilled(c, now).refilled = now
    BY DEF Refilled
  <2> HIDE DEF c
  <2>5. c + (now + RetryAfter(r.wait)) >= now + Interval
    BY <1>2, <1>6, <1>7, <2>1 DEF c
  <2>6. QED
    BY <1>8, <2>1, <2>2, <2>3, <2>4, <2>5 DEF Promised
<1>9. CASE x = h /\ Crowded(Host, buckets, h, now, r)
  <2>1. PICK p \in Host : r.buckets[p] # None /\ Most - CreditAt(r.buckets[p], now) <= r.wait
    BY <1>9 DEF Crowded
  <2> DEFINE b == r.buckets[p]
  <2>2. b \in Bucket /\ b.refilled <= now
    BY <1>1, <1>3, <2>1, AllowTypes DEF Sane, Maps, Invariant
  <2>3. b.credit \in Nat /\ b.refilled \in Nat
    BY <2>2 DEF Bucket
  <2>4. CreditAt(b, now) \in 0 .. Most /\ CreditAt(b, now) <= b.credit + (now - b.refilled)
    <3>1. Elapsed(now, b.refilled) = now - b.refilled
      BY <1>2, <2>2, <2>3 DEF Elapsed
    <3> HIDE DEF b
    <3>2. QED
      BY <1>2, <2>2, <3>1, CreditBounds
  <2>5. promise'[h] = now + RetryAfter(r.wait) /\ buckets'[h] = None
    BY <1>1, <1>9 DEF Crowded
  <2>6. b.credit + (now + RetryAfter(r.wait)) >= b.refilled + Most
    <3> DEFINE c == CreditAt(b, now)
    <3>1. Most - c <= r.wait
      BY <2>1
    <3> HIDE DEF b, c
    <3>2. QED
      BY <1>2, <1>3, <1>6, <1>7, <2>3, <2>4, <3>1 DEF c, Apart
  <2>7. buckets'[p] # None /\ buckets'[p].credit + promise'[h] >= buckets'[p].refilled + Most
    BY <1>1, <2>1, <2>5, <2>6
  <2>8. QED
    BY <1>9, <2>5, <2>7 DEF Promised
<1>10. QED
  BY <1>3, <1>4, <1>5, <1>8, <1>9

\* A host that waits as long as Retry-After says is let through: allow_at and the seconds
\* report rounds its answer up to.
THEOREM RetryAfterHonest == Spec => []RetryAfterSuffices
<1> DEFINE Inv == \A h \in Host : Promised(h)
<1>1. Init => Inv
  BY DEF Init, Promised
<1>2. Inv /\ Invariant /\ [Next]_vars => Inv'
  <2> SUFFICES ASSUME Inv, Invariant, [Next]_vars, NEW h \in Host
               PROVE  Promised(h)'
    OBVIOUS
  <2>1. CASE Tick \/ UNCHANGED vars
    BY <2>1 DEF Tick, vars, Promised
  <2>2. CASE \E x \in Host : Allow(x)
    BY <2>2, AllowPromises
  <2>3. QED
    BY <2>1, <2>2 DEF Next
<1>3. Inv /\ Invariant => RetryAfterSuffices
  BY PromisedSuffices
<1>4. QED
  BY <1>1, <1>2, <1>3, InvariantHolds, PTL DEF Spec

-----------------------------------------------------------------------------
(* Pairing calls: types and capacity.                                      *)

\* Only calls that have read the clock are answered, and a source that has a bucket
\* has its credit up to the time of its bucket.
AdmissionInvariant ==
  /\ AdmissionTypeOK /\ Sane(Source, sources) /\ Sane(Id, ids)
  /\ IsFiniteSet({c \in Call : result[c] # None})
  /\ \A c \in Call : result[c] # None => at[c] # None
  /\ \A s \in Source : sources[s] # None => judged[s] = sources[s].refilled

\* The source gets a token, or does not.
SourceChecked(s, t, r) ==
  \/ Admits(sources, s, t, r)
  \/ Lacks(sources, s, t, r)
  \/ Crowded(Source, sources, s, t, r)

\* What the result of a call says of the check of its source.
LEMMA CheckOfSource ==
  ASSUME AdmissionInvariant, NEW c \in Call, Check(c)
  PROVE  /\ at[c] \in Nat /\ at[c] \in 0 .. clock /\ result[c] = None
         /\ From[c] \in Source
         /\ Sane(Id, ids')
         /\ \E r : /\ sources' = r.buckets
                   /\ Apart(Source, sources, From[c], at[c], r)
                   /\ SourceChecked(From[c], at[c], r)
                   /\ \E x \in {"source", "id", "admitted"} :
                        /\ result' = [result EXCEPT ![c] = x]
                        /\ r.wait > 0 <=> x = "source"
<1> DEFINE t == at[c]
           k == From[c]
<1>1. /\ t \in 0 .. clock /\ t \in Nat /\ result[c] = None
      /\ Sane(Source, sources) /\ Sane(Id, ids)
  BY DEF Check, AdmissionInvariant, AdmissionTypeOK
<1>2. k \in Source /\ Names[c] \in Id
  BY AdmissionAssumption
<1>3. PICK first \in CheckAt(sources, k, t) :
        /\ sources' = first.buckets
        /\ IF first.wait > 0
           THEN result' = [result EXCEPT ![c] = "source"] /\ UNCHANGED ids
           ELSE \E second \in CheckAt(ids, Names[c], t) :
                  /\ ids' = second.buckets
                  /\ result' = [result EXCEPT ![c] = IF second.wait > 0 THEN "id" ELSE "admitted"]
  BY DEF Check
<1> HIDE DEF t, k
<1>4. Apart(Source, sources, k, t, first) /\ SourceChecked(k, t, first)
  BY <1>1, <1>2, Outcome DEF SourceChecked
<1>5. \A second \in CheckAt(ids, Names[c], t) : Sane(Id, second.buckets)
  <2>1. \A second \in CheckAt(ids, Names[c], t) : Apart(Id, ids, Names[c], t, second)
    BY <1>1, <1>2, Outcome
  <2>2. QED
    BY <2>1 DEF Apart
<1>6. Sane(Id, ids')
  BY <1>1, <1>3, <1>5
<1>7. \E x \in {"source", "id", "admitted"} :
        result' = [result EXCEPT ![c] = x] /\ (first.wait > 0 <=> x = "source")
  <2>1. CASE first.wait > 0
    BY <1>3, <2>1
  <2>2. CASE ~(first.wait > 0)
    <3>1. PICK second \in CheckAt(ids, Names[c], t) :
            result' = [result EXCEPT ![c] = IF second.wait > 0 THEN "id" ELSE "admitted"]
      BY <1>3, <2>2
    <3>2. CASE second.wait > 0
      BY <2>2, <3>1, <3>2
    <3>3. CASE ~(second.wait > 0)
      BY <2>2, <3>1, <3>3
    <3>4. QED
      BY <3>2, <3>3
  <2>3. QED
    BY <2>1, <2>2
<1>8. QED
  BY <1>1, <1>2, <1>3, <1>4, <1>6, <1>7 DEF t, k

\* A check moves the time of a source on or back, and back counts by how much it goes back.
LEMMA CheckJudges ==
  ASSUME AdmissionInvariant, NEW c \in Call, Check(c), NEW s \in Source, Sane(Source, sources')
  PROVE  /\ judged'[s] \in Nat /\ back'[s] \in Nat
         /\ judged'[s] = IF sources'[s] # None THEN sources'[s].refilled
                         ELSE IF sources[s] # None THEN judged[s] + Elapsed(at[c], judged[s])
                         ELSE judged[s]
         /\ back'[s] = back[s] + Elapsed(judged[s], judged'[s])
<1>1. /\ judged[s] \in Nat /\ back[s] \in Nat /\ at[c] \in Nat
      /\ judged' = [x \in Source |-> IF sources'[x] # None THEN sources'[x].refilled
                                     ELSE IF sources[x] # None THEN Max({judged[x], at[c]})
                                     ELSE judged[x]]
      /\ back' = [x \in Source |-> back[x] + Elapsed(judged[x], judged'[x])]
  BY DEF Check, AdmissionInvariant, AdmissionTypeOK
<1>2. Max({judged[s], at[c]}) = judged[s] + Elapsed(at[c], judged[s])
  BY <1>1, MaxOfTwo DEF Elapsed
<1>3. sources'[s] # None => sources'[s].refilled \in Nat
  BY DEF Sane, Maps, Bucket
<1>4. /\ judged'[s] = IF sources'[s] # None THEN sources'[s].refilled
                      ELSE IF sources[s] # None THEN judged[s] + Elapsed(at[c], judged[s])
                      ELSE judged[s]
      /\ back'[s] = back[s] + Elapsed(judged[s], judged'[s])
  BY <1>1, <1>2
<1>5. judged'[s] \in Nat
  BY <1>1, <1>3, <1>4 DEF Elapsed
<1>6. back'[s] \in Nat
  BY <1>1, <1>4, <1>5 DEF Elapsed
<1>7. QED
  BY <1>4, <1>5, <1>6

LEMMA CheckTypes ==
  ASSUME AdmissionInvariant, NEW c \in Call, Check(c)
  PROVE  AdmissionInvariant'
<1>1. PICK r : /\ sources' = r.buckets
               /\ Apart(Source, sources, From[c], at[c], r)
               /\ \E x \in {"source", "id", "admitted"} : result' = [result EXCEPT ![c] = x]
  BY CheckOfSource
<1>2. Sane(Source, sources') /\ Sane(Id, ids')
  BY <1>1, CheckOfSource DEF Apart
<1>3. clock' = clock /\ at' = at
  BY DEF Check
<1>4. result' \in [Call -> {"source", "id", "admitted", None}]
  BY <1>1 DEF AdmissionInvariant, AdmissionTypeOK
<1>5. judged' \in [Source -> Nat] /\ back' \in [Source -> Nat]
  <2>1. \A s \in Source : judged'[s] \in Nat /\ back'[s] \in Nat
    BY <1>2, CheckJudges
  <2>2. judged' = [s \in Source |-> judged'[s]] /\ back' = [s \in Source |-> back'[s]]
    BY DEF Check
  <2>3. QED
    BY <2>1, <2>2
<1>6. AdmissionTypeOK'
  BY <1>2, <1>3, <1>4, <1>5 DEF Sane, Maps, AdmissionInvariant, AdmissionTypeOK
<1>7. IsFiniteSet({d \in Call : result'[d] # None})
  <2> DEFINE A == {d \in Call : result[d] # None}
  <2>1. {d \in Call : result'[d] # None} \in SUBSET (A \cup {c})
    BY <1>1 DEF AdmissionInvariant, AdmissionTypeOK
  <2>2. IsFiniteSet(A \cup {c})
    BY FS_AddElement DEF AdmissionInvariant
  <2>3. QED
    BY <2>1, <2>2, FS_Subset
<1>8. \A d \in Call : result'[d] # None => at'[d] # None
  BY <1>1, <1>3 DEF Check, AdmissionInvariant, AdmissionTypeOK
<1>9. \A s \in Source : sources'[s] # None => judged'[s] = sources'[s].refilled
  BY <1>2, CheckJudges
<1>10. QED
  BY <1>2, <1>6, <1>7, <1>8, <1>9 DEF AdmissionInvariant

LEMMA AdmissionInvariantHolds == AdmissionSpec => []AdmissionInvariant
<1>1. AdmissionInit => AdmissionInvariant
  <2> SUFFICES ASSUME AdmissionInit PROVE AdmissionInvariant
    OBVIOUS
  <2>1. /\ sources \in Maps(Source) /\ Present(sources) = {}
        /\ ids \in Maps(Id) /\ Present(ids) = {}
    BY DEF AdmissionInit, Maps, Present
  <2>2. IsFiniteSet({}) /\ Cardinality({}) <= Capacity
    BY FS_EmptySet, Limits
  <2>3. Sane(Source, sources) /\ Sane(Id, ids)
    BY <2>1, <2>2 DEF AdmissionInit, Sane
  <2>4. AdmissionTypeOK
    BY <2>1, <2>2, AdmissionAssumption DEF AdmissionInit, AdmissionTypeOK, Maps
  <2>5. {c \in Call : result[c] # None} = {}
    BY DEF AdmissionInit
  <2>6. QED
    BY <2>2, <2>3, <2>4, <2>5 DEF AdmissionInit, AdmissionInvariant
<1>2. AdmissionInvariant /\ [AdmissionNext]_admissionVars => AdmissionInvariant'
  <2> SUFFICES ASSUME AdmissionInvariant, [AdmissionNext]_admissionVars
               PROVE  AdmissionInvariant'
    OBVIOUS
  <2>1. CASE ClockTicks
    <3>1. clock \in Nat /\ clock' = clock + 1 /\ clock' \in 0 .. MaxClock
      BY <2>1, AdmissionAssumption DEF ClockTicks, AdmissionInvariant, AdmissionTypeOK
    <3>2. at' \in [Call -> (0 .. clock') \cup {None}]
      <4>1. 0 .. clock \subseteq 0 .. clock'
        BY <3>1
      <4>2. QED
        BY <2>1, <4>1 DEF ClockTicks, AdmissionInvariant, AdmissionTypeOK
    <3>3. QED
      BY <2>1, <3>1, <3>2 DEF ClockTicks, AdmissionInvariant, AdmissionTypeOK
  <2>2. CASE \E c \in Call : Arrive(c)
    <3>1. PICK c \in Call : Arrive(c)
      BY <2>2
    <3>2. clock \in 0 .. clock
      BY AdmissionAssumption DEF AdmissionInvariant, AdmissionTypeOK
    <3>3. clock # None
      BY AdmissionAssumption DEF AdmissionInvariant, AdmissionTypeOK
    <3>4. AdmissionTypeOK'
      BY <3>1, <3>2 DEF Arrive, AdmissionInvariant, AdmissionTypeOK
    <3>5. QED
      BY <3>1, <3>3, <3>4 DEF Arrive, AdmissionInvariant, AdmissionTypeOK
  <2>3. CASE \E c \in Call : Check(c)
    BY <2>3, CheckTypes
  <2>4. CASE UNCHANGED admissionVars
    BY <2>4 DEF admissionVars, AdmissionInvariant, AdmissionTypeOK
  <2>5. QED
    BY <2>1, <2>2, <2>3, <2>4 DEF AdmissionNext
<1>3. QED
  BY <1>1, <1>2, PTL DEF AdmissionSpec

\* Neither map of the pairing calls holds more buckets than its capacity:
\* BoundedBuckets::make_room, also when calls are checked out of order.
THEOREM AdmissionTypeCorrect == AdmissionSpec => []AdmissionTypeOK
<1>1. AdmissionInvariant => AdmissionTypeOK
  BY DEF AdmissionInvariant
<1>2. QED
  BY <1>1, AdmissionInvariantHolds, PTL

-----------------------------------------------------------------------------
(* Pairing calls: what a source gets through.                              *)

\* The credit of a source, up to the time it is judged at.
Credited(s) == IF sources[s] = None THEN Most ELSE sources[s].credit

\* A check adds to the credit of a source what its time moves on, and to its surplus
\* what it goes back; a call that is not refused for its source takes a token.
LEMMA CheckCredits ==
  ASSUME AdmissionInvariant, NEW c \in Call, Check(c), NEW s \in Source
  PROVE  /\ back[s] \in Nat /\ back'[s] \in Nat /\ back'[s] >= back[s]
         /\ judged[s] \in Nat /\ judged'[s] \in Nat
         /\ Credited(s) \in 0 .. Most /\ Credited(s)' \in 0 .. Most
         /\ \/ /\ ~(From[c] = s /\ result'[c] \in {"id", "admitted"})
               /\ Credited(s)' + judged[s] + back[s] <= Credited(s) + judged'[s] + back'[s]
            \/ /\ From[c] = s /\ result'[c] \in {"id", "admitted"}
               /\ Credited(s)' + Interval + judged[s] + back[s]
                    <= Credited(s) + judged'[s] + back'[s]
               /\ Credited(s)' + Interval <= Most
               /\ judged'[s] = at[c]
<1> DEFINE t == at[c]
           j == judged[s]
           j2 == judged'[s]
           e == Elapsed(t, j)
<1>1. PICK r : /\ sources' = r.buckets
               /\ Apart(Source, sources, From[c], t, r)
               /\ SourceChecked(From[c], t, r)
               /\ \E x \in {"source", "id", "admitted"} :
                    /\ result' = [result EXCEPT ![c] = x]
                    /\ r.wait > 0 <=> x = "source"
  BY CheckOfSource
<1>2. /\ result'[c] \in {"source", "id", "admitted"}
      /\ r.wait > 0 <=> result'[c] = "source"
  BY <1>1 DEF AdmissionInvariant, AdmissionTypeOK
<1>3. Sane(Source, sources') /\ t \in Nat /\ j \in Nat /\ back[s] \in Nat
  BY <1>1, CheckOfSource DEF Apart, AdmissionInvariant, AdmissionTypeOK
<1>4. /\ j2 \in Nat /\ back'[s] \in Nat
      /\ j2 = IF sources'[s] # None THEN sources'[s].refilled
              ELSE IF sources[s] # None THEN j + e ELSE j
      /\ back'[s] = back[s] + Elapsed(j, j2)
  BY <1>3, CheckJudges
<1>5. /\ e \in Nat /\ back'[s] >= back[s] /\ Elapsed(j, j) = 0
      /\ Elapsed(j, j + e) = 0 /\ j + e = t + Elapsed(j, t)
      /\ Elapsed(j, t) \in Nat
  BY <1>3, <1>4 DEF Elapsed
<1>6. Most \in Nat /\ Interval \in Nat \ {0}
  BY Limits
<1>7. sources[s] # None => /\ sources[s] \in Bucket /\ sources[s].refilled = j
                           /\ sources[s].credit \in 0 .. Most
                           /\ CreditAt(sources[s], t) \in 0 .. Most
                           /\ CreditAt(sources[s], t) <= sources[s].credit + e
  <2>1. sources[s] # None => sources[s] \in Bucket /\ sources[s].refilled = j
    BY DEF AdmissionInvariant, Sane, Maps
  <2>2. QED
    BY <1>3, <2>1, CreditBounds DEF Bucket, Most
<1>8. Credited(s) \in 0 .. Most /\ Level(sources, s, t) \in 0 .. Most
      /\ Level(sources, s, t) <= Credited(s) + e
  BY <1>5, <1>6, <1>7 DEF Credited, Level
<1>9. Credited(s)' \in 0 .. Most
  BY <1>3, <1>6 DEF Credited, Sane, Maps, Bucket, Most
<1> HIDE DEF t, j, j2, e
<1>10. CASE sources'[s] = sources[s] /\ ~(From[c] = s /\ result'[c] \in {"id", "admitted"})
  <2>1. j2 = j /\ back'[s] = back[s]
    BY <1>3, <1>4, <1>5, <1>7, <1>10
  <2>2. Credited(s)' = Credited(s)
    BY <1>10 DEF Credited
  <2>3. QED
    BY <1>3, <1>4, <1>5, <1>8, <1>9, <1>10, <2>1, <2>2 DEF j, j2
<1>11. CASE From[c] # s
  <2>1. CASE sources'[s] = sources[s]
    BY <1>10, <1>11, <2>1
  <2>2. CASE sources'[s] = None /\ sources[s] # None /\ CreditAt(sources[s], t) = Most
    <3>1. Credited(s)' = Most /\ Credited(s) = sources[s].credit
      BY <2>2 DEF Credited
    <3>2. j2 = j + e /\ back'[s] = back[s]
      BY <1>3, <1>4, <1>5, <2>2
    <3>3. Credited(s)' + j + back[s] <= Credited(s) + j2 + back'[s]
      BY <1>3, <1>5, <1>6, <1>7, <1>8, <2>2, <3>1, <3>2
    <3>4. QED
      BY <1>3, <1>4, <1>5, <1>8, <1>9, <1>11, <3>3 DEF j, j2
  <2>3. QED
    BY <1>1, <1>11, <2>1, <2>2 DEF Apart
<1>12. ASSUME From[c] = s, NEW l \in 0 .. Most, sources'[s] = Refilled(l, t)
       PROVE  /\ Credited(s)' = l /\ j2 = t
              /\ t + back'[s] = j + e + back[s]
  <2>1. sources'[s].credit = l /\ sources'[s].refilled = t
    BY <1>12 DEF Refilled
  <2>2. sources'[s] # None
    <3>1. Refilled(l, t) \in Bucket
      BY <1>3, <1>12 DEF Refilled, Bucket, Most
    <3>2. QED
      BY <1>12, <3>1, NoBucket
  <2>3. Credited(s)' = l
    BY <2>1, <2>2 DEF Credited
  <2>4. j2 = t /\ back'[s] = back[s] + Elapsed(j, t)
    BY <1>4, <2>1, <2>2
  <2>5. t + back'[s] = j + e + back[s]
    <3> DEFINE x == Elapsed(j, t)
    <3>1. back'[s] = back[s] + x /\ j + e = t + x /\ x \in Nat
      BY <1>5, <2>4
    <3> HIDE DEF x
    <3>2. QED
      BY <1>3, <1>5, <3>1
  <2>6. QED
    BY <2>3, <2>4, <2>5
<1>13. CASE From[c] = s /\ Admits(sources, s, t, r)
  <2> DEFINE l == Level(sources, s, t)
  <2>1. r.wait = 0 /\ l >= Interval /\ sources'[s] = Refilled(l - Interval, t)
    BY <1>1, <1>13 DEF Admits
  <2>2. l \in 0 .. Most /\ l <= Credited(s) + e
    BY <1>8
  <2> HIDE DEF l
  <2>3. l - Interval \in 0 .. Most
    BY <1>6, <2>1, <2>2
  <2>4. Credited(s)' = l - Interval /\ j2 = t /\ t + back'[s] = j + e + back[s]
    BY <1>12, <1>13, <2>1, <2>3
  <2>5. Credited(s)' + Interval + j + back[s] <= Credited(s) + j2 + back'[s]
    BY <1>3, <1>4, <1>5, <1>6, <1>8, <2>2, <2>4
  <2>6. Credited(s)' + Interval <= Most
    BY <1>6, <2>2, <2>4
  <2>7. result'[c] \in {"id", "admitted"}
    BY <1>2, <2>1
  <2>8. QED
    BY <1>3, <1>4, <1>5, <1>8, <1>9, <1>13, <2>4, <2>5, <2>6, <2>7 DEF j, j2, t
<1>14. CASE From[c] = s /\ Lacks(sources, s, t, r)
  <2> DEFINE l == Level(sources, s, t)
  <2>1. r.wait = Interval - l /\ l < Interval /\ sources'[s] = Refilled(l, t)
    BY <1>1, <1>14 DEF Lacks
  <2>2. l \in 0 .. Most /\ l <= Credited(s) + e
    BY <1>8
  <2> HIDE DEF l
  <2>3. Credited(s)' = l /\ j2 = t /\ t + back'[s] = j + e + back[s]
    BY <1>12, <1>14, <2>1, <2>2
  <2>4. Credited(s)' + j + back[s] <= Credited(s) + j2 + back'[s]
    BY <1>3, <1>4, <1>5, <1>8, <2>2, <2>3
  <2>5. result'[c] = "source"
    BY <1>2, <1>6, <2>1, <2>2
  <2>6. QED
    BY <1>3, <1>4, <1>5, <1>8, <1>9, <2>4, <2>5 DEF j, j2
<1>15. CASE From[c] = s /\ Crowded(Source, sources, s, t, r)
  <2>1. sources'[s] = sources[s] /\ result'[c] = "source"
    BY <1>1, <1>2, <1>15 DEF Crowded
  <2>2. QED
    BY <1>10, <2>1
<1>16. QED
  BY <1>1, <1>11, <1>13, <1>14, <1>15 DEF SourceChecked

\* A call that takes a token counts in the stretches of time it is in.
LEMMA CheckSpends ==
  ASSUME AdmissionInvariant, NEW c \in Call, Check(c), NEW s \in Source,
         NEW first \in Nat, NEW last \in Nat
  PROVE  /\ Cardinality(Spent(s, first, last)) \in Nat
         /\ IF From[c] = s /\ result'[c] \in {"id", "admitted"} /\ at[c] \in first .. last
            THEN Cardinality(Spent(s, first, last)') = Cardinality(Spent(s, first, last)) + 1
            ELSE Spent(s, first, last)' = Spent(s, first, last)
<1> DEFINE S == Spent(s, first, last)
<1>1. IsFiniteSet(S) /\ Cardinality(S) \in Nat
  <2>1. S \in SUBSET {d \in Call : result[d] # None}
    BY AdmissionAssumption DEF Spent
  <2>2. IsFiniteSet(S)
    BY <2>1, FS_Subset DEF AdmissionInvariant
  <2>3. QED
    BY <2>2, FS_CardinalityType
<1>2. /\ at' = at /\ result[c] = None
      /\ \E x \in {"source", "id", "admitted"} : result' = [result EXCEPT ![c] = x]
  BY CheckOfSource DEF Check
<1>3. \A d \in Call : d # c => result'[d] = result[d]
  BY <1>2 DEF AdmissionInvariant, AdmissionTypeOK
<1>4. c \notin S
  BY <1>2, AdmissionAssumption DEF Spent
<1>5. CASE From[c] = s /\ result'[c] \in {"id", "admitted"} /\ at[c] \in first .. last
  <2>1. S' = S \cup {c}
    BY <1>2, <1>3, <1>5 DEF Spent
  <2>2. Cardinality(S \cup {c}) = Cardinality(S) + 1
    BY <1>1, <1>4, FS_AddElement
  <2>3. QED
    BY <1>1, <1>5, <2>1, <2>2
<1>6. CASE ~(From[c] = s /\ result'[c] \in {"id", "admitted"} /\ at[c] \in first .. last)
  <2>1. S' = S
    BY <1>2, <1>3, <1>4, <1>6 DEF Spent
  <2>2. QED
    BY <1>1, <1>6, <2>1
<1>7. QED
  BY <1>5, <1>6

\* What the calls of a source since first have cost, and what it still has, is no more
\* than a burst, what the time up to judged has earned, and the surplus.
SourceBudget(s) ==
  \A first, last \in Nat :
    Spent(s, first, last) # {} =>
      Cost(Cardinality(Spent(s, first, last))) + Credited(s) + first <= Most + judged[s] + back[s]

SourceRate(s) ==
  \A first, last \in Nat :
    first <= last => Cost(Cardinality(Spent(s, first, last))) <= Most + (last - first) + back[s]

LEMMA CheckKeepsBudget ==
  ASSUME AdmissionInvariant, NEW c \in Call, Check(c), NEW s \in Source,
         SourceBudget(s), SourceRate(s)
  PROVE  SourceBudget(s)' /\ SourceRate(s)'
<1> DEFINE n(first, last) == Cardinality(Spent(s, first, last))
           j == judged[s]
           b == back[s]
           l == Credited(s)
           j2 == judged'[s]
           b2 == back'[s]
           l2 == Credited(s)'
           spends == From[c] = s /\ result'[c] \in {"id", "admitted"}
<1>1. /\ b \in Nat /\ b2 \in Nat /\ b2 >= b /\ j \in Nat /\ j2 \in Nat
      /\ l \in 0 .. Most /\ l2 \in 0 .. Most
      /\ \/ ~spends /\ l2 + j + b <= l + j2 + b2
         \/ spends /\ l2 + Interval + j + b <= l + j2 + b2 /\ l2 + Interval <= Most /\ j2 = at[c]
  BY CheckCredits
<1>2. Most \in Nat /\ Interval \in Nat \ {0} /\ at[c] \in Nat
  BY Limits, CheckOfSource
<1>3. SUFFICES ASSUME NEW first \in Nat, NEW last \in Nat
               PROVE  /\ Spent(s, first, last)' # {} =>
                           Cost(n(first, last)') + l2 + first <= Most + j2 + b2
                      /\ first <= last => Cost(n(first, last)') <= Most + (last - first) + b2
  BY DEF SourceBudget, SourceRate
<1> DEFINE m == n(first, last)
           S == Spent(s, first, last)
<1>4. /\ S # {} => Cost(m) + l + first <= Most + j + b
      /\ first <= last => Cost(m) <= Most + (last - first) + b
  BY DEF SourceBudget, SourceRate
<1>5. /\ m \in Nat
      /\ IF spends /\ at[c] \in first .. last THEN m' = m + 1 ELSE S' = S
  BY CheckSpends
<1>6. Cost(m) \in Nat /\ Cost(m + 1) = Cost(m) + Interval /\ Cost(0) = 0
  BY <1>2, <1>5, CostGrows DEF Cost
<1>7. CASE ~(spends /\ at[c] \in first .. last)
  <2>1. S' = S /\ m' = m
    BY <1>5, <1>7
  <2>2. l2 + j + b <= l + j2 + b2
    <3> HIDE DEF l, j, b, l2, j2, b2, spends
    <3> QED  BY <1>1, <1>2
  <2> DEFINE k == Cost(m)
  <2>3. /\ S' # {} => k + l + first <= Most + j + b
        /\ first <= last => k <= Most + (last - first) + b
        /\ k \in Nat /\ Cost(m') = k
    BY <1>4, <1>6, <2>1
  <2> HIDE DEF k, l, j, b, l2, j2, b2, S, m, n
  <2>4. S' # {} => k + l2 + first <= Most + j2 + b2
    BY <1>1, <1>2, <2>2, <2>3
  <2>5. first <= last => k <= Most + (last - first) + b2
    BY <1>1, <1>2, <2>3
  <2>6. QED
    BY <2>3, <2>4, <2>5 DEF S, m
<1>8. CASE spends /\ at[c] \in first .. last
  <2>1. m' = m + 1
    BY <1>5, <1>8
  <2> DEFINE k == Cost(m)
             t == at[c]
  <2>2. k \in Nat /\ Cost(m') = k + Interval
    BY <1>6, <2>1
  <2>3. first <= t /\ t <= last /\ t \in Nat /\ j2 = t
    BY <1>1, <1>2, <1>8
  <2>4. l2 + Interval + j + b <= l + j2 + b2 /\ l2 + Interval <= Most
    BY <1>1, <1>8
  <2>5. k = 0 \/ k + l + first <= Most + j + b
    <3>1. S = {} => m = 0
      BY FS_EmptySet
    <3>2. QED
      BY <1>4, <1>6, <3>1
  <2> HIDE DEF k, l, j, b, l2, j2, b2, t, m, n
  <2>6. k + Interval + l2 + first <= Most + j2 + b2
    BY <1>1, <1>2, <2>2, <2>3, <2>4, <2>5
  <2>7. k + Interval <= Most + (last - first) + b2
    BY <1>1, <1>2, <2>2, <2>3, <2>6
  <2>8. QED
    BY <2>2, <2>6, <2>7 DEF m
<1>9. QED
  BY <1>7, <1>8

\* What a source gets through is its budget and what its bucket was set back by, and no
\* more: check_create, check_poll and check_activation, in any order of their times,
\* also when its bucket is dropped or evicted and made anew in between.
THEOREM SurplusIsSkew == AdmissionSpec => []BudgetPlusSkew
<1> DEFINE Inv == \A s \in Source : SourceBudget(s) /\ SourceRate(s)
<1>1. AdmissionInit => Inv
  <2> SUFFICES ASSUME AdmissionInit, NEW s \in Source
               PROVE  SourceBudget(s) /\ SourceRate(s)
    OBVIOUS
  <2>1. \A first, last \in Nat : Spent(s, first, last) = {}
    BY AdmissionAssumption DEF AdmissionInit, Spent
  <2>2. Cardinality({}) = 0 /\ Cost(0) = 0 /\ back[s] = 0 /\ Most \in Nat
    BY FS_EmptySet, Limits DEF Cost, AdmissionInit
  <2>3. SourceBudget(s)
    BY <2>1 DEF SourceBudget
  <2>4. \A first, last \in Nat : first <= last => 0 <= Most + (last - first) + 0
    BY <2>2
  <2>5. SourceRate(s)
    BY <2>1, <2>2, <2>4 DEF SourceRate
  <2>6. QED
    BY <2>3, <2>5
<1>2. Inv /\ AdmissionInvariant /\ [AdmissionNext]_admissionVars => Inv'
  <2> SUFFICES ASSUME Inv, AdmissionInvariant, [AdmissionNext]_admissionVars, NEW s \in Source
               PROVE  SourceBudget(s)' /\ SourceRate(s)'
    OBVIOUS
  <2>1. SourceBudget(s) /\ SourceRate(s)
    OBVIOUS
  <2>2. CASE ClockTicks \/ UNCHANGED admissionVars
    BY <2>1, <2>2 DEF ClockTicks, admissionVars, SourceBudget, SourceRate, Spent, Credited
  <2>3. CASE \E c \in Call : Arrive(c)
    <3>1. PICK c \in Call : Arrive(c)
      BY <2>3
    <3>2. result[c] = None /\ \A d \in Call : d # c => at'[d] = at[d]
      BY <3>1 DEF Arrive, AdmissionInvariant, AdmissionTypeOK
    <3>3. result' = result /\ sources' = sources /\ judged' = judged /\ back' = back
      BY <3>1 DEF Arrive
    <3>4. \A first, last \in Nat : Spent(s, first, last)' = Spent(s, first, last)
      BY <3>2, <3>3, AdmissionAssumption DEF Spent
    <3>5. QED
      BY <2>1, <3>3, <3>4 DEF SourceBudget, SourceRate, Credited
  <2>4. CASE \E c \in Call : Check(c)
    BY <2>1, <2>4, CheckKeepsBudget
  <2>5. QED
    BY <2>2, <2>3, <2>4 DEF AdmissionNext
<1>3. Inv /\ AdmissionInvariant => BudgetPlusSkew
  <2>1. AdmissionInvariant => 0 .. clock \subseteq Nat
    OBVIOUS
  <2>2. QED
    BY <2>1 DEF SourceRate, BudgetPlusSkew, Cost, Most
<1>4. QED
  BY <1>1, <1>2, <1>3, AdmissionInvariantHolds, PTL DEF AdmissionSpec

-----------------------------------------------------------------------------
(* Pairing calls checked at the time of the check.                         *)

\* A call that is checked has read the clock just before: what check_invite_account does,
\* which reads it under the mutex.
ClockUnderLock == \A c \in Call : Check(c) => at[c] = clock

\* No source is ahead of the clock, and none was set back.
InOrder == \A s \in Source : judged[s] <= clock /\ back[s] = 0

LEMMA CheckInOrder ==
  ASSUME AdmissionInvariant, InOrder, NEW c \in Call, Check(c), at[c] = clock
  PROVE  InOrder'
<1>1. PICK r : /\ sources' = r.buckets
               /\ Apart(Source, sources, From[c], at[c], r)
               /\ SourceChecked(From[c], at[c], r)
  BY CheckOfSource
<1>2. SUFFICES ASSUME NEW s \in Source PROVE judged'[s] <= clock /\ back'[s] = 0
  BY DEF InOrder, Check
<1>3. /\ clock \in Nat /\ judged[s] \in Nat /\ judged[s] <= clock /\ back[s] = 0
      /\ Sane(Source, sources')
  BY <1>1, CheckOfSource DEF AdmissionInvariant, AdmissionTypeOK, InOrder, Apart
<1>4. /\ judged'[s] = IF sources'[s] # None THEN sources'[s].refilled
                      ELSE IF sources[s] # None THEN judged[s] + Elapsed(clock, judged[s])
                      ELSE judged[s]
      /\ judged'[s] \in Nat
      /\ back'[s] = back[s] + Elapsed(judged[s], judged'[s])
  BY <1>3, CheckJudges
<1>5. sources'[s] # None => sources'[s].refilled \in {judged[s], clock}
  <2>1. CASE s # From[c]
    BY <1>1, <2>1 DEF Apart, AdmissionInvariant
  <2>2. CASE s = From[c]
    <3>1. \A l : Refilled(l, clock).refilled = clock
      BY DEF Refilled
    <3>2. QED
      BY <1>1, <2>2, <3>1 DEF SourceChecked, Admits, Lacks, Crowded
  <2>3. QED
    BY <2>1, <2>2
<1>6. judged[s] + Elapsed(clock, judged[s]) = clock
  BY <1>3 DEF Elapsed
<1>7. judged'[s] \in {judged[s], clock}
  BY <1>4, <1>5, <1>6
<1>8. judged'[s] <= clock /\ judged[s] <= judged'[s]
  BY <1>3, <1>7
<1>9. Elapsed(judged[s], judged'[s]) = 0
  BY <1>3, <1>4, <1>8 DEF Elapsed
<1>10. QED
  BY <1>3, <1>4, <1>8, <1>9

\* Were the clock read under the mutex, the budget would be kept as it is documented: all that
\* a source gets beyond it comes from check_create, check_poll and check_activation reading the
\* clock before they wait.
THEOREM BudgetKeptInOrder ==
  AdmissionSpec /\ [][ClockUnderLock]_admissionVars => []BudgetBounded
<1>1. AdmissionInit => InOrder
  BY DEF AdmissionInit, InOrder
<1>2. AdmissionInvariant /\ InOrder /\ [AdmissionNext]_admissionVars /\ [ClockUnderLock]_admissionVars
        => InOrder'
  <2> SUFFICES ASSUME AdmissionInvariant, InOrder, [AdmissionNext]_admissionVars,
                      [ClockUnderLock]_admissionVars
               PROVE  InOrder'
    OBVIOUS
  <2>1. clock \in Nat /\ \A s \in Source : judged[s] \in Nat
    BY DEF AdmissionInvariant, AdmissionTypeOK
  <2>2. CASE UNCHANGED admissionVars
    BY <2>2 DEF InOrder, admissionVars
  <2>3. CASE ClockTicks
    BY <2>1, <2>3 DEF InOrder, ClockTicks
  <2>4. CASE \E c \in Call : Arrive(c)
    BY <2>4 DEF InOrder, Arrive
  <2>5. ASSUME NEW c \in Call, Check(c) PROVE InOrder'
    <3>1. CASE ClockUnderLock
      BY <2>5, <3>1, CheckInOrder DEF ClockUnderLock
    <3>2. QED
      BY <2>2, <3>1
  <2>6. QED
    BY <2>2, <2>3, <2>4, <2>5 DEF AdmissionNext
<1>3. AdmissionInvariant /\ InOrder /\ BudgetPlusSkew => BudgetBounded
  <2> SUFFICES ASSUME AdmissionInvariant, InOrder, BudgetPlusSkew, NEW s \in Source,
                      NEW first \in 0 .. clock, NEW last \in 0 .. clock, first <= last
               PROVE  Cardinality(Spent(s, first, last)) * Interval
                        <= Burst * Interval + (last - first)
    BY DEF BudgetBounded
  <2>1. Cardinality(Spent(s, first, last)) * Interval
          <= Burst * Interval + (last - first) + back[s]
    BY DEF BudgetPlusSkew
  <2>2. back[s] = 0 /\ Most \in Nat /\ first \in Int /\ last \in Int
    BY Limits DEF InOrder
  <2>3. Most + (last - first) + back[s] = Most + (last - first)
    BY <2>2
  <2>4. QED
    BY <2>1, <2>3 DEF Most
<1>4. QED
  BY <1>1, <1>2, <1>3, AdmissionInvariantHolds, SurplusIsSkew, PTL DEF AdmissionSpec
=============================================================================
