----------------------------- MODULE HourlyMetric -----------------------------
(***************************************************************************)
(* One metric of one hourly aggregate (retention.rs): ScalarAggregate      *)
(* accumulates the values of a batch one by one, and hourly_upsert_sql     *)
(* merges what it has into the stored columns.  Hours are rolled up in     *)
(* batches cut at any place, so the columns must not depend on the cuts.   *)
(*                                                                         *)
(* f64 is modelled by exact fractions <<numerator, denominator>>: what is  *)
(* checked is the recurrence, not its rounding.                            *)
(*                                                                         *)
(* The names of the specification differ from those of Retention, so that  *)
(* Retention_proofs can be about both.                                     *)
(***************************************************************************)
EXTENDS Integers, Sequences, FiniteSets, FiniteSetsExt

CONSTANTS Value,      \* values of the metric
          Null,       \* SQL NULL: the report has no value
          MaxSamples  \* bound: reports in the hour

ASSUME MetricAssumption ==
  /\ Value \subseteq Int
  /\ Null \notin Value
  /\ MaxSamples \in Nat

VARIABLES aggregate,  \* the ScalarAggregate of the batch
          columns,    \* metric_count, _min, _max, _avg of the stored row
          reports,    \* the values of the hour in order, Null where there is none
          flushed     \* how many of them are in the stored columns

metricVars == <<aggregate, columns, reports, flushed>>

\* ScalarAggregate::default
Empty == [count |-> 0, min |-> Null, max |-> Null, avg |-> Null]

Lower(x, y) == IF x < y THEN x ELSE y
Upper(x, y) == IF x < y THEN y ELSE x

\* q + (p - q) * part / whole
Towards(q, p, part, whole) ==
  <<q[1] * p[2] * whole + (p[1] * q[2] - q[1] * p[2]) * part, q[2] * p[2] * whole>>

\* ScalarAggregate::record
Record(a, value) ==
  IF value = Null THEN a
  ELSE [count |-> a.count + 1,
        min   |-> IF a.count = 0 THEN value ELSE Lower(a.min, value),
        max   |-> IF a.count = 0 THEN value ELSE Upper(a.max, value),
        avg   |-> IF a.count = 0 THEN <<value, 1>>
                  ELSE Towards(a.avg, <<value, 1>>, 1, a.count + 1)]

\* Mutant: the averages are weighed by the stored count instead of the new one.
MergedWrongWeight(old, new) ==
  IF old.count = 0 THEN new
  ELSE IF new.count = 0 THEN old
  ELSE [count |-> old.count + new.count,
        min   |-> Lower(old.min, new.min),
        max   |-> Upper(old.max, new.max),
        avg   |-> Towards(old.avg, new.avg, old.count, old.count + new.count)]

\* The DO UPDATE SET of hourly_upsert_sql.
Merged(old, new) ==
  IF old.count = 0 THEN new
  ELSE IF new.count = 0 THEN old
  ELSE [count |-> old.count + new.count,
        min   |-> Lower(old.min, new.min),
        max   |-> Upper(old.max, new.max),
        avg   |-> Towards(old.avg, new.avg, new.count, old.count + new.count)]

MetricInit ==
  /\ aggregate = Empty
  /\ columns = Empty     \* no row: the first upsert inserts the batch as it is
  /\ reports = <<>>
  /\ flushed = 0

\* HourlyAggregate::record
RecordReport(value) ==
  /\ Len(reports) < MaxSamples
  /\ aggregate' = Record(aggregate, value)
  /\ reports' = Append(reports, value)
  /\ UNCHANGED <<columns, flushed>>

\* The upsert at the end of a batch; the next batch starts from an empty one.
Upsert ==
  /\ flushed < Len(reports)
  /\ columns' = Merged(columns, aggregate)
  /\ aggregate' = Empty
  /\ flushed' = Len(reports)
  /\ UNCHANGED reports

MetricNext == (\E value \in Value \cup {Null} : RecordReport(value)) \/ Upsert

MetricSpec == MetricInit /\ [][MetricNext]_metricVars
-----------------------------------------------------------------------------
(* What a should hold for the reports I: how many have a value, and the     *)
(* bounds and the mean of these values.                                     *)
Describes(a, I) ==
  LET valued == {i \in I : reports[i] # Null}
      total  == MapThenSumSet(LAMBDA i : reports[i], valued)
  IN  /\ a.count = Cardinality(valued)
      /\ IF valued = {} THEN <<a.min, a.max, a.avg>> = <<Null, Null, Null>>
         ELSE /\ \E i \in valued : a.min = reports[i]
              /\ \E i \in valued : a.max = reports[i]
              /\ \A i \in valued : a.min <= reports[i] /\ reports[i] <= a.max
              /\ a.avg[2] > 0 /\ a.avg[1] * a.count = total * a.avg[2]

\* However an hour is cut into batches, and wherever values are missing, the
\* stored columns are the count, minimum, maximum and mean of all of its values.
ExactAggregate ==
  /\ Describes(columns, 1 .. flushed)
  /\ Describes(aggregate, flushed + 1 .. Len(reports))
=============================================================================
