------------------------------- MODULE Series -------------------------------
(***************************************************************************)
(* What the query handlers and the AI hooks compute from the rows they     *)
(* find: ranges, buckets, aggregates, the newest rows, and the two scores. *)
(* A row is its natural key (table, node, time); its readings are one      *)
(* number, Measure[r]: the temperature of a minute, the distance of a      *)
(* strike.  Times are ticks; Python and SQL floor as \div does.            *)
(***************************************************************************)
EXTENDS FiniteSets, FiniteSetsExt, Freshness

CONSTANTS
  Width,    \* _INTERVAL_SECONDS: the length of each interval, in ticks
  Zone,     \* what the time zone of the database session is ahead of UTC
  Day,      \* the range of a query that gives no "from"
  Week,     \* _RAW_MAX_RANGE
  Measure   \* the reading of each row

ASSUME SeriesConstantsOK ==
  /\ \A i \in DOMAIN Width : Width[i] \in Nat \ {0}
  /\ Zone \in Int /\ Day \in Nat /\ Week \in Nat

AllNodes == "all"   \* the query parameter "node" is not given

-----------------------------------------------------------------------------
(* downsample.py                                                           *)

Until(to, now) == IF to = None THEN now ELSE to
Since(from, to, now) == IF from = None THEN Until(to, now) - Day ELSE from

\* Neither 400 (unknown interval, empty range) nor 416 (raw range too long).
Accepted(from, to, interval) ==
  /\ interval \in DOMAIN Width \cup {"raw"}
  /\ from < to
  /\ interval = "raw" => to - from <= Week

Floor(t, width) == (t \div width) * width

\* Buckets that start at the beginning of the range (a mutant).
BucketOfRange(interval, from, t) == from + Floor(t - from, Width[interval])

\* Hours are those of the session's time zone, other intervals those of the epoch;
\* where the range begins does not matter.
BucketOf(interval, from, t) ==
  IF interval = "1h" THEN Floor(t + Zone, Width[interval]) - Zone
                     ELSE Floor(t, Width[interval])

-----------------------------------------------------------------------------
(* The SELECTs of weather.py, lightning.py and system.py.                  *)

OfNode(rows, table, p) == {r \in rows : r.table = table /\ (p = AllNodes \/ r.node = p)}

InRange(rows, from, to) == {r \in rows : from <= r.at /\ r.at < to}

\* ORDER BY time DESC LIMIT n: which rows of the last time that fits is open.
IsNewest(some, rows, n) ==
  /\ some \subseteq rows
  /\ Cardinality(some) = IF Cardinality(rows) < n THEN Cardinality(rows) ELSE n
  /\ \A r \in some, q \in rows \ some : q.at <= r.at

Total(rows) == SumFunctionOnSet(Measure, rows)
Highest(rows) == Max({Measure[r] : r \in rows})

\* GROUP BY bucket.
BucketedSeries(rows, interval, from, to) ==
  LET found == InRange(rows, from, to)
      bucket(r) == BucketOf(interval, from, r.at)
      of(b) == {r \in found : bucket(r) = b} IN
  [b \in {bucket(r) : r \in found} |-> [sum |-> Total(of(b)), max |-> Highest(of(b))]]

-----------------------------------------------------------------------------
(* ai_hooks.py, over the rows of one node and window.                      *)

\* n * (n - 1) times the variance of a sample of n: NULL, read as 0, for a single row.
Dispersion(rows) ==
  LET squares == [r \in rows |-> Measure[r] * Measure[r]] IN
  Cardinality(rows) * SumFunctionOnSet(squares, rows) - Total(rows) * Total(rows)

\* The mean is not made positive (a mutant).
WeatherLabelSigned(rows) ==
  LET n == Cardinality(rows)  s == Total(rows)  d == Dispersion(rows) IN
  IF n = 0 THEN "insufficient_data"
  ELSE IF \/ d = 0
          \/ s > 0 /\ 100 * n * d < 9 * (n - 1) * s * s
          \/ 1000000 * d < 9 * (n - 1) * n
       THEN "normal" ELSE "anomalous"

\* stddev / max(abs(mean), 0.01) < 0.3, with whole numbers.
WeatherLabel(rows) ==
  LET n == Cardinality(rows)  s == Total(rows)  d == Dispersion(rows) IN
  IF n = 0 THEN "insufficient_data"
  ELSE IF d = 0 \/ 100 * n * d < 9 * (n - 1) * s * s \/ 1000000 * d < 9 * (n - 1) * n
       THEN "normal" ELSE "anomalous"

\* The distance of the farthest strike counts (a mutant).
NearestIsFarthest(rows) == Max({Measure[r] : r \in rows})

\* min(distance_km), but a strike overhead, at distance 0, is taken for one that
\* has no distance and counts as 40 km.
Nearest(rows) ==
  LET d == Min({Measure[r] : r \in rows}) IN IF d = 0 THEN 40 ELSE d

\* 0.6 * proximity + 0.4 * frequency, in thousandths.
LightningRisk(rows) ==
  IF rows = {} THEN 0
  ELSE 15 * Max({0, 40 - Nearest(rows)}) + 20 * Min({20, Cardinality(rows)})

=============================================================================
