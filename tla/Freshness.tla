----------------------------- MODULE Freshness -----------------------------
(***************************************************************************)
(* freshness.py: what the age of a row, or of a node's last batch, is      *)
(* called.  Times are ticks since some beginning; None stands for NULL, for *)
(* a parameter that is not given, and for an age that is not known.        *)
(***************************************************************************)
EXTENDS Integers

CONSTANTS
  Interval,   \* interval_s of the cadence stream
  NodeFresh,  \* NODE_FRESH_SECONDS
  NodeStale   \* NODE_STALE_SECONDS

ASSUME FreshnessConstantsOK ==
  Interval \in Nat \ {0} /\ NodeFresh \in Nat \ {0} /\ NodeStale \in Nat
    /\ NodeFresh <= NodeStale

None == -1

FreshFactor == 2
StaleFactor == 5

\* age_seconds: a time ahead of the clock has no age.
Age(last, now) == IF last = None THEN None ELSE IF last > now THEN 0 ELSE now - last

StatusForThresholds(age, fresh, stale) ==
  IF age = None THEN "no_data"
  ELSE IF age < fresh THEN "fresh" ELSE IF age < stale THEN "stale" ELSE "offline"

StatusForAge(age, interval) ==
  StatusForThresholds(age, FreshFactor * interval, StaleFactor * interval)

StatusForNode(age) == StatusForThresholds(age, NodeFresh, NodeStale)

\* A stream of events has no cadence: silence is idleness, or nobody knows.
StatusForEvent(age, node) ==
  IF age = None THEN "no_data" ELSE IF node = "offline" THEN "unknown" ELSE "idle"

=============================================================================
