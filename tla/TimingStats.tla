---------------------------- MODULE TimingStats ----------------------------
(***************************************************************************)
(* What rolling.Timing computes from the sorted durations: Percentile,     *)
(* ordinal and Mean of hystrix/rolling/rolling_timing.go, checked against  *)
(* reference definitions.  The only variable is the sorted array; it grows *)
(* by durations that are not shorter than its last, so every sorted array  *)
(* over Durations up to MaxLen is reached.                                 *)
(*                                                                         *)
(* The comment of Percentile promises a linear interpolation, the code     *)
(* takes one of the durations: PercentileInterpolates states the promise,  *)
(* PercentileIsNearestRank what the code computes instead.                 *)
(*                                                                         *)
(* Nanoseconds are counted in units small enough for TLC: Milli of them    *)
(* are a millisecond (1000000 in the code) and Word is the number of       *)
(* values of a uint32 (2^32).  A percentage is given in tenths.            *)
(***************************************************************************)
EXTENDS Integers, Sequences, SequencesExt, FiniteSets

CONSTANTS Durations, MaxLen, Milli, Word

ASSUME UnitsAssumption == Milli \in Nat \ {0} /\ Word \in Nat /\ Word > Milli
ASSUME DurationsAssumption == Durations \subseteq Nat

VARIABLE sorted     \* CachedSortedDurations

\* The percentages generateLatencyTimings asks for.
Percentages == {0, 250, 500, 750, 900, 950, 990, 995, 1000}

\* Mutation: rounded down.
Ordinal_Floor(length, p) == IF p = 0 /\ length > 0 THEN 1 ELSE (p * length) \div 1000

\* math.Ceil(p / 100 * length), and 1 for the smallest.
Ordinal(length, p) == IF p = 0 /\ length > 0 THEN 1 ELSE (p * length + 999) \div 1000

\* uint32(sortedDurations[pos].Nanoseconds() / 1000000); the array is sorted from
\* index 0 in the code.
Percentile(p) ==
    IF Len(sorted) = 0 THEN 0
    ELSE (sorted[Ordinal(Len(sorted), p)] \div Milli) % Word

Total == FoldLeft(LAMBDA a, d : a + d, 0, sorted)

\* Mutation: the sum is converted before it is divided.
Mean_SumFirst ==
    IF Len(sorted) = 0 THEN 0 ELSE ((Total % Word) \div Len(sorted)) \div Milli

\* uint32(sum.Nanoseconds() / length) / 1000000
Mean ==
    IF Len(sorted) = 0 THEN 0 ELSE ((Total \div Len(sorted)) % Word) \div Milli

StatsInit == sorted = <<>>

\* One more duration.
Longer(d) ==
    /\ Len(sorted) < MaxLen
    /\ Len(sorted) > 0 => d >= Last(sorted)
    /\ sorted' = Append(sorted, d)

Full == Len(sorted) = MaxLen /\ UNCHANGED sorted

StatsNext == (\E d \in Durations : Longer(d)) \/ Full

StatsSpec == StatsInit /\ [][StatsNext]_sorted
----------------------------------------------------------------------------
(* Properties                                                              *)

\* How many durations are not longer than d.
NotLonger(d) == Cardinality({i \in DOMAIN sorted : sorted[i] <= d})

\* The nearest-rank percentile: the shortest duration that at least p of the
\* durations do not exceed.
NearestRank(p) ==
    CHOOSE d \in Range(sorted) :
        /\ 1000 * NotLonger(d) >= p * Len(sorted)
        /\ \A e \in Range(sorted) : 1000 * NotLonger(e) >= p * Len(sorted) => d <= e

\* Percentile never indexes out of the array, and what it returns is the nearest-rank
\* percentile, in milliseconds, for every percentage on the dashboard
\* (rolling_timing.go:115-132).  It is not what its comment says of it: see
\* PercentileInterpolates.
PercentileIsNearestRank ==
    sorted # <<>> =>
        \A p \in Percentages :
            /\ Ordinal(Len(sorted), p) \in DOMAIN sorted
            /\ Percentile(p) = NearestRank(p) \div Milli

\* Where in the array the percentile p is looked for, in thousandths of a place,
\* according to the usual conventions.
Conventions(p) ==
    LET n == Len(sorted)
    IN  [spanning |-> (n - 1) * p + 1000, cumulative |-> n * p,
         centred |-> n * p + 500, outer |-> (n + 1) * p]

\* The duration at that place, or on the line between its two neighbours, in milliseconds.
Interpolated(place) ==
    LET n == Len(sorted)
        i == IF place < 1000 THEN 1 ELSE IF place >= 1000 * n THEN n ELSE place \div 1000
        part == IF place < 1000 \/ i = n THEN 0 ELSE place % 1000
        next == IF i = n THEN n ELSE i + 1
    IN  (sorted[i] * (1000 - part) + sorted[next] * part) \div (1000 * Milli)

\* "Percentile computes the percentile given with a linear interpolation"
\* (rolling_timing.go:114), whichever convention for the place is meant.
PercentileInterpolates ==
    sorted # <<>> =>
        \E convention \in {"spanning", "cumulative", "centred", "outer"} :
            \A p \in Percentages : Percentile(p) = Interpolated(Conventions(p)[convention])

\* The average is computed rightly, and lies between the shortest and the
\* longest duration, as long as it fits into a uint32 in nanoseconds
\* (rolling_timing.go:135-148).
MeanFits ==
    sorted # <<>> /\ Total < Word * Len(sorted) =>
        /\ Mean = Total \div (Milli * Len(sorted))
        /\ Percentile(0) <= Mean /\ Mean <= Percentile(1000)
=============================================================================
