SPECIFICATION StatsSpec
CONSTANTS
    Durations <- MCDurations
    MaxLen = 7
    Milli = 3
    Word = 16
INVARIANT PercentileInterpolates
