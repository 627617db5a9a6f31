--------------------------- MODULE MCTimingStats ---------------------------
(* Instances of TimingStats for TLC. *)
EXTENDS TimingStats

\* Whole milliseconds, parts of one, and durations beyond Word nanoseconds.
MCDurations == {0, 1, 3, 4, 7, 16, 19}
=============================================================================
