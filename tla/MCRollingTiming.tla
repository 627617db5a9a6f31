-------------------------- MODULE MCRollingTiming --------------------------
(* Instances of RollingTiming for TLC. *)
EXTENDS RollingTiming, TLC

\* The goroutines that call Add are interchangeable.
Symmetry == Permutations(Adder)
=============================================================================
