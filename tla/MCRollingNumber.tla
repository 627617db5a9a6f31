-------------------------- MODULE MCRollingNumber --------------------------
(* Instances of RollingNumber for TLC. *)
EXTENDS RollingNumber, TLC

\* Goroutines are interchangeable.
Symmetry == Permutations(Proc)

\* Events count one each; a pool reports how many are active.
MCAmounts == [k \in {"sum", "max"} |-> IF k = "sum" THEN {1} ELSE {1, 2}]
=============================================================================
