----------------------------- MODULE MCCircuit -----------------------------
(* Model values and symmetry for the runs of module Circuit.               *)
EXTENDS Circuit, TLC

Symmetry == Permutations(Proc \ Viewer)
=============================================================================
