----------------------------- MODULE MCCommand -----------------------------
(* Instances of Command for TLC. *)
EXTENDS Command
=============================================================================
