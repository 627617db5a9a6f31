----------------------------- MODULE MCRegistry -----------------------------
(* Instances of Registry for TLC. *)
EXTENDS Registry, TLC

MCField == {"Timeout", "MaxConcurrentRequests"}
MCDefaultOf == [f \in MCField |-> 2]

Config(timeout, size) ==
    [f \in MCField |-> IF f = "Timeout" THEN timeout ELSE size]

\* One command alone, partly configured, or two at once, one with a size that is none.
MCConfigs == {"a" :> Config(0, 1), "a" :> Config(7, 0) @@ "b" :> Config(0, -1)}
=============================================================================
