------------------------------ MODULE Bulkhead ------------------------------
(***************************************************************************)
(* What the ticket pool of a circuit promises (hystrix/pool.go and the     *)
(* first select of DoC): at most Max calls are inside at a time, a call is *)
(* turned away only while exactly Max are inside, and whoever is inside    *)
(* leaves.                                                                 *)
(***************************************************************************)
EXTENDS Integers, FiniteSets

CONSTANTS Cmd, Max

VARIABLES
    active,     \* the calls inside
    turned,     \* the calls turned away
    left        \* the calls that were inside and left

vars == <<active, turned, left>>

Init == active = {} /\ turned = {} /\ left = {}

Outside == Cmd \ (active \cup turned \cup left)

Admit(c) ==
    /\ c \in Outside
    /\ Cardinality(active) < Max
    /\ active' = active \cup {c}
    /\ UNCHANGED <<turned, left>>

TurnAway(c) ==
    /\ c \in Outside
    /\ Cardinality(active) = Max
    /\ turned' = turned \cup {c}
    /\ UNCHANGED <<active, left>>

Leave(c) ==
    /\ c \in active
    /\ active' = active \ {c}
    /\ left' = left \cup {c}
    /\ UNCHANGED turned

Next == \E c \in Cmd : Admit(c) \/ TurnAway(c) \/ Leave(c)

SafeSpec == Init /\ [][Next]_vars

Spec == SafeSpec /\ \A c \in Cmd : WF_vars(Leave(c))
=============================================================================
