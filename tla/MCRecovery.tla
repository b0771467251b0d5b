------------------------------ MODULE MCRecovery ------------------------------
(* Values for the constants of Recovery. *)
EXTENDS Recovery

CONSTANTS a, b, r, s, i1, i2

\* Host a runs the instances, r and s are in reserve.
OneSegment    == [h \in Hosts |-> "segment"]
Auto          == [x \in Segments |-> "auto"]
RhPriority    == [x \in Segments |-> "rh_priority"]
OneEngine     == [h \in Hosts |-> "engine"]
BothOnA       == [i \in Instances |-> a]

\* The failed host a is in the only aggregate.
AlphaOnly == [n \in Aggregates |-> {a}]
=============================================================================
