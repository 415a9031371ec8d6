---------------------------- MODULE MCFleetRoutes ----------------------------
EXTENDS FleetRoutes, TLC

CONSTANTS q1, q2, a1, a2, r1, r2

MCCapacity == [a \in Aircraft |-> IF a = a1 THEN 1 ELSE 2]
Sym == Permutations({q1, q2}) \cup Permutations({r1, r2})
=============================================================================
