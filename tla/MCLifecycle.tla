---------------------------- MODULE MCLifecycle ----------------------------
(* A small instance of Lifecycle for TLC. *)
EXTENDS Lifecycle

CONSTANTS i1, i2

TwoInv == {i1, i2}

\* The cooldowns keep the order of 300, 900 and 1800 seconds.
Cooldowns == [t \in Tier |-> IF t = "critical" THEN 1 ELSE IF t = "medium" THEN 2 ELSE 3]
TwoSeverities == {2, 3}
=============================================================================
