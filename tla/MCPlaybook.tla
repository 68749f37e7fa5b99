---------------------------- MODULE MCPlaybook ----------------------------
(* A small instance of Playbook for TLC. *)
EXTENDS Playbook, TLC

CONSTANTS w1, w2, w3

TwoWorkers == {w1, w2}
ThreeWorkers == {w1, w2, w3}
\* One worker with more steps than its circuit allows failures.
Uneven == [w \in Worker |-> IF w = w1 THEN 3 ELSE 1]
=============================================================================
