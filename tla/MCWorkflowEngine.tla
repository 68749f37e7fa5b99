-------------------------- MODULE MCWorkflowEngine --------------------------
(* Small instances of WorkflowEngine for TLC. *)
EXTENDS WorkflowEngine, TLC

CONSTANTS c1, c2, c3, p1

ThreeCallers == {c1, c2, c3}
OnePhase == {p1}

CallerSymmetry == Permutations(ThreeCallers)
=============================================================================
