--------------------------- MODULE MCK8sExecutor ---------------------------
(* Small instances of K8sExecutor, and with it of OpsPersistence, for TLC. *)
EXTENDS K8sExecutor, TLC

CONSTANTS k1, k2, k3, apply, restart, scale

ThreeCalls == {k1, k2, k3}
Records == {"asked", "audit"} \X ThreeCalls

\* A disruptive action, with a file, one that is not, and a scaling beyond the limit.
ThreeActions == {apply, restart, scale}
OneDisruptive == {apply}
TheTooWide == {scale}
None == {}
Targets == [a \in ThreeActions |-> a]

CallSymmetry == Permutations(ThreeCalls)
=============================================================================
