---------------------------- MODULE MCFixEngine ----------------------------
(* Small instances of FixEngine for TLC. *)
EXTENDS FixEngine

CONSTANTS f1, f2, o1, o2

TwoFixes == {f1, f2}
OneFix == {f1}
OneAutomated == {f1}
TwoOperators == {o1, o2}
OneOperator == {o1}
AnyAnswer == {TRUE, FALSE}
Always == {TRUE}
Never == {FALSE}
============================================================================
