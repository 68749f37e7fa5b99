--------------------------- MODULE MCGatewayCalls ---------------------------
(* Small instances of GatewayCalls for TLC. *)
EXTENDS GatewayCalls, TLC

CONSTANTS t1, t2, a, b

TwoThreads == {t1, t2}
TwoSignatures == {a, b}
\* The static token is good, or fails when the session opens.
IssuedTokens == Token
=============================================================================
