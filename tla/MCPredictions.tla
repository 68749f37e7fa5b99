--------------------------- MODULE MCPredictions ---------------------------
(* A small instance of Predictions for TLC. *)
EXTENDS Predictions

CONSTANTS s1, a1, e1
=============================================================================
